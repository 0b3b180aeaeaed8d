------------------------- MODULE FileMutationQueue -------------------------
(***************************************************************************)
(* The calls of the edit and write tools on one file and the queue that    *)
(* serializes them, packages/coding-agent/src/core/tools:                  *)
(* file-mutation-queue.ts, edit.ts and write.ts.  A batch of tool calls    *)
(* runs in parallel, so the calls of one assistant message reach the same  *)
(* file at once, by its real path or by an alias of it (a symbolic link).  *)
(*                                                                         *)
(* The content of the file is the sequence of the calls it shows: a write  *)
(* replaces it, an edit adds itself to what it read.                       *)
(***************************************************************************)
EXTENDS Naturals, Sequences, Functions

CONSTANT MaxToolCalls   \* calls of the two tools  (bound)

ASSUME MaxToolCallsAssumption == MaxToolCalls \in Nat

VARIABLES
  mutations,     \* each call: tool, path, where it is (at), the key it got, the
                 \* call it waits for (behind), what it read and what it did
  registrations, \* registrationQueue: calls that wait to register, in order
  fileMutationQueues, \* the last call of each key
  onDisk         \* the file: whether it exists, whether a call created it, and
                 \* what it shows

fileVars == <<mutations, registrations, fileMutationQueues, onDisk>>

(* Calls are numbered in the order in which they are made.                 *)
ToolCalls == 1..MaxToolCalls

NoCall == 0   \* Promise.resolve()

Tools == {"edit", "write"}
Paths == {"real", "alias"}

FileTypeOK ==
  /\ \A c \in ToolCalls :
       /\ mutations[c].tool \in Tools
       /\ mutations[c].path \in Paths
       /\ mutations[c].at \in {"idle", "registering", "keyed", "queued", "running",
                               "ready", "writing", "ended"}
       /\ mutations[c].key \in Paths \cup {"none"}
       /\ mutations[c].behind \in ToolCalls \cup {NoCall}
       /\ mutations[c].read \in Seq(ToolCalls)
       /\ mutations[c].did \in {"nothing", "truncated", "written"}
  /\ registrations \in Seq(ToolCalls)
  /\ fileMutationQueues \in [Paths -> ToolCalls \cup {NoCall}]
  /\ onDisk.exists \in BOOLEAN /\ onDisk.created \in BOOLEAN
  /\ onDisk.shows \in Seq(ToolCalls)

FilesInit ==
  /\ mutations = [c \in ToolCalls |->
       [tool |-> "edit", path |-> "real", at |-> "idle", key |-> "none",
        behind |-> NoCall, read |-> <<>>, did |-> "nothing"]]
  /\ registrations = <<>>
  /\ fileMutationQueues = [k \in Paths |-> NoCall]
  /\ onDisk \in [exists : BOOLEAN, created : {FALSE}, shows : {<<>>}]

(* Call c goes on from one stage to another.                               *)
Goes(c, from, to) ==
  /\ mutations[c].at = from
  /\ mutations' = [mutations EXCEPT ![c].at = to]

-----------------------------------------------------------------------------
(* Registration, one call after the other.                                 *)

(* execute of either tool: withFileMutationQueue chains its registration.  *)
Call(c) ==
  /\ c > 1 => mutations[c - 1].at # "idle"
  /\ mutations[c].at = "idle"
  /\ \E tool \in Tools, path \in Paths :
       mutations' = [mutations EXCEPT ![c].at = "registering", ![c].tool = tool,
                                      ![c].path = path]
  /\ registrations' = Append(registrations, c)
  /\ UNCHANGED <<fileMutationQueues, onDisk>>

(* getMutationQueueKey: realpath resolves an alias of a file that exists;  *)
(* of one that does not (ENOENT) the path itself is the key.               *)
MutationQueueKey(c) == IF onDisk.exists THEN "real" ELSE mutations[c].path

ResolveKey(c) ==
  /\ registrations # <<>> /\ c = Head(registrations)
  /\ mutations[c].at = "registering"
  /\ mutations' = [mutations EXCEPT ![c].at = "keyed", ![c].key = MutationQueueKey(c)]
  /\ UNCHANGED <<registrations, fileMutationQueues, onDisk>>

(* realpath throws anything else: this call fails, the next registers.     *)
ResolveFails(c) ==
  /\ registrations # <<>> /\ c = Head(registrations)
  /\ Goes(c, "registering", "ended")
  /\ registrations' = Tail(registrations)
  /\ UNCHANGED <<fileMutationQueues, onDisk>>

Register(c) ==
  LET k == mutations[c].key
  IN /\ mutations[c].at = "keyed"
     /\ mutations' = [mutations EXCEPT ![c].at = "queued", ![c].behind = fileMutationQueues[k]]
     /\ fileMutationQueues' = [fileMutationQueues EXCEPT ![k] = c]
     /\ registrations' = Tail(registrations)
     /\ UNCHANGED <<onDisk>>

-----------------------------------------------------------------------------
(* The mutation, in its turn.                                              *)

(* await currentQueue: the call in front is released.                      *)
Begin(c) ==
  /\ LET front == mutations[c].behind
     IN front # NoCall => mutations[front].at = "ended"
  /\ Goes(c, "queued", "running")
  /\ UNCHANGED <<registrations, fileMutationQueues, onDisk>>

\* Mutant: the entry of the key is deleted whoever is behind.
ReleaseAll(c) == fileMutationQueues' = [fileMutationQueues EXCEPT ![mutations[c].key] = NoCall]

(* The finally of withFileMutationQueue, when the mutation has settled.    *)
Release(c) ==
  fileMutationQueues' = [fileMutationQueues EXCEPT ![mutations[c].key] = IF @ = c THEN NoCall ELSE @]

(* edit: access and readFile.  write: mkdir.                               *)
Prepare(c) ==
  /\ mutations[c].at = "running"
  /\ mutations[c].tool = "edit" => onDisk.exists
  /\ mutations' = [mutations EXCEPT
       ![c].at = "ready",
       ![c].read = IF mutations[c].tool = "edit" THEN onDisk.shows ELSE <<>>]
  /\ UNCHANGED <<registrations, fileMutationQueues, onDisk>>

(* An abort seen before or between the calls, a file that is not there or   *)
(* does not open, a text to replace that is not found: nothing is written. *)
GiveUp(c) ==
  /\ Goes(c, "running", "ended") \/ Goes(c, "ready", "ended")
  /\ Release(c)
  /\ UNCHANGED <<registrations, onDisk>>

(* writeFile opens the file and truncates it,                              *)
Truncate(c) ==
  /\ mutations[c].at = "ready"
  /\ mutations' = [mutations EXCEPT ![c].at = "writing", ![c].did = "truncated"]
  /\ onDisk' = [exists |-> TRUE, shows |-> <<>>,
                created |-> onDisk.created \/ ~onDisk.exists]
  /\ UNCHANGED <<registrations, fileMutationQueues>>

(* then writes it.  An abort seen behind it fails a call that has written. *)
WriteOut(c) ==
  /\ mutations[c].at = "writing"
  /\ mutations' = [mutations EXCEPT ![c].at = "ended", ![c].did = "written"]
  /\ onDisk' = [onDisk EXCEPT !.shows = Append(mutations[c].read, c)]
  /\ Release(c)
  /\ UNCHANGED <<registrations>>

(* The disk fills: the file stays empty.                                   *)
WriteFails(c) ==
  /\ Goes(c, "writing", "ended")
  /\ Release(c)
  /\ UNCHANGED <<registrations, onDisk>>

FilesNext ==
  \E c \in ToolCalls :
    \/ Call(c) \/ ResolveKey(c) \/ ResolveFails(c) \/ Register(c) \/ Begin(c)
    \/ Prepare(c) \/ GiveUp(c) \/ Truncate(c) \/ WriteOut(c) \/ WriteFails(c)

FilesSpec == FilesInit /\ [][FilesNext]_fileVars

-----------------------------------------------------------------------------
(* Properties.                                                             *)

(* Call c is still seen when the calls take effect one by one in the order  *)
(* in which they were made: no later one truncated or replaced the file.   *)
Survives(c) ==
  /\ mutations[c].did = "written"
  /\ \A d \in ToolCalls : d > c =>
       \/ mutations[d].did = "nothing"
       \/ mutations[d].did = "written" /\ mutations[d].tool = "edit"

Ascends(seq) == \A i, j \in DOMAIN seq : i < j => seq[i] < seq[j]

ShowsInOrder ==
  Range(onDisk.shows) = {c \in ToolCalls : Survives(c)} /\ Ascends(onDisk.shows)

(* All calls registered under one key.                                    *)
OneKey ==
  \A c, d \in ToolCalls :
    "none" \notin {mutations[c].key, mutations[d].key} => mutations[c].key = mutations[d].key

(* "Serialize file mutation operations targeting the same file": calls of   *)
(* one file take effect one by one, in the order in which they were made,   *)
(* whatever fails or is aborted between, also through aliases; and a call   *)
(* that ended is not left in the map.  Not so for a file that does not     *)
(* exist yet: it has a key per alias, which are not kept apart.            *)
MutationsSerialize ==
  /\ (onDisk.created => OneKey) /\ (\A c \in ToolCalls : mutations[c].at # "writing")
       => ShowsInOrder
  /\ \A k \in Paths : fileMutationQueues[k] # NoCall => mutations[fileMutationQueues[k]].at # "ended"

=============================================================================
