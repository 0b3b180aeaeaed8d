---------------------------- MODULE JsonlStorage ----------------------------
(***************************************************************************)
(* The JSONL session storage of                                            *)
(* packages/agent/src/harness/session/jsonl/storage.ts: one file per       *)
(* session, a header line and then one line per mutation.  Operations are  *)
(* chained; each is checked against the state in memory, written, and only *)
(* then applied and acknowledged.  The process may die at any point, and a *)
(* write that fails or is cut short leaves any prefix of its bytes.        *)
(***************************************************************************)
EXTENDS SessionState

CONSTANTS
  Commands,      \* requests the callers may make, a subset of Requests
  MaxSequence,   \* mutations of the session                  (bound)
  MaxQueue,      \* operations waiting in the promise chain    (bound)
  MaxCrashes,    \* process deaths                             (bound)
  MaxFailures    \* file-system calls that report an error     (bound)

ASSUME CommandsAssumption == Commands \subseteq Requests

ASSUME BoundsAssumption ==
  /\ MaxSequence \in Nat
  /\ MaxQueue \in Nat
  /\ MaxCrashes \in Nat
  /\ MaxFailures \in Nat

VARIABLES
  file,       \* the session file: its lines, and whether the last one ends
  tmp,        \* the sibling .tmp file
  phase,      \* where the process is
  cursor,     \* next line load() parses
  live,       \* the SessionState in memory
  queue,      \* the operations chained behind tail; the head is running
  inflight,   \* the mutation being appended
  acked,      \* history: mutations whose operation resolved
  versions,   \* history: the states the file has stood for, oldest first
  refused,    \* history: a load rejected a mutation line
  crashes,    \* history: process deaths so far
  failures    \* history: file-system errors so far

memory == <<phase, cursor, live, queue, inflight>>
counters == <<crashes, failures>>
vars == <<file, tmp, memory, acked, versions, refused, counters>>

-----------------------------------------------------------------------------
(* File contents.  A line is a mutation, the header, or text that is not   *)
(* JSON: a cut-off line, or several run together because the first was     *)
(* not terminated.                                                         *)

Text(kind) == [kind |-> kind, seq |-> 0, id |-> Null, lane |-> Null,
               ref |-> Null, type |-> "unset"]
Header  == Text("header")
Garbage == Text("garbage")
NoMutation == Text("none")

Line == Mutation \cup {Header, Garbage}
Content == [lines : Seq(Line), terminated : BOOLEAN]
NoFile == [lines |-> <<>>, terminated |-> TRUE]

(* How much of a line and its newline reached the file.                    *)
Chunks == {"nothing", "part", "unterminated", "line"}

(* appendFile: the bytes go behind the last byte of the file, whether or   *)
(* not that is a newline.                                                  *)
Written(f, line, chunk) ==
  LET text == IF chunk = "part" \/ ~f.terminated THEN Garbage ELSE line
      kept == IF f.terminated THEN f.lines
              ELSE SubSeq(f.lines, 1, Len(f.lines) - 1)
  IN IF chunk = "nothing" THEN f
     ELSE [lines |-> Append(kept, text), terminated |-> chunk = "line"]

LastOf(s) == s[Len(s)]
Durable == LastOf(versions)
Lines(f) == {f.lines[k] : k \in DOMAIN f.lines}

(* versions follows the file: a mutation whose line is complete counts.    *)
Record(line, chunk) ==
  versions' = IF chunk \in {"unterminated", "line"} /\ file.terminated
              THEN Append(versions, Apply(Durable, line))
              ELSE versions

Phases == {"down", "creating", "replaying", "staging", "publishing",
           "terminating", "ready", "appending"}

TypeOK ==
  /\ file \in Content
  /\ tmp \in Content
  /\ phase \in Phases
  /\ cursor \in Nat
  /\ live \in State
  /\ queue \in Seq(Commands)
  /\ inflight \in Mutation \cup {NoMutation}
  /\ acked \in SUBSET Mutation
  /\ versions \in Seq(State) /\ versions # <<>>
  /\ refused \in BOOLEAN
  /\ crashes \in 0..MaxCrashes
  /\ failures \in 0..MaxFailures

Init ==
  /\ file = NoFile
  /\ tmp = NoFile
  /\ phase = "down"
  /\ cursor = 1
  /\ live = EmptyState
  /\ queue = <<>>
  /\ inflight = NoMutation
  /\ acked = {}
  /\ versions = <<EmptyState>>
  /\ refused = FALSE
  /\ crashes = 0
  /\ failures = 0

-----------------------------------------------------------------------------
(* create: writeFile of the header.                                        *)

Create ==
  /\ phase = "down" /\ file.lines = <<>>
  /\ phase' = "creating"
  /\ live' = EmptyState
  /\ UNCHANGED <<file, tmp, cursor, queue, inflight, acked, versions, refused,
                 counters>>

CreateDone ==
  /\ phase = "creating"
  /\ file' = Written(NoFile, Header, "line")
  /\ phase' = "ready"
  /\ UNCHANGED <<tmp, cursor, live, queue, inflight, acked, versions, refused,
                 counters>>

-----------------------------------------------------------------------------
(* Operations of a storage in use.                                         *)

(* enqueue: the operation joins the chain.                                 *)
Enqueue(r) ==
  /\ phase \in {"ready", "appending"}
  /\ Len(queue) < MaxQueue
  /\ queue' = Append(queue, r)
  /\ UNCHANGED <<file, tmp, phase, cursor, live, inflight, acked, versions,
                 refused, counters>>

\* Mutant: a rejected operation poisons the chain behind it.
RejectPoisons ==
  /\ phase = "ready" /\ queue # <<>>
  /\ ~Accepts(live, Head(queue))
  /\ UNCHANGED vars

(* The head of the chain fails its checks and rejects.                     *)
Reject ==
  /\ phase = "ready" /\ queue # <<>>
  /\ ~Accepts(live, Head(queue))
  /\ queue' = Tail(queue)
  /\ UNCHANGED <<file, tmp, phase, cursor, live, inflight, acked, versions,
                 refused, counters>>

\* Mutant: the checks were made when the operation was enqueued.
BeginAppendUnchecked ==
  /\ phase = "ready" /\ queue # <<>>
  /\ live.sequence < MaxSequence
  /\ inflight' = MutationOf(live, Head(queue))
  /\ phase' = "appending"
  /\ UNCHANGED <<file, tmp, cursor, live, queue, acked, versions, refused,
                 counters>>

(* It passes them and starts to append its mutation.                       *)
BeginAppend ==
  /\ phase = "ready" /\ queue # <<>>
  /\ Accepts(live, Head(queue))
  /\ live.sequence < MaxSequence
  /\ inflight' = MutationOf(live, Head(queue))
  /\ phase' = "appending"
  /\ UNCHANGED <<file, tmp, cursor, live, queue, acked, versions, refused,
                 counters>>

\* Mutant: the mutation is applied but the write is not awaited.
AppendNotAwaited ==
  /\ phase = "appending"
  /\ live' = Apply(live, inflight)
  /\ acked' = acked \cup {inflight}
  /\ queue' = Tail(queue)
  /\ inflight' = NoMutation
  /\ phase' = "ready"
  /\ \E chunk \in {"nothing", "line"} :
       file' = Written(file, inflight, chunk) /\ Record(inflight, chunk)
  /\ UNCHANGED <<tmp, cursor, refused, counters>>

(* The write resolves: apply, acknowledge, next.                           *)
AppendDone ==
  /\ phase = "appending"
  /\ file' = Written(file, inflight, "line")
  /\ Record(inflight, "line")
  /\ live' = Apply(live, inflight)
  /\ acked' = acked \cup {inflight}
  /\ queue' = Tail(queue)
  /\ inflight' = NoMutation
  /\ phase' = "ready"
  /\ UNCHANGED <<tmp, cursor, refused, counters>>

(* The write rejects after any number of bytes: the operation rejects, the *)
(* state in memory stays, the chain goes on.                               *)
AppendFails ==
  /\ phase = "appending"
  /\ failures < MaxFailures
  /\ failures' = failures + 1
  /\ \E chunk \in Chunks :
       file' = Written(file, inflight, chunk) /\ Record(inflight, chunk)
  /\ queue' = Tail(queue)
  /\ inflight' = NoMutation
  /\ phase' = "ready"
  /\ UNCHANGED <<tmp, cursor, live, acked, refused, crashes>>

-----------------------------------------------------------------------------
(* load: read the file, replay it, repair its tail.                        *)

BeginLoad ==
  /\ phase = "down" /\ file.lines # <<>>
  /\ file.lines[1] = Header       \* otherwise load rejects the file
  /\ phase' = "replaying"
  /\ live' = EmptyState
  /\ cursor' = 2
  /\ UNCHANGED <<file, tmp, queue, inflight, acked, versions, refused, counters>>

AtLine == phase = "replaying" /\ cursor <= Len(file.lines)
Current == file.lines[cursor]

ReplayLine ==
  /\ AtLine
  /\ Current # Garbage /\ Valid(live, Current)
  /\ live' = Apply(live, Current)
  /\ cursor' = cursor + 1
  /\ UNCHANGED <<file, tmp, phase, queue, inflight, acked, versions, refused,
                 counters>>

(* A line that does not parse is a torn append only if it is the last one. *)
ReplayTornTail ==
  /\ AtLine
  /\ Current = Garbage /\ cursor = Len(file.lines)
  /\ phase' = "staging"
  /\ UNCHANGED <<file, tmp, cursor, live, queue, inflight, acked, versions,
                 refused, counters>>

ReplayRefuses ==
  /\ AtLine
  /\ IF Current = Garbage THEN cursor < Len(file.lines) ELSE ~Valid(live, Current)
  /\ refused' = TRUE
  /\ phase' = "down"
  /\ live' = EmptyState
  /\ UNCHANGED <<file, tmp, cursor, queue, inflight, acked, versions, counters>>

\* Mutant: a complete last line without its newline is left as it is.
ReplayEndUnrepaired ==
  /\ phase = "replaying" /\ cursor > Len(file.lines)
  /\ phase' = "ready"
  /\ UNCHANGED <<file, tmp, cursor, live, queue, inflight, acked, versions,
                 refused, counters>>

\* Mutant: the last line is not replayed.
ReplayEndsEarly ==
  /\ phase = "replaying" /\ cursor >= Len(file.lines)
  /\ phase' = IF file.terminated THEN "ready" ELSE "terminating"
  /\ UNCHANGED <<file, tmp, cursor, live, queue, inflight, acked, versions,
                 refused, counters>>

ReplayEnd ==
  /\ phase = "replaying" /\ cursor > Len(file.lines)
  /\ phase' = IF file.terminated THEN "ready" ELSE "terminating"
  /\ UNCHANGED <<file, tmp, cursor, live, queue, inflight, acked, versions,
                 refused, counters>>

(* A newline is appended behind a complete but unterminated last line.     *)
Terminate ==
  /\ phase = "terminating"
  /\ file' = [file EXCEPT !.terminated = TRUE]
  /\ phase' = "ready"
  /\ UNCHANGED <<tmp, cursor, live, queue, inflight, acked, versions, refused,
                 counters>>

(* publishFileAtomically: write the valid prefix to the .tmp file, rename. *)
ValidPrefix ==
  [lines |-> SubSeq(file.lines, 1, Len(file.lines) - 1), terminated |-> TRUE]

Stage ==
  /\ phase = "staging"
  /\ tmp' = ValidPrefix
  /\ phase' = "publishing"
  /\ UNCHANGED <<file, cursor, live, queue, inflight, acked, versions, refused,
                 counters>>

Publish ==
  /\ phase = "publishing"
  /\ file' = tmp
  /\ tmp' = NoFile
  /\ phase' = "ready"
  /\ UNCHANGED <<cursor, live, queue, inflight, acked, versions, refused, counters>>

(* A file-system call of load fails: load rejects, a staged file goes.     *)
LoadFails ==
  /\ phase \in {"staging", "publishing", "terminating"}
  /\ failures < MaxFailures
  /\ failures' = failures + 1
  /\ phase' = "down"
  /\ live' = EmptyState
  /\ tmp' = IF phase = "terminating" THEN tmp ELSE NoFile
  /\ file' \in IF phase = "terminating"
               THEN {file, [file EXCEPT !.terminated = TRUE]}
               ELSE {file}
  /\ UNCHANGED <<cursor, queue, inflight, acked, versions, refused, crashes>>

-----------------------------------------------------------------------------
(* The process dies.  What it was writing is in the file up to any byte;   *)
(* everything in memory is gone.                                           *)

CrashFile ==
  \/ /\ phase = "creating"
     /\ \E chunk \in Chunks : file' = Written(NoFile, Header, chunk)
     /\ UNCHANGED <<tmp, versions>>
  \/ /\ phase = "appending"
     /\ \E chunk \in Chunks :
          file' = Written(file, inflight, chunk) /\ Record(inflight, chunk)
     /\ UNCHANGED tmp
  \/ /\ phase = "staging"
     /\ \/ UNCHANGED tmp
        \/ tmp' = ValidPrefix
        \/ tmp' = Written(NoFile, Header, "part")   \* cut off
     /\ UNCHANGED <<file, versions>>
  \/ /\ phase = "terminating"
     /\ file' \in {file, [file EXCEPT !.terminated = TRUE]}
     /\ UNCHANGED <<tmp, versions>>
  \/ /\ phase \in {"replaying", "publishing", "ready"}
     /\ UNCHANGED <<file, tmp, versions>>

Crash ==
  /\ crashes < MaxCrashes
  /\ crashes' = crashes + 1
  /\ CrashFile
  /\ phase' = "down"
  /\ live' = EmptyState
  /\ queue' = <<>>
  /\ inflight' = NoMutation
  /\ UNCHANGED <<cursor, acked, refused, failures>>

-----------------------------------------------------------------------------
Operate ==
  \/ Reject
  \/ BeginAppend
  \/ AppendDone

Load ==
  \/ BeginLoad
  \/ ReplayLine
  \/ ReplayTornTail
  \/ ReplayRefuses
  \/ ReplayEnd
  \/ Terminate
  \/ Stage
  \/ Publish

(* Every write that is not cut short by a crash succeeds.                  *)
CrashNext ==
  \/ Create
  \/ CreateDone
  \/ \E r \in Commands : Enqueue(r)
  \/ Operate
  \/ Load
  \/ Crash

Next ==
  \/ CrashNext
  \/ AppendFails
  \/ LoadFails

CrashSpec == Init /\ [][CrashNext]_vars
Spec == Init /\ [][Next]_vars

(* Promise callbacks run and file-system calls settle.                     *)
FairSpec == Spec /\ WF_vars(Operate) /\ WF_vars(Load)

-----------------------------------------------------------------------------
(* Properties.                                                             *)

(* What is acknowledged is in the file, as a line of its own, from then    *)
(* on: through every crash, every load and every repair.                   *)
AckedSurvive == acked \subseteq Lines(file)

(* A crash never makes a file unreadable: load rejects only a file whose   *)
(* header was never completely written.                                    *)
LoadNeverRefuses == ~refused

(* load() of a copy of the file, at any moment, would accept line by line   *)
(* what the file is said to stand for, with one torn line at most behind   *)
(* it: versions is the replay of its lines.                                *)
DurableIsReplay ==
  /\ versions[1] = EmptyState
  /\ \A k \in 2..Len(versions) :
       /\ k \in DOMAIN file.lines /\ file.lines[k] \in Mutation
       /\ Valid(versions[k - 1], file.lines[k])
       /\ versions[k] = Apply(versions[k - 1], file.lines[k])
  /\ \A k \in DOMAIN file.lines :
       k > Len(versions) => file.lines[k] = Garbage /\ k = Len(file.lines)

(* Neither a crash nor a repair leaves a file that load would refuse or    *)
(* read as another session.                                                *)
FileReadable == LoadNeverRefuses /\ DurableIsReplay

(* A storage in use agrees with its file: the state in memory is what the  *)
(* file stands for, and the next append starts on a new line.              *)
LiveIsDurable ==
  phase \in {"ready", "appending"} =>
    /\ live = Durable
    /\ file.terminated
    /\ Garbage \notin Lines(file)

(* In memory the checks of the operations keep the state sound, whatever   *)
(* the file system does and whatever a load accepts.                       *)
LiveSound == Sound(live)

(* A chain never stalls: an operation that rejects, or whose write fails,  *)
(* lets the next one run, so that a full chain has room again.  At         *)
(* MaxSequence the model stops appending.                                  *)
ChainMoves ==
  Len(queue) = MaxQueue ~> (Len(queue) < MaxQueue \/ live.sequence = MaxSequence)

(* The repair of load drops "the unacknowledged partial append" and        *)
(* nothing that was acknowledged.                                          *)
RepairDropsUnacknowledged ==
  [][phase = "publishing" /\ phase' = "ready" => acked \subseteq Lines(file')]_vars

(* The storage is a SessionStore: seen through its file, every crash and   *)
(* every load is invisible, and a line appears by one operation.           *)
StoreView ==
  INSTANCE SessionStore WITH store <- Durable, MaxStoreSequence <- MaxSequence
ImplementsStore == StoreView!StoreSpec

=============================================================================
