------------------------ MODULE SessionStorageProofs ------------------------
(***************************************************************************)
(* Proofs about session storages, for any set of ids and lanes, any number *)
(* of operations and any number of crashes: a storage as its callers see   *)
(* it keeps its state sound; what the JSONL storage acknowledged survives  *)
(* process deaths, its files load, and it implements SessionStore; and     *)
(* every fork of a session replays to the session that was asked for.      *)
(***************************************************************************)
EXTENDS MCSessionStorage, SessionStateProofs, FiniteSetTheorems, SequenceTheorems

USE CommandsAssumption, BoundsAssumption

-----------------------------------------------------------------------------
(* SessionStore: the state of a storage is well typed and sound.            *)

StoreInv == store \in State /\ Sound(store)

(* Every operation keeps the state well typed and sound.                    *)
LEMMA StoreInvStep == StoreInv /\ [StoreNext]_store => StoreInv'
<1> SUFFICES ASSUME StoreInv, [StoreNext]_store PROVE StoreInv'
  OBVIOUS
<1>1. CASE UNCHANGED store
  BY <1>1 DEF StoreInv
<1>2. CASE StoreNext
  <2>1. \E r \in Requests : Accepts(store, r) /\ store' = Apply(store, MutationOf(store, r))
    BY <1>2 DEF StoreNext, AppendEntry, AppendRecord, CreateLane, MoveLane, SetName,
                SetLabel, Perform, Requests
  <2> QED
    BY <2>1, PerformedSound DEF StoreInv
<1> QED
  BY <1>1, <1>2

(* Every reachable state of a storage is well typed and sound.             *)
THEOREM StoreInvariant == StoreSpec => []StoreInv
<1>1. StoreInit => StoreInv
  BY EmptyStateType DEF StoreInit, StoreInv
<1> QED
  BY <1>1, StoreInvStep, PTL DEF StoreSpec

(* The state of a storage keeps its type (SessionState).                   *)
THEOREM StoreTypeCorrect == StoreSpec => []StoreTypeOK
<1>1. StoreInv => StoreTypeOK
  BY DEF StoreInv, StoreTypeOK
<1> QED
  BY <1>1, StoreInvariant, PTL

(* An operation that passed its checks is applied without an error, so     *)
(* nothing is ever written that the state then refuses.                    *)
THEOREM AcceptedIsValidAlways == StoreSpec => []AcceptedIsValid
<1>1. StoreInv => AcceptedIsValid
  BY AcceptedValid DEF StoreInv, AcceptedIsValid, Sound
<1> QED
  BY <1>1, StoreInvariant, PTL

(* Lanes, labels and parents of any session of any size resolve, so that   *)
(* the walk to the root of findEntriesOnBranch ends, no lane ever has two  *)
(* open operations (appendRecord), and every accepted operation is valid.  *)
THEOREM StoreAlwaysSound == StoreSpec => []StoreSound
<1>1. StoreInv /\ AcceptedIsValid => StoreSound
  BY DEF StoreInv, StoreSound
<1> QED
  BY <1>1, StoreInvariant, AcceptedIsValidAlways, PTL

-----------------------------------------------------------------------------
(* JsonlStorage.  versions[k] is the state after the first k               *)
(* lines of the file; load follows the same sequence, so the state it has  *)
(* rebuilt before line cursor is versions[cursor - 1].                     *)

HasHeader == Len(file.lines) > 0 /\ file.lines[1] = Header

Torn ==
  /\ Len(file.lines) = Len(versions) + 1
  /\ file.lines[Len(file.lines)] = Garbage
  /\ ~file.terminated

Replayable(k) ==
  /\ file.lines[k] \in Mutation
  /\ Valid(versions[k - 1], file.lines[k])
  /\ versions[k] = Apply(versions[k - 1], file.lines[k])

ChainInv ==
  /\ versions[1] = EmptyState
  /\ \A k \in 1..Len(versions) : Sound(versions[k])
  /\ \A k \in 2..Len(versions) : Replayable(k)

ShapeInv ==
  \/ /\ Len(versions) = 1
     /\ file = NoFile \/ (file.lines = <<Garbage>> /\ ~file.terminated)
  \/ HasHeader /\ (Len(file.lines) = Len(versions) \/ Torn)

AckedInv == \A m \in acked : \E k \in 2..Len(versions) : file.lines[k] = m

FileInv == ChainInv /\ ShapeInv /\ AckedInv /\ ~refused

Clean == HasHeader /\ Len(file.lines) = Len(versions)

UseInv == phase \in {"ready", "appending"} =>
            live = Durable /\ Clean /\ file.terminated
AppendInv == phase = "appending" =>
               /\ queue # <<>> /\ Accepts(live, Head(queue))
               /\ live.sequence < MaxSequence
               /\ inflight = MutationOf(live, Head(queue))
ReplayInv == phase = "replaying" =>
               /\ HasHeader /\ cursor \in 2..(Len(versions) + 1)
               /\ live = versions[cursor - 1]
RepairInv == phase \in {"staging", "publishing"} =>
               /\ HasHeader /\ Torn /\ live = Durable
               /\ phase = "publishing" => tmp = ValidPrefix
EndInv == phase = "terminating" => Clean /\ live = Durable
CreateInv == phase = "creating" => file = NoFile /\ live = EmptyState

PhaseInv == UseInv /\ AppendInv /\ ReplayInv /\ RepairInv /\ EndInv /\ CreateInv

JsonlInv == TypeOK /\ FileInv /\ PhaseInv

-----------------------------------------------------------------------------
(* Lines and writes.                                                       *)

LEMMA TextIsNoMutation ==
  Header \notin Mutation /\ Garbage \notin Mutation /\ NoMutation \notin Mutation
    /\ Header # Garbage
  BY DEF Header, Garbage, NoMutation, Text, Mutation

(* A write to a terminated file adds nothing, an unparsable line, or the   *)
(* line itself.                                                            *)
LEMMA WrittenCases ==
  ASSUME NEW f \in Content, f.terminated, NEW line \in Line, NEW chunk \in Chunks
  PROVE  /\ Written(f, line, chunk) \in Content
         /\ chunk = "nothing" => Written(f, line, chunk) = f
         /\ chunk = "part" =>
              Written(f, line, chunk) = [lines |-> Append(f.lines, Garbage), terminated |-> FALSE]
         /\ chunk = "unterminated" =>
              Written(f, line, chunk) = [lines |-> Append(f.lines, line), terminated |-> FALSE]
         /\ chunk = "line" =>
              Written(f, line, chunk) = [lines |-> Append(f.lines, line), terminated |-> TRUE]
<1>1. Garbage \in Line
  BY DEF Line
<1>2. f.lines \in Seq(Line)
  BY DEF Content
<1>3. Append(f.lines, Garbage) \in Seq(Line) /\ Append(f.lines, line) \in Seq(Line)
  BY <1>1, <1>2
<1> QED
  BY <1>3 DEF Written, Content, Chunks

LEMMA NoFileType ==
  /\ NoFile \in Content /\ NoFile.terminated /\ NoFile.lines = <<>>
  /\ Header \in Line /\ Garbage \in Line
  BY DEF NoFile, Content, Line

(* Sequences.                                                              *)
LEMMA AppendEmpty ==
  ASSUME NEW x
  PROVE  Append(<<>>, x) = <<x>>
  OBVIOUS

LEMMA AppendSeq ==
  ASSUME NEW S, NEW s \in Seq(S), NEW x \in S
  PROVE  /\ Append(s, x) \in Seq(S) /\ Len(Append(s, x)) = Len(s) + 1
         /\ Len(s) \in Nat /\ Append(s, x)[Len(s) + 1] = x
         /\ \A k \in 1..Len(s) : Append(s, x)[k] = s[k]
  OBVIOUS

(* The mutation of an accepted operation extends the chain of versions.    *)
LEMMA AppendedLine ==
  ASSUME TypeOK, FileInv, Clean, live = Durable, file.terminated,
         NEW r \in Commands, Accepts(live, r), inflight = MutationOf(live, r),
         file'.lines = Append(file.lines, inflight),
         versions' = Append(versions, Apply(Durable, inflight)),
         UNCHANGED refused,
         acked' \subseteq acked \cup {inflight}
  PROVE  FileInv' /\ Clean' /\ Durable' = Apply(Durable, inflight)
         /\ inflight \in Mutation /\ versions' \in Seq(State)
         /\ Apply(Durable, inflight) \in State
<1> DEFINE n == Len(versions)
           new == Apply(Durable, inflight)
<1>1. /\ n \in Nat /\ n >= 1 /\ Durable = versions[n] /\ Durable \in State
      /\ versions \in Seq(State) /\ file.lines \in Seq(Line)
  BY DEF TypeOK, Durable, LastOf, Content
<1>2. Sound(Durable)
  BY <1>1 DEF FileInv, ChainInv
<1>3. inflight \in Mutation /\ Valid(Durable, inflight) /\ new \in State /\ Sound(new)
  BY <1>1, <1>2, MutationOfType, AcceptedValid, PerformedSound DEF Sound
<1>4. /\ versions' \in Seq(State) /\ Len(versions') = n + 1 /\ versions'[n + 1] = new
      /\ \A k \in 1..n : versions'[k] = versions[k]
  BY <1>1, <1>3, AppendSeq
<1>5. /\ Len(file.lines) = n
      /\ Len(file'.lines) = n + 1 /\ file'.lines[n + 1] = inflight
      /\ \A k \in 1..n : file'.lines[k] = file.lines[k]
  BY <1>1, <1>3, AppendSeq DEF Clean, Line
<1>6. HasHeader' /\ Clean'
  BY <1>1, <1>4, <1>5 DEF Clean, HasHeader
<1>7. Durable' = new
  BY <1>4 DEF Durable, LastOf
<1>8. ChainInv'
  <2>1. versions'[1] = EmptyState
    BY <1>1, <1>4 DEF FileInv, ChainInv
  <2>2. \A k \in 1..Len(versions') : Sound(versions'[k])
    BY <1>1, <1>3, <1>4 DEF FileInv, ChainInv
  <2>3. ASSUME NEW k \in 2..Len(versions') PROVE Replayable(k)'
    <3>1. CASE k = n + 1
      BY <1>1, <1>3, <1>4, <1>5, <3>1 DEF Replayable
    <3>2. CASE k \in 2..n
      <4>1. Replayable(k)
        BY <3>2 DEF FileInv, ChainInv
      <4>2. versions'[k] = versions[k] /\ versions'[k - 1] = versions[k - 1]
            /\ file'.lines[k] = file.lines[k]
        BY <1>1, <1>4, <1>5, <3>2
      <4> QED
        BY <4>1, <4>2 DEF Replayable
    <3> QED
      BY <1>1, <1>4, <3>1, <3>2
  <2> QED
    BY <2>1, <2>2, <2>3 DEF ChainInv
<1>9. AckedInv'
  <2> SUFFICES ASSUME NEW m \in acked'
               PROVE  \E k \in 2..Len(versions') : file'.lines[k] = m
    BY DEF AckedInv
  <2>1. CASE m = inflight
    BY <1>1, <1>4, <1>5, <2>1
  <2>2. CASE m \in acked
    <3>1. PICK k \in 2..n : file.lines[k] = m
      BY <2>2 DEF FileInv, AckedInv
    <3> QED
      BY <1>1, <1>4, <1>5, <3>1
  <2> QED
    BY <2>1, <2>2
<1>10. ShapeInv'
  BY <1>6 DEF ShapeInv, Clean
<1> QED
  BY <1>3, <1>4, <1>6, <1>7, <1>8, <1>9, <1>10 DEF FileInv

(* A torn line behind a clean file.                                        *)
LEMMA TornLine ==
  ASSUME TypeOK, FileInv, Clean,
         file' = [lines |-> Append(file.lines, Garbage), terminated |-> FALSE],
         UNCHANGED <<versions, refused, acked>>
  PROVE  FileInv'
<1>1. versions \in Seq(State) /\ file.lines \in Seq(Line) /\ Garbage \in Line /\ Len(versions) \in Nat
  BY DEF TypeOK, Content, Line
<1>2. /\ Len(file'.lines) = Len(versions) + 1 /\ file'.lines[Len(versions) + 1] = Garbage
      /\ \A k \in 1..Len(versions) : file'.lines[k] = file.lines[k]
  BY <1>1, AppendSeq DEF Clean
<1>3. HasHeader' /\ Torn'
  BY <1>1, <1>2 DEF HasHeader, Torn, Clean
<1>4. ChainInv'
  BY <1>1, <1>2 DEF FileInv, ChainInv, Replayable
<1>5. AckedInv'
  BY <1>1, <1>2 DEF FileInv, AckedInv
<1> QED
  BY <1>3, <1>4, <1>5 DEF FileInv, ShapeInv

(* The append of the head of the chain, up to any byte.                    *)
LEMMA AppendAnyBytes ==
  ASSUME JsonlInv, phase = "appending", NEW chunk \in Chunks,
         file' = Written(file, inflight, chunk), Record(inflight, chunk),
         UNCHANGED refused,
         acked' \subseteq acked \cup (IF chunk = "line" THEN {inflight} ELSE {}),
         acked' # acked => chunk = "line"
  PROVE  /\ FileInv'
         /\ file' \in Content /\ versions' \in Seq(State) /\ versions' # <<>>
         /\ inflight \in Mutation
         /\ chunk = "line" => /\ Clean' /\ file'.terminated
                              /\ Durable' = Apply(Durable, inflight)
                              /\ Apply(Durable, inflight) \in State
<1>1. /\ Head(queue) \in Commands /\ Accepts(live, Head(queue))
      /\ inflight = MutationOf(live, Head(queue))
      /\ live = Durable /\ Clean /\ file.terminated /\ live \in State
      /\ file \in Content /\ versions \in Seq(State) /\ versions # <<>>
      /\ TypeOK /\ FileInv
  BY DEF JsonlInv, PhaseInv, AppendInv, UseInv, TypeOK
<1>2. inflight \in Mutation /\ inflight \in Line
  BY <1>1, MutationOfType DEF Line
<1>3. CASE chunk = "nothing"
  <2>1. file' = file /\ versions' = versions /\ acked' = acked
    BY <1>1, <1>2, <1>3, WrittenCases DEF Record
  <2> QED
    BY <1>1, <1>2, <1>3, <2>1 DEF FileInv, ChainInv, ShapeInv, AckedInv, HasHeader, Torn, Replayable
<1>4. CASE chunk = "part"
  <2>1. versions' = versions /\ acked' = acked
        /\ file' = [lines |-> Append(file.lines, Garbage), terminated |-> FALSE]
        /\ file' \in Content
    BY <1>1, <1>2, <1>4, WrittenCases DEF Record
  <2> QED
    BY <1>1, <1>2, <1>4, <2>1, TornLine
<1>5. CASE chunk \in {"unterminated", "line"}
  <2>1. versions' = Append(versions, Apply(Durable, inflight))
        /\ file'.lines = Append(file.lines, inflight)
        /\ file' \in Content /\ (chunk = "line" => file'.terminated)
    BY <1>1, <1>2, <1>5, WrittenCases DEF Record
  <2>2. acked' \subseteq acked \cup {inflight}
    OBVIOUS
  <2>3. FileInv' /\ Clean' /\ Durable' = Apply(Durable, inflight)
        /\ versions' \in Seq(State) /\ Apply(Durable, inflight) \in State
    BY <1>1, <2>1, <2>2, AppendedLine
  <2>4. versions' # <<>>
    BY <1>1, <2>1
  <2> QED
    BY <1>2, <2>1, <2>3, <2>4
<1> QED
  BY <1>3, <1>4, <1>5 DEF Chunks

-----------------------------------------------------------------------------
(* One step of the storage.                                                *)

(* The file is untouched.                                                  *)
LEMMA FileFrame ==
  ASSUME FileInv, UNCHANGED <<file, versions, acked, refused>>
  PROVE  FileInv'
  BY DEF FileInv, ChainInv, ShapeInv, AckedInv, HasHeader, Torn, Replayable

LEMMA InitJsonl == Init => JsonlInv
<1> SUFFICES ASSUME Init PROVE JsonlInv
  OBVIOUS
<1>1. EmptyState \in State /\ Sound(EmptyState)
  BY EmptyStateType
<1>2. TypeOK
  <2>1. versions \in Seq(State) /\ versions # <<>>
    BY <1>1 DEF Init
  <2>2. queue \in Seq(Commands)
    BY DEF Init
  <2>4. acked \in SUBSET Mutation
    BY DEF Init
  <2>5. refused \in BOOLEAN
    BY Zenon DEF Init
  <2>3. crashes \in 0..MaxCrashes /\ failures \in 0..MaxFailures /\ cursor \in Nat
    BY DEF Init
  <2> QED
    BY <1>1, <2>1, <2>2, <2>3, <2>4, <2>5, NoFileType, Zenon DEF Init, TypeOK, Phases
<1>3. ChainInv
  BY <1>1 DEF Init, ChainInv
<1>4. ShapeInv
  BY DEF Init, ShapeInv
<1>5. AckedInv /\ ~refused /\ PhaseInv
  BY DEF Init, AckedInv, PhaseInv, UseInv, AppendInv, ReplayInv, RepairInv, EndInv, CreateInv
<1> QED
  BY <1>2, <1>3, <1>4, <1>5 DEF JsonlInv, FileInv

LEMMA DurableType ==
  ASSUME TypeOK
  PROVE  /\ Len(versions) \in Nat /\ Len(versions) >= 1
         /\ Durable = versions[Len(versions)] /\ Durable \in State
         /\ \A k \in 1..Len(versions) : versions[k] \in State
         /\ Len(file.lines) \in Nat /\ file.lines \in Seq(Line)
  BY DEF TypeOK, Durable, LastOf, Content

(* Header lines, behind which a file without operations begins.            *)
LEMMA HeaderWritten ==
  ASSUME JsonlInv, phase = "creating", NEW chunk \in Chunks,
         file' = Written(NoFile, Header, chunk), UNCHANGED <<versions, acked, refused>>
  PROVE  /\ FileInv' /\ file' \in Content
         /\ chunk = "line" => Clean' /\ file'.terminated /\ Durable = EmptyState
<1>1. NoFile \in Content /\ NoFile.terminated /\ Header \in Line /\ NoFile.lines = <<>>
  BY NoFileType
<1>2. Len(versions) = 1 /\ file = NoFile
  <2>1. file = NoFile /\ file.lines = <<>>
    BY <1>1 DEF JsonlInv, PhaseInv, CreateInv
  <2>2. ~HasHeader
    BY <2>1 DEF HasHeader
  <2> QED
    BY <2>1, <2>2 DEF JsonlInv, FileInv, ShapeInv
<1>3. acked = {}
  BY <1>2 DEF JsonlInv, FileInv, AckedInv
<1>4. ChainInv'
  BY <1>2 DEF JsonlInv, FileInv, ChainInv
<1>5. AckedInv' /\ ~refused'
  BY <1>3 DEF AckedInv, JsonlInv, FileInv
<1>6. Durable = EmptyState
  BY <1>2 DEF JsonlInv, FileInv, ChainInv, Durable, LastOf
<1>7. CASE chunk = "nothing"
  BY <1>1, <1>2, <1>4, <1>5, <1>7, WrittenCases DEF FileInv, ShapeInv
<1>8. CASE chunk = "part"
  <2>0. Append(NoFile.lines, Garbage) = <<Garbage>>
    BY <1>1, AppendEmpty
  <2>1. file' \in Content /\ file' = [lines |-> Append(NoFile.lines, Garbage), terminated |-> FALSE]
    BY <1>1, <1>8, WrittenCases
  <2>3. file'.lines = <<Garbage>> /\ ~file'.terminated
    BY <2>0, <2>1
  <2>2. ShapeInv'
    BY <1>2, <2>3 DEF ShapeInv
  <2> QED
    BY <1>4, <1>5, <1>8, <2>1, <2>2 DEF FileInv
<1>9. CASE chunk \in {"unterminated", "line"}
  <2>1. file'.lines = <<Header>> /\ file' \in Content /\ (chunk = "line" => file'.terminated)
    BY <1>1, <1>9, WrittenCases, AppendEmpty
  <2>2. HasHeader' /\ Clean'
    BY <1>2, <2>1 DEF HasHeader, Clean
  <2>3. ShapeInv'
    BY <2>2 DEF ShapeInv, Clean
  <2> QED
    BY <1>4, <1>5, <1>6, <2>1, <2>2, <2>3 DEF FileInv
<1> QED
  BY <1>7, <1>8, <1>9 DEF Chunks

(* The line load is at: a mutation of the chain, or the torn tail.         *)
LEMMA AtLineCases ==
  ASSUME JsonlInv, AtLine
  PROVE  \/ /\ cursor \in 2..Len(versions) /\ Current \in Mutation /\ Current # Garbage
            /\ live = versions[cursor - 1] /\ Valid(live, Current)
            /\ Apply(live, Current) = versions[cursor]
         \/ /\ cursor = Len(versions) + 1 /\ Torn /\ Current = Garbage
            /\ cursor = Len(file.lines) /\ live = Durable
<1>1. /\ Len(versions) \in Nat /\ Len(file.lines) \in Nat /\ cursor \in 2..(Len(versions) + 1)
      /\ live = versions[cursor - 1] /\ cursor <= Len(file.lines) /\ HasHeader
  BY DurableType DEF JsonlInv, PhaseInv, ReplayInv, AtLine
<1>2. CASE cursor \in 2..Len(versions)
  <2>1. Replayable(cursor)
    BY <1>2 DEF JsonlInv, FileInv, ChainInv
  <2> QED
    BY <1>1, <1>2, <2>1, TextIsNoMutation DEF Replayable, Current
<1>3. CASE cursor = Len(versions) + 1
  <2>1. HasHeader /\ Torn
    <3>1. ~(file = NoFile \/ (file.lines = <<Garbage>> /\ ~file.terminated))
      BY <1>1, TextIsNoMutation DEF HasHeader, NoFile
    <3> QED
      BY <1>1, <1>3, <3>1 DEF JsonlInv, FileInv, ShapeInv
  <2> QED
    BY <1>1, <1>3, <2>1 DEF Torn, Current, Durable, LastOf
<1> QED
  BY <1>1, <1>2, <1>3

LEMMA JsonlStep == JsonlInv /\ [CrashNext]_vars => JsonlInv'
<1> SUFFICES ASSUME JsonlInv, [CrashNext]_vars PROVE JsonlInv'
  OBVIOUS
<1> USE DEF memory, counters
<1>0. TypeOK /\ FileInv /\ PhaseInv
  BY DEF JsonlInv
<1>1. CASE Create
  <2>1. TypeOK'
    BY <1>0, <1>1, EmptyStateType DEF Create, TypeOK, Phases
  <2>2. FileInv'
    BY <1>0, <1>1, FileFrame DEF Create
  <2>3. file = NoFile
    BY <1>0, <1>1 DEF Create, FileInv, ShapeInv, HasHeader
  <2>4. PhaseInv'
    BY <1>1, <2>3 DEF Create, PhaseInv, UseInv, AppendInv, ReplayInv, RepairInv, EndInv, CreateInv
  <2> QED
    BY <2>1, <2>2, <2>4 DEF JsonlInv
<1>2. CASE CreateDone
  <2>1. FileInv' /\ file' \in Content /\ Clean' /\ file'.terminated /\ Durable = EmptyState
    BY <1>2, HeaderWritten DEF CreateDone, Chunks
  <2>2. TypeOK'
    BY <1>0, <1>2, <2>1 DEF CreateDone, TypeOK, Phases
  <2>3. live' = Durable'
    BY <1>0, <1>2, <2>1 DEF CreateDone, PhaseInv, CreateInv, Durable
  <2>4. PhaseInv'
    BY <1>2, <2>1, <2>3 DEF CreateDone, PhaseInv, UseInv, AppendInv, ReplayInv, RepairInv, EndInv, CreateInv
  <2> QED
    BY <2>1, <2>2, <2>4 DEF JsonlInv
<1>3. ASSUME NEW r \in Commands, Enqueue(r) PROVE JsonlInv'
  <2>1. queue \in Seq(Commands) /\ queue' = Append(queue, r)
        /\ UNCHANGED <<file, tmp, phase, cursor, live, inflight, acked, versions, refused, crashes, failures>>
    BY <1>0, <1>3 DEF Enqueue, TypeOK
  <2>2. queue' \in Seq(Commands) /\ (queue # <<>> => queue' # <<>> /\ Head(queue') = Head(queue))
    BY <2>1
  <2>3. TypeOK'
    BY <1>0, <2>1, <2>2 DEF TypeOK
  <2>4. FileInv'
    BY <1>0, <2>1, FileFrame
  <2>5. PhaseInv'
    BY <1>0, <2>1, <2>2 DEF PhaseInv, UseInv, AppendInv, ReplayInv, RepairInv, EndInv,
       CreateInv, Clean, HasHeader, Torn, Durable, ValidPrefix
  <2> QED
    BY <2>3, <2>4, <2>5 DEF JsonlInv
<1>4. CASE Reject
  <2>1. queue \in Seq(Commands) /\ queue # <<>> /\ queue' = Tail(queue) /\ phase = "ready"
        /\ UNCHANGED <<file, tmp, phase, cursor, live, inflight, acked, versions, refused, crashes, failures>>
    BY <1>0, <1>4 DEF Reject, TypeOK
  <2>2. TypeOK'
    BY <1>0, <2>1 DEF TypeOK
  <2>3. FileInv'
    BY <1>0, <2>1, FileFrame
  <2>4. PhaseInv'
    BY <1>0, <2>1 DEF PhaseInv, UseInv, AppendInv, ReplayInv, RepairInv, EndInv, CreateInv,
       Clean, HasHeader, Durable
  <2> QED
    BY <2>2, <2>3, <2>4 DEF JsonlInv
<1>5. CASE BeginAppend
  <2>1. /\ queue \in Seq(Commands) /\ queue # <<>> /\ phase = "ready" /\ phase' = "appending"
        /\ Accepts(live, Head(queue)) /\ live.sequence < MaxSequence
        /\ inflight' = MutationOf(live, Head(queue)) /\ live \in State
        /\ UNCHANGED <<file, tmp, cursor, live, queue, acked, versions, refused, crashes, failures>>
    BY <1>0, <1>5 DEF BeginAppend, TypeOK
  <2>2. inflight' \in Mutation
    BY <2>1, MutationOfType
  <2>3. TypeOK'
    BY <1>0, <2>1, <2>2 DEF TypeOK, Phases
  <2>4. FileInv'
    BY <1>0, <2>1, FileFrame
  <2>5. PhaseInv'
    BY <1>0, <2>1 DEF PhaseInv, UseInv, AppendInv, ReplayInv, RepairInv, EndInv, CreateInv,
       Clean, HasHeader, Durable
  <2> QED
    BY <2>3, <2>4, <2>5 DEF JsonlInv
<1>6. CASE AppendDone
  <2>1. /\ FileInv' /\ file' \in Content /\ versions' \in Seq(State) /\ versions' # <<>>
        /\ inflight \in Mutation /\ Clean' /\ file'.terminated
        /\ Durable' = Apply(Durable, inflight) /\ Apply(Durable, inflight) \in State
    BY <1>6, AppendAnyBytes DEF AppendDone, Chunks
  <2>2. live = Durable /\ queue # <<>>
    BY <1>0, <1>6 DEF AppendDone, PhaseInv, UseInv, AppendInv
  <2>3. live' = Durable' /\ live' \in State
    BY <1>6, <2>1, <2>2 DEF AppendDone
  <2>4. TypeOK'
    BY <1>0, <1>6, <2>1, <2>2, <2>3 DEF AppendDone, TypeOK, Phases
  <2>5. PhaseInv'
    BY <1>6, <2>1, <2>3 DEF AppendDone, PhaseInv, UseInv, AppendInv, ReplayInv, RepairInv, EndInv, CreateInv
  <2> QED
    BY <2>1, <2>4, <2>5 DEF JsonlInv
<1>7. CASE BeginLoad
  <2>1. TypeOK'
    BY <1>0, <1>7, EmptyStateType DEF BeginLoad, TypeOK, Phases
  <2>2. FileInv'
    BY <1>0, <1>7, FileFrame DEF BeginLoad
  <2>3. HasHeader
    BY <1>0, <1>7, DurableType DEF BeginLoad, HasHeader
  <2>4. live' = versions[1] /\ Len(versions) \in Nat /\ Len(versions) >= 1
    BY <1>0, <1>7, DurableType DEF BeginLoad, FileInv, ChainInv
  <2>5. PhaseInv'
    BY <1>7, <2>3, <2>4 DEF BeginLoad, HasHeader, PhaseInv, UseInv, AppendInv, ReplayInv, RepairInv, EndInv, CreateInv
  <2> QED
    BY <2>1, <2>2, <2>5 DEF JsonlInv
<1>8. CASE ReplayLine
  <2>1. /\ cursor \in 2..Len(versions) /\ live' = versions[cursor] /\ cursor' = cursor + 1
        /\ phase = "replaying" /\ HasHeader /\ Len(versions) \in Nat
        /\ UNCHANGED <<file, tmp, phase, queue, inflight, acked, versions, refused, crashes, failures>>
    BY <1>0, <1>8, AtLineCases, DurableType DEF ReplayLine, AtLine, PhaseInv, ReplayInv
  <2>2. live' \in State
    BY <1>0, <2>1, DurableType
  <2>3. TypeOK'
    BY <1>0, <2>1, <2>2 DEF TypeOK
  <2>4. FileInv'
    BY <1>0, <2>1, FileFrame
  <2>5. PhaseInv'
    BY <2>1 DEF HasHeader, PhaseInv, UseInv, AppendInv, ReplayInv, RepairInv, EndInv, CreateInv
  <2> QED
    BY <2>3, <2>4, <2>5 DEF JsonlInv
<1>9. CASE ReplayTornTail
  <2>1. /\ Torn /\ live = Durable /\ HasHeader /\ phase' = "staging"
        /\ UNCHANGED <<file, tmp, cursor, live, queue, inflight, acked, versions, refused, crashes, failures>>
    BY <1>0, <1>9, AtLineCases DEF ReplayTornTail, AtLine, PhaseInv, ReplayInv
  <2>2. TypeOK'
    BY <1>0, <2>1 DEF TypeOK, Phases
  <2>3. FileInv'
    BY <1>0, <2>1, FileFrame
  <2>4. PhaseInv'
    BY <2>1 DEF HasHeader, Torn, Durable, PhaseInv, UseInv, AppendInv, ReplayInv, RepairInv, EndInv, CreateInv
  <2> QED
    BY <2>2, <2>3, <2>4 DEF JsonlInv
<1>10. CASE ReplayRefuses
  BY <1>0, <1>10, AtLineCases, DurableType DEF ReplayRefuses
<1>11. CASE ReplayEnd
  <2>1. /\ phase = "replaying" /\ cursor > Len(file.lines) /\ HasHeader
        /\ cursor \in 2..(Len(versions) + 1) /\ live = versions[cursor - 1]
        /\ Len(versions) \in Nat /\ Len(file.lines) \in Nat
        /\ phase' = (IF file.terminated THEN "ready" ELSE "terminating")
        /\ UNCHANGED <<file, tmp, cursor, live, queue, inflight, acked, versions, refused, crashes, failures>>
    BY <1>0, <1>11, DurableType DEF ReplayEnd, PhaseInv, ReplayInv
  <2>2. Len(file.lines) >= Len(versions)
    <3>1. file # NoFile
      BY <2>1, NoFileType DEF HasHeader
    <3>2. file.lines = <<Garbage>> => Len(file.lines) = 1
      OBVIOUS
    <3> QED
      BY <1>0, <2>1, <3>1, <3>2 DEF FileInv, ShapeInv, Torn
  <2>3. Clean /\ cursor = Len(versions) + 1 /\ live = Durable
    BY <1>0, <2>1, <2>2, DurableType DEF Clean
  <2>4. TypeOK'
    BY <1>0, <2>1 DEF TypeOK, Phases
  <2>5. FileInv'
    BY <1>0, <2>1, FileFrame
  <2>6. PhaseInv'
    BY <1>0, <2>1, <2>3 DEF Clean, HasHeader, Durable, PhaseInv, UseInv, AppendInv, ReplayInv, RepairInv, EndInv, CreateInv
  <2> QED
    BY <2>4, <2>5, <2>6 DEF JsonlInv
<1>12. CASE Terminate
  <2>1. /\ phase = "terminating" /\ Clean /\ live = Durable /\ file \in Content /\ phase' = "ready"
        /\ file' = [file EXCEPT !.terminated = TRUE]
        /\ UNCHANGED <<tmp, cursor, live, queue, inflight, acked, versions, refused, crashes, failures>>
    BY <1>0, <1>12 DEF Terminate, PhaseInv, EndInv, TypeOK
  <2>2. file'.lines = file.lines /\ file'.terminated /\ file' \in Content
    BY <2>1 DEF Content
  <2>3. TypeOK'
    BY <1>0, <2>1, <2>2 DEF TypeOK, Phases
  <2>4. Clean' /\ Durable' = Durable
    BY <2>1, <2>2 DEF Clean, HasHeader, Durable
  <2>5. FileInv'
    BY <1>0, <2>1, <2>2, <2>4 DEF FileInv, ChainInv, Replayable, AckedInv, ShapeInv, Clean
  <2>6. PhaseInv'
    BY <2>1, <2>2, <2>4 DEF PhaseInv, UseInv, AppendInv, ReplayInv, RepairInv, EndInv, CreateInv
  <2> QED
    BY <2>3, <2>5, <2>6 DEF JsonlInv
<1>13. CASE Stage
  <2>1. /\ phase = "staging" /\ Torn /\ HasHeader /\ live = Durable /\ phase' = "publishing"
        /\ tmp' = ValidPrefix
        /\ UNCHANGED <<file, cursor, live, queue, inflight, acked, versions, refused, crashes, failures>>
    BY <1>0, <1>13 DEF Stage, PhaseInv, RepairInv
  <2>2. ValidPrefix \in Content
    BY <1>0, <2>1, DurableType DEF ValidPrefix, Content, Torn
  <2>3. TypeOK'
    BY <1>0, <2>1, <2>2 DEF TypeOK, Phases
  <2>4. FileInv'
    BY <1>0, <2>1, FileFrame
  <2>5. PhaseInv'
    BY <2>1 DEF HasHeader, Torn, Durable, ValidPrefix, PhaseInv, UseInv, AppendInv, ReplayInv, RepairInv, EndInv, CreateInv
  <2> QED
    BY <2>3, <2>4, <2>5 DEF JsonlInv
<1>14. CASE Publish
  <2>1. /\ phase = "publishing" /\ Torn /\ HasHeader /\ live = Durable /\ phase' = "ready"
        /\ file' = ValidPrefix /\ tmp' = NoFile
        /\ UNCHANGED <<cursor, live, queue, inflight, acked, versions, refused, crashes, failures>>
    BY <1>0, <1>14 DEF Publish, PhaseInv, RepairInv
  <2>2. /\ Len(versions) \in Nat /\ Len(versions) >= 1 /\ file.lines \in Seq(Line)
        /\ Len(file.lines) = Len(versions) + 1
    BY <1>0, <2>1, DurableType DEF Torn
  <2>3. /\ file' \in Content /\ file'.terminated /\ Len(file'.lines) = Len(versions)
        /\ \A k \in 1..Len(versions) : file'.lines[k] = file.lines[k]
    BY <2>1, <2>2 DEF ValidPrefix, Content
  <2>4. TypeOK'
    BY <1>0, <2>1, <2>3 DEF TypeOK, Phases, NoFile, Content
  <2>5. Clean' /\ Durable' = Durable
    BY <2>1, <2>2, <2>3 DEF Clean, HasHeader, Durable
  <2>6. ChainInv'
    <3>1. versions' = versions /\ ChainInv
      BY <1>0, <2>1 DEF FileInv
    <3>2. \A k \in 2..Len(versions) : file'.lines[k] = file.lines[k]
      BY <2>2, <2>3
    <3> QED
      BY <3>1, <3>2 DEF ChainInv, Replayable
  <2>7. AckedInv' /\ ShapeInv' /\ ~refused'
    BY <1>0, <2>1, <2>2, <2>3, <2>5 DEF FileInv, AckedInv, ShapeInv, Clean
  <2>8. PhaseInv'
    BY <2>1, <2>3, <2>5 DEF PhaseInv, UseInv, AppendInv, ReplayInv, RepairInv, EndInv, CreateInv
  <2> QED
    BY <2>4, <2>6, <2>7, <2>8 DEF JsonlInv, FileInv
<1>15. CASE Crash
  <2>1. /\ phase' = "down" /\ live' = EmptyState /\ queue' = <<>> /\ inflight' = NoMutation
        /\ crashes' = crashes + 1 /\ crashes < MaxCrashes /\ CrashFile
        /\ UNCHANGED <<cursor, acked, refused, failures>>
    BY <1>15 DEF Crash
  <2>2. PhaseInv'
    BY <2>1 DEF PhaseInv, UseInv, AppendInv, ReplayInv, RepairInv, EndInv, CreateInv
  <2>3. SUFFICES FileInv' /\ file' \in Content /\ tmp' \in Content
                 /\ versions' \in Seq(State) /\ versions' # <<>>
    BY <1>0, <2>1, <2>2, EmptyStateType DEF JsonlInv, TypeOK, Phases
  <2>4. CASE phase = "creating"
    BY <1>0, <2>1, <2>4, HeaderWritten DEF CrashFile, TypeOK
  <2>5. CASE phase = "appending"
    BY <1>0, <2>1, <2>5, AppendAnyBytes DEF CrashFile, TypeOK
  <2>6. CASE phase = "staging"
    <3>1. ValidPrefix \in Content
      BY <1>0, <2>6, DurableType DEF ValidPrefix, Content, Torn, PhaseInv, RepairInv
    <3>2. Written(NoFile, Header, "part") \in Content
      BY NoFileType, WrittenCases DEF Chunks
    <3>3. UNCHANGED <<file, versions>> /\ tmp' \in Content
      BY <1>0, <2>1, <2>6, <3>1, <3>2 DEF CrashFile, TypeOK
    <3> QED
      BY <1>0, <2>1, <3>3, FileFrame DEF TypeOK
  <2>7. CASE phase = "terminating"
    <3>1. /\ file \in Content /\ file' \in {file, [file EXCEPT !.terminated = TRUE]}
          /\ UNCHANGED <<tmp, versions, acked, refused>> /\ Clean
      BY <1>0, <2>1, <2>7 DEF CrashFile, TypeOK, PhaseInv, EndInv
    <3>2. file'.lines = file.lines /\ file' \in Content
      BY <3>1 DEF Content
    <3>3. Clean'
      BY <3>1, <3>2 DEF Clean, HasHeader
    <3>4. FileInv'
      BY <1>0, <3>1, <3>2, <3>3 DEF FileInv, ChainInv, Replayable, AckedInv, ShapeInv, Clean
    <3> QED
      BY <1>0, <3>1, <3>2, <3>4 DEF TypeOK
  <2>8. CASE phase \in {"replaying", "publishing", "ready"}
    <3>1. UNCHANGED <<file, tmp, versions>>
      BY <2>1, <2>8 DEF CrashFile
    <3> QED
      BY <1>0, <2>1, <3>1, FileFrame DEF TypeOK
  <2> QED
    BY <2>1, <2>4, <2>5, <2>6, <2>7, <2>8 DEF CrashFile
<1>16. CASE UNCHANGED vars
  BY <1>0, <1>16, FileFrame DEF vars, JsonlInv, TypeOK, PhaseInv, UseInv, AppendInv, ReplayInv,
     RepairInv, EndInv, CreateInv, Clean, HasHeader, Torn, Durable, ValidPrefix
<1> QED
  BY <1>1, <1>2, <1>3, <1>4, <1>5, <1>6, <1>7, <1>8, <1>9, <1>10, <1>11, <1>12,
     <1>13, <1>14, <1>15, <1>16 DEF CrashNext, Operate, Load

-----------------------------------------------------------------------------
(* Theorems.                                                               *)

(* The file, the versions it stood for and the storage in memory keep in   *)
(* step through any number of operations, crashes, loads and repairs.      *)
THEOREM JsonlInvariant == CrashSpec => []JsonlInv
  BY InitJsonl, JsonlStep, PTL DEF CrashSpec

(* The state of the storage and of its files keeps its type.               *)
THEOREM JsonlTypeCorrect == CrashSpec => []TypeOK
<1>1. JsonlInv => TypeOK
  BY DEF JsonlInv
<1> QED
  BY <1>1, JsonlInvariant, PTL

(* An operation that JsonlSessionStorage acknowledged is a line of the     *)
(* file for ever, wherever the process dies and whatever load repairs.     *)
THEOREM AckedSurviveAlways == CrashSpec => []AckedSurvive
<1>1. JsonlInv => AckedSurvive
  <2> SUFFICES ASSUME JsonlInv, NEW m \in acked PROVE m \in Lines(file)
    BY DEF AckedSurvive
  <2>1. PICK k \in 2..Len(versions) : file.lines[k] = m
    BY DEF JsonlInv, FileInv, AckedInv
  <2>2. Len(versions) \in Nat /\ Len(file.lines) \in Nat /\ file.lines \in Seq(Line)
    BY DurableType DEF JsonlInv
  <2>3. ASSUME NEW n \in Nat, k \in 2..n PROVE n # 1
    BY <2>3
  <2>5. Len(versions) # 1
    BY <2>2, <2>3
  <2>4. Len(file.lines) = Len(versions) \/ Len(file.lines) = Len(versions) + 1
    BY <2>5, Zenon DEF JsonlInv, FileInv, ShapeInv, Torn
  <2> QED
    BY <2>1, <2>2, <2>4 DEF Lines
<1> QED
  BY <1>1, JsonlInvariant, PTL

(* Deaths of the process never leave a file whose mutations load refuses.  *)
THEOREM LoadNeverRefusesAlways == CrashSpec => []LoadNeverRefuses
<1>1. JsonlInv => LoadNeverRefuses
  BY DEF JsonlInv, FileInv, LoadNeverRefuses
<1> QED
  BY <1>1, JsonlInvariant, PTL

(* At any moment the lines of the file replay to the state it stands for,   *)
(* with one torn line at most behind them (load and the repairs of its      *)
(* tail, through any number of crashes).                                   *)
THEOREM FileAlwaysReadable == CrashSpec => []FileReadable
<1>1. JsonlInv => FileReadable
  <2> SUFFICES ASSUME JsonlInv PROVE FileReadable
    OBVIOUS
  <2>1. /\ file.lines \in Seq(Line) /\ Len(file.lines) \in Nat
        /\ DOMAIN file.lines = 1..Len(file.lines)
        /\ Len(versions) \in Nat /\ Len(versions) >= 1
    BY DEF JsonlInv, TypeOK, Content
  <2>2. Len(versions) = 1 \/ Len(file.lines) = Len(versions) \/ Torn
    BY DEF JsonlInv, FileInv, ShapeInv
  <2>3. ASSUME NEW k \in 2..Len(versions)
        PROVE  k \in DOMAIN file.lines /\ Replayable(k)
    BY <2>1, <2>2, <2>3 DEF JsonlInv, FileInv, ChainInv, ShapeInv, Torn
  <2>4. ASSUME NEW k \in DOMAIN file.lines, k > Len(versions)
        PROVE  file.lines[k] = Garbage /\ k = Len(file.lines)
    <3>1. CASE Torn
      BY <2>1, <2>4, <3>1 DEF Torn
    <3>2. CASE ~Torn
      <4>1. CASE file = NoFile
        BY <2>1, <2>4, <4>1 DEF NoFile
      <4>2. CASE file.lines = <<Garbage>>
        <5>1. Len(file.lines) = 1
          BY <4>2
        <5> QED
          BY <2>1, <2>4, <5>1
      <4>3. CASE Len(file.lines) = Len(versions)
        BY <2>1, <2>4, <4>3
      <4> QED
        BY <3>2, <4>1, <4>2, <4>3 DEF JsonlInv, FileInv, ShapeInv
    <3> QED
      BY <3>1, <3>2
  <2>5. versions[1] = EmptyState /\ LoadNeverRefuses
    BY DEF JsonlInv, FileInv, ChainInv, LoadNeverRefuses
  <2> QED
    BY <2>3, <2>4, <2>5 DEF FileReadable, DurableIsReplay, Replayable
<1> QED
  BY <1>1, JsonlInvariant, PTL

(* A storage in use holds the state its file stands for, and its next      *)
(* append begins on a line of its own.                                     *)
THEOREM LiveIsDurableAlways == CrashSpec => []LiveIsDurable
<1>1. JsonlInv => LiveIsDurable
  <2> SUFFICES ASSUME JsonlInv, phase \in {"ready", "appending"}
               PROVE  live = Durable /\ file.terminated /\ Garbage \notin Lines(file)
    BY DEF LiveIsDurable
  <2>1. live = Durable /\ file.terminated /\ Clean
    BY DEF JsonlInv, PhaseInv, UseInv
  <2>2. /\ Len(versions) \in Nat /\ Len(file.lines) = Len(versions) /\ file.lines \in Seq(Line)
        /\ file.lines[1] = Header
    BY <2>1, DurableType DEF JsonlInv, Clean, HasHeader
  <2>3. ASSUME NEW k \in 1..Len(file.lines) PROVE file.lines[k] # Garbage
    <3>1. CASE k = 1
      BY <2>2, <3>1, TextIsNoMutation
    <3>2. CASE k \in 2..Len(versions)
      BY <3>2, TextIsNoMutation DEF JsonlInv, FileInv, ChainInv, Replayable
    <3> QED
      BY <2>2, <3>1, <3>2
  <2> QED
    BY <2>1, <2>2, <2>3 DEF Lines
<1> QED
  BY <1>1, JsonlInvariant, PTL

(* The abstract storage is built from the same operators.                  *)
LEMMA SameEmptyState == StoreView!EmptyState = EmptyState
  BY DEF StoreView!EmptyState, EmptyState

LEMMA SameRequests ==
  /\ StoreView!AppendEntryRequests = AppendEntryRequests
  /\ StoreView!AppendRecordRequests = AppendRecordRequests
  /\ StoreView!LaneRequests = LaneRequests
  /\ StoreView!NameRequests = NameRequests
  /\ StoreView!LabelRequests = LabelRequests
  BY Zenon DEF StoreView!AppendEntryRequests, StoreView!AppendRecordRequests, StoreView!LaneRequests,
     StoreView!NameRequests, StoreView!LabelRequests, AppendEntryRequests, AppendRecordRequests,
     LaneRequests, NameRequests, LabelRequests, StoreView!EntryTypes, StoreView!Marks,
     EntryTypes, Marks

LEMMA SameAccepts ==
  ASSUME NEW s, NEW r
  PROVE  StoreView!Accepts(s, r) <=> Accepts(s, r)
  BY Zenon DEF StoreView!Accepts, StoreView!AcceptsRecord, StoreView!AcceptsLane, StoreView!ValidTarget,
     StoreView!Entries, Accepts, AcceptsRecord, AcceptsLane, ValidTarget, Entries

LEMMA SameMutationOf ==
  ASSUME NEW s, NEW r
  PROVE  StoreView!MutationOf(s, r) = MutationOf(s, r)
  BY Zenon DEF StoreView!MutationOf, StoreView!KindOf, MutationOf, KindOf

LEMMA SameApply ==
  ASSUME NEW s, NEW m
  PROVE  StoreView!Apply(s, m) = Apply(s, m)
<1>1. StoreView!ApplyEntry(s, m) = ApplyEntry(s, m)
  BY Zenon DEF StoreView!ApplyEntry, ApplyEntry
<1>2. StoreView!ApplyRecord(s, m) = ApplyRecord(s, m)
  BY Zenon DEF StoreView!ApplyRecord, ApplyRecord, StoreView!OpenAfter, OpenAfter
<1>3. StoreView!ApplyLane(s, m) = ApplyLane(s, m)
  BY Zenon DEF StoreView!ApplyLane, ApplyLane
<1>4. StoreView!ApplyName(s, m) = ApplyName(s, m)
  BY Zenon DEF StoreView!ApplyName, ApplyName
<1>5. StoreView!ApplyLabel(s, m) = ApplyLabel(s, m)
  BY Zenon DEF StoreView!ApplyLabel, ApplyLabel
<1> QED
  BY <1>1, <1>2, <1>3, <1>4, <1>5, Zenon DEF StoreView!Apply, Apply

(* A line that is complete is one operation of the abstract storage; what  *)
(* is less than a line is none.                                            *)
LEMMA AppendIsOperation ==
  ASSUME JsonlInv, phase = "appending", NEW chunk \in Chunks,
         Record(inflight, chunk)
  PROVE  [StoreView!StoreNext]_Durable
<1>1. /\ Head(queue) \in Requests /\ Accepts(live, Head(queue))
      /\ inflight = MutationOf(live, Head(queue)) /\ live.sequence < MaxSequence
      /\ live = Durable /\ TypeOK /\ file.terminated
  BY DEF JsonlInv, PhaseInv, AppendInv, UseInv, TypeOK
<1>2. CASE versions' = versions
  BY <1>2 DEF Durable
<1>3. CASE versions' = Append(versions, Apply(Durable, inflight))
  <2>1. Durable' = Apply(Durable, MutationOf(Durable, Head(queue)))
    BY <1>1, <1>3 DEF Durable, LastOf, TypeOK
  <2>2. ASSUME NEW R, Head(queue) \in R PROVE StoreView!Perform(R)
    <3>1. Durable' = StoreView!Apply(Durable, StoreView!MutationOf(Durable, Head(queue)))
      BY <2>1, SameMutationOf, SameApply, Zenon
    <3>2. StoreView!Accepts(Durable, Head(queue)) /\ Durable.sequence < MaxSequence
      BY <1>1, SameAccepts, Zenon
    <3> QED
      BY <2>2, <3>1, <3>2, Zenon DEF StoreView!Perform
  <2>3. CASE Head(queue) \in AppendEntryRequests
    BY <2>2, <2>3, SameRequests DEF StoreView!StoreNext, StoreView!AppendEntry
  <2>4. CASE Head(queue) \in AppendRecordRequests
    BY <2>2, <2>4, SameRequests DEF StoreView!StoreNext, StoreView!AppendRecord
  <2>5. CASE Head(queue) \in LaneRequests
    <3>1. Head(queue).op \in {"createLane", "moveLane"}
      BY <2>5 DEF LaneRequests
    <3> QED
      BY <2>2, <2>5, <3>1, SameRequests DEF StoreView!StoreNext, StoreView!CreateLane, StoreView!MoveLane
  <2>6. CASE Head(queue) \in NameRequests
    BY <2>2, <2>6, SameRequests DEF StoreView!StoreNext, StoreView!SetName
  <2>7. CASE Head(queue) \in LabelRequests
    BY <2>2, <2>7, SameRequests DEF StoreView!StoreNext, StoreView!SetLabel
  <2> QED
    BY <1>1, <2>3, <2>4, <2>5, <2>6, <2>7 DEF Requests
<1> QED
  BY <1>2, <1>3 DEF Record

LEMMA StepIsOperation == JsonlInv /\ [CrashNext]_vars => [StoreView!StoreNext]_Durable
<1> SUFFICES ASSUME JsonlInv, [CrashNext]_vars PROVE [StoreView!StoreNext]_Durable
  OBVIOUS
<1>1. CASE UNCHANGED versions
  BY <1>1 DEF Durable
<1>2. CASE AppendDone
  BY <1>2, AppendIsOperation DEF AppendDone, Chunks
<1>3. CASE Crash /\ phase = "appending"
  <2>1. PICK chunk \in Chunks : Record(inflight, chunk)
    BY <1>3 DEF Crash, CrashFile
  <2> QED
    BY <1>3, <2>1, AppendIsOperation
<1>4. CASE Crash /\ phase # "appending"
  BY <1>1, <1>4 DEF Crash, CrashFile
<1>5. CASE UNCHANGED vars
  BY <1>1, <1>5 DEF vars
<1>6. CASE \E r \in Commands : Enqueue(r)
  BY <1>1, <1>6 DEF Enqueue
<1>7. CASE Create \/ CreateDone \/ Reject \/ BeginAppend
  BY <1>1, <1>7 DEF Create, CreateDone, Reject, BeginAppend
<1>8. CASE Load
  BY <1>1, <1>8 DEF Load, BeginLoad, ReplayLine, ReplayTornTail, ReplayRefuses,
     ReplayEnd, Terminate, Stage, Publish
<1> QED
  BY <1>2, <1>3, <1>4, <1>5, <1>6, <1>7, <1>8 DEF CrashNext, Operate

(* Seen through its file the storage is a SessionStore: one append is one  *)
(* operation, and a crash, a load or a repair changes nothing.             *)
THEOREM JsonlImplementsStore == CrashSpec => ImplementsStore
<1>1. Init => StoreView!StoreInit
  BY SameEmptyState DEF Init, StoreView!StoreInit, Durable, LastOf
<1> QED
  BY <1>1, StepIsOperation, JsonlInvariant, PTL
     DEF CrashSpec, ImplementsStore, StoreView!StoreSpec

-----------------------------------------------------------------------------
(* JsonlStorage when writes fail.  A line whose write was reported to have  *)
(* failed may be in the file, so the file need no longer be what memory     *)
(* is; but as far as its lines replay, each of them was accepted by the     *)
(* state in front of it.                                                    *)

(* c[1], ..., c[n] are the states a load of these lines goes through.       *)
IsReplay(c, n, lines) ==
  /\ n \in 1..Len(lines)
  /\ c[1] = EmptyState
  /\ \A k \in 2..n : /\ lines[k] \in Mutation
                     /\ Valid(c[k - 1], lines[k])
                     /\ c[k] = Apply(c[k - 1], lines[k])

ReplaysSound(lines) ==
  \A c, n : IsReplay(c, n, lines) => c[n] \in State /\ Sound(c[n])

(* In use, memory has fallen behind a file that replays to its end, or is   *)
(* what the file replays to.                                                *)
UseFollows ==
  phase \in {"ready", "appending"} =>
    /\ Len(file.lines) >= 1
    /\ file.terminated \/ Len(file.lines) >= 2
    /\ \A c : IsReplay(c, Len(file.lines), file.lines) =>
         LET last == c[Len(file.lines)] IN
         live.sequence <= last.sequence /\ (live.sequence = last.sequence => live = last)

AppendFollows ==
  phase = "appending" =>
    /\ queue # <<>> /\ Accepts(live, Head(queue))
    /\ inflight = MutationOf(live, Head(queue))

Loading == {"replaying", "staging", "publishing", "terminating"}

(* While a file is loaded, memory is what the lines before cursor replay to. *)
LoadFollows ==
  phase \in Loading =>
    /\ cursor \in 2..(Len(file.lines) + 1)
    /\ \E c : IsReplay(c, cursor - 1, file.lines) /\ c[cursor - 1] = live
    /\ \A c : IsReplay(c, cursor - 1, file.lines) => c[cursor - 1] = live
    /\ phase \in {"staging", "publishing"} =>
         cursor = Len(file.lines) /\ file.lines[cursor] = Garbage
    /\ phase = "terminating" => cursor = Len(file.lines) + 1
    /\ phase = "publishing" => tmp = ValidPrefix

FaultType ==
  /\ file \in Content /\ tmp \in Content /\ phase \in Phases /\ cursor \in Nat
  /\ live \in State /\ queue \in Seq(Commands)

FaultInv ==
  /\ FaultType /\ Sound(live) /\ ReplaysSound(file.lines)
  /\ UseFollows /\ AppendFollows /\ LoadFollows
  /\ phase = "creating" => file.lines = <<>> /\ live = EmptyState

(* A replay of more lines goes through a replay of fewer.                   *)
LEMMA ShorterReplay ==
  ASSUME NEW f \in Content, NEW c, NEW n, IsReplay(c, n, f.lines), n > 1
  PROVE  /\ IsReplay(c, n - 1, f.lines) /\ f.lines[n] \in Mutation
         /\ Valid(c[n - 1], f.lines[n]) /\ c[n] = Apply(c[n - 1], f.lines[n])
<1>1. Len(f.lines) \in Nat /\ n \in 1..Len(f.lines) /\ n \in 2..n
  BY DEF Content, IsReplay
<1>2. n - 1 \in 1..Len(f.lines) /\ 2..(n - 1) \subseteq 2..n
  BY <1>1
<1> QED
  BY <1>1, <1>2 DEF IsReplay

(* Equal lines have the same replays.                                       *)
LEMMA SameReplay ==
  ASSUME NEW f \in Content, NEW g \in Content, NEW c, NEW n \in Nat,
         n <= Len(g.lines), \A k \in 1..n : f.lines[k] = g.lines[k],
         IsReplay(c, n, f.lines)
  PROVE  IsReplay(c, n, g.lines)
<1>1. Len(f.lines) \in Nat /\ Len(g.lines) \in Nat
  BY DEF Content
<1>2. n \in 1..Len(g.lines) /\ \A k \in 2..n : k \in 1..n
  BY <1>1 DEF IsReplay
<1> QED
  BY <1>2 DEF IsReplay

(* A write leaves the replays there were; one more may end with its line.   *)
LEMMA WrittenReplays ==
  ASSUME NEW f \in Content, NEW line \in Line, NEW chunk \in Chunks,
         NEW c, NEW n, IsReplay(c, n, Written(f, line, chunk).lines), n > 1
  PROVE  \/ IsReplay(c, n, f.lines)
            /\ (n = Len(Written(f, line, chunk).lines) => chunk = "nothing")
         \/ /\ f.terminated /\ chunk \in {"line", "unterminated"}
            /\ n = Len(f.lines) + 1
            /\ IsReplay(c, Len(f.lines), f.lines)
            /\ line \in Mutation /\ Valid(c[Len(f.lines)], line)
            /\ c[n] = Apply(c[Len(f.lines)], line)
<1> DEFINE g == Written(f, line, chunk)
           kept == IF f.terminated THEN f.lines ELSE SubSeq(f.lines, 1, Len(f.lines) - 1)
           text == IF chunk = "part" \/ ~f.terminated THEN Garbage ELSE line
<1>1. CASE chunk = "nothing"
  BY <1>1 DEF Written
<1>2. CASE chunk # "nothing"
  <2>1. g.lines = Append(kept, text)
    BY <1>2 DEF Written
  <2>2. f.lines \in Seq(Line) /\ Len(f.lines) \in Nat /\ text \in Line
    BY DEF Content, Line
  <2>3. /\ kept \in Seq(Line) /\ Len(kept) <= Len(f.lines)
        /\ f.terminated => kept = f.lines
        /\ \A k \in 1..Len(kept) : kept[k] = f.lines[k]
    <3>1. CASE f.terminated
      BY <3>1, <2>2
    <3>2. CASE ~f.terminated
      BY <3>2, <2>2
    <3> QED
      BY <3>1, <3>2
  <2>4. /\ g.lines \in Seq(Line) /\ Len(g.lines) = Len(kept) + 1 /\ Len(kept) \in Nat
        /\ g.lines[Len(kept) + 1] = text
        /\ \A k \in 1..Len(kept) : g.lines[k] = kept[k]
    BY <2>1, <2>2, <2>3, AppendSeq
  <2>5. g \in Content
    <3>1. g.terminated \in BOOLEAN /\ g = [lines |-> g.lines, terminated |-> g.terminated]
      BY <1>2 DEF Written
    <3> QED
      BY <3>1, <2>4 DEF Content
  <2> HIDE DEF kept, text, g
  <2>6. IsReplay(c, n, g.lines) /\ n \in 1..(Len(kept) + 1)
    BY <2>4 DEF g, IsReplay
  <2>7. CASE n <= Len(kept)
    <3>1. \A k \in 1..n : g.lines[k] = f.lines[k]
      <4>1. \A k \in 1..n : k \in 1..Len(kept)
        BY ONLY <2>4, <2>6, <2>7
      <4> QED
        BY <2>3, <2>4, <4>1
    <3>2. n \in Nat /\ n <= Len(f.lines) /\ n # Len(g.lines)
      <4>1. Len(kept) <= Len(f.lines) /\ n \in 1..(Len(kept) + 1)
        BY <2>3, <2>6
      <4> QED
        BY ONLY <2>2, <2>4, <2>7, <4>1
    <3>3. IsReplay(c, n, f.lines)
      BY ONLY <2>5, <2>6, <3>1, <3>2, SameReplay, f \in Content
    <3> QED
      BY ONLY <3>2, <3>3 DEF g
  <2>8. CASE n = Len(kept) + 1
    <3>1. /\ IsReplay(c, n - 1, g.lines) /\ text \in Mutation
          /\ Valid(c[n - 1], text) /\ c[n] = Apply(c[n - 1], text)
      <4>1. n > 1 /\ g.lines[n] = text
        BY ONLY <2>4, <2>8, n > 1
      <4> QED
        BY ONLY <2>5, <2>6, <4>1, ShorterReplay
    <3>2. f.terminated /\ chunk # "part" /\ text = line
      BY <3>1, TextIsNoMutation DEF text
    <3>3. kept = f.lines
      BY <2>3, <3>2
    <3>4. n - 1 = Len(f.lines) /\ n - 1 \in Nat
      BY ONLY <2>2, <2>8, <3>3
    <3>5. \A k \in 1..(n - 1) : g.lines[k] = f.lines[k]
      BY ONLY <2>4, <3>3, <3>4
    <3>6. IsReplay(c, Len(f.lines), f.lines)
      <4>1. n - 1 <= Len(f.lines) /\ IsReplay(c, n - 1, g.lines)
        BY ONLY <2>2, <3>1, <3>4
      <4>2. IsReplay(c, n - 1, f.lines)
        BY ONLY <2>5, <3>4, <3>5, <4>1, SameReplay, f \in Content
      <4> QED
        BY ONLY <3>4, <4>2
    <3>7. chunk \in {"line", "unterminated"} /\ n = Len(f.lines) + 1
      BY ONLY <1>2, <2>2, <2>8, <3>2, <3>3, chunk \in Chunks DEF Chunks
    <3>8. line \in Mutation /\ Valid(c[Len(f.lines)], line) /\ c[n] = Apply(c[Len(f.lines)], line)
      BY ONLY <3>1, <3>2, <3>4
    <3> QED
      BY ONLY <3>2, <3>6, <3>7, <3>8
  <2> QED
    BY <2>4, <2>6, <2>7, <2>8
<1> QED
  BY <1>1, <1>2

LEMMA WrittenLines ==
  ASSUME NEW f \in Content, Len(f.lines) >= 1, f.terminated \/ Len(f.lines) >= 2,
         NEW line \in Line, NEW chunk \in Chunks
  PROVE  /\ Written(f, line, chunk) \in Content
         /\ chunk = "nothing" => Written(f, line, chunk) = f
         /\ chunk # "nothing" => Len(Written(f, line, chunk).lines) >= 2
<1> DEFINE g == Written(f, line, chunk)
           kept == IF f.terminated THEN f.lines ELSE SubSeq(f.lines, 1, Len(f.lines) - 1)
           text == IF chunk = "part" \/ ~f.terminated THEN Garbage ELSE line
<1>1. CASE chunk = "nothing"
  BY <1>1 DEF Written
<1>2. CASE chunk # "nothing"
  <2>1. g = [lines |-> Append(kept, text), terminated |-> chunk = "line"]
    BY <1>2 DEF Written
  <2>2. f.lines \in Seq(Line) /\ Len(f.lines) \in Nat /\ text \in Line
    BY DEF Content, Line
  <2>3. kept \in Seq(Line) /\ Len(kept) >= 1 /\ Len(kept) \in Nat
    <3>1. CASE f.terminated
      BY <3>1, <2>2
    <3>2. CASE ~f.terminated
      BY <3>2, <2>2
    <3> QED
      BY <3>1, <3>2
  <2>4. Append(kept, text) \in Seq(Line) /\ Len(Append(kept, text)) >= 2
    BY <2>2, <2>3, AppendSeq
  <2>5. (chunk = "line") \in BOOLEAN
    OBVIOUS
  <2> QED
    BY <1>2, <2>1, <2>4, <2>5 DEF Content
<1> QED
  BY <1>1, <1>2

LEMMA AppliedSequence ==
  ASSUME NEW s \in State, NEW m \in Mutation
  PROVE  Apply(s, m).sequence = m.seq
<1>1. m.kind \in {"entry", "record", "lane", "name", "label"}
  BY DEF Mutation
<1>2. /\ ApplyEntry(s, m).sequence = m.seq /\ ApplyRecord(s, m).sequence = m.seq
      /\ ApplyLane(s, m).sequence = m.seq /\ ApplyName(s, m).sequence = m.seq
      /\ ApplyLabel(s, m).sequence = m.seq
  BY DEF State, ApplyEntry, ApplyRecord, ApplyLane, ApplyName, ApplyLabel
<1> QED
  BY <1>1, <1>2 DEF Apply

(* What the append of the head of the chain leaves, up to any byte.         *)
LEMMA WriteFollows ==
  ASSUME FaultInv, phase = "appending", NEW chunk \in Chunks,
         file' = Written(file, inflight, chunk)
  PROVE  /\ file' \in Content /\ ReplaysSound(file'.lines)
         /\ Apply(live, inflight) \in State /\ Sound(Apply(live, inflight))
         /\ Len(file'.lines) >= 1
         /\ file'.terminated \/ Len(file'.lines) >= 2
         /\ \A s \in {live, Apply(live, inflight)} :
              (s = live \/ chunk = "line") =>
                \A c : IsReplay(c, Len(file'.lines), file'.lines) =>
                  /\ s.sequence <= c[Len(file'.lines)].sequence
                  /\ s.sequence = c[Len(file'.lines)].sequence => s = c[Len(file'.lines)]
<1> DEFINE n == Len(file.lines)
           done == Apply(live, inflight)
<1>1. /\ file \in Content /\ live \in State /\ Sound(live) /\ Head(queue) \in Requests
      /\ Accepts(live, Head(queue)) /\ inflight = MutationOf(live, Head(queue))
      /\ n >= 1 /\ (file.terminated \/ n >= 2) /\ n \in Nat
  <2>1. queue \in Seq(Commands) /\ queue # <<>>
    BY DEF FaultInv, FaultType, AppendFollows
  <2>2. Head(queue) \in Requests
    BY <2>1
  <2>3. Len(file.lines) >= 1 /\ (file.terminated \/ Len(file.lines) >= 2)
    BY DEF FaultInv, UseFollows
  <2>4. file \in Content /\ Len(file.lines) \in Nat
    BY DEF FaultInv, FaultType, Content
  <2>5. /\ live \in State /\ Sound(live) /\ Accepts(live, Head(queue))
        /\ inflight = MutationOf(live, Head(queue))
    BY DEF FaultInv, FaultType, AppendFollows
  <2> QED
    BY ONLY <2>2, <2>3, <2>4, <2>5
<1>2. done \in State /\ Sound(done)
  BY <1>1, PerformedSound
<1>3. inflight \in Mutation /\ inflight \in Line /\ inflight.seq = live.sequence + 1
  BY <1>1, MutationOfType DEF Line, MutationOf
<1>4. /\ file' \in Content
      /\ chunk = "nothing" => file' = file
      /\ chunk # "nothing" => Len(file'.lines) >= 2
      /\ Len(file'.lines) >= 1 /\ (file'.terminated \/ Len(file'.lines) >= 2)
      /\ Len(file'.lines) \in Nat
  <2>1. /\ file' \in Content
        /\ chunk = "nothing" => file' = file
        /\ chunk # "nothing" => Len(file'.lines) >= 2
    BY ONLY <1>1, <1>3, WrittenLines, chunk \in Chunks, file' = Written(file, inflight, chunk)
  <2>2. Len(file'.lines) \in Nat
    BY <2>1 DEF Content
  <2> QED
    BY <1>1, <2>1, <2>2
(* Before a line that replays, the file was what memory is.                 *)
<1>5. ASSUME NEW c, IsReplay(c, n, file.lines), Valid(c[n], inflight)
      PROVE  c[n] = live
  <2>1. c[n] \in State
    BY <1>5 DEF FaultInv, ReplaysSound
  <2>2. inflight.seq = c[n].sequence + 1
    BY <1>5 DEF Valid
  <2>3. c[n].sequence = live.sequence
    BY <1>1, <1>3, <2>1, <2>2 DEF State
  <2> QED
    <3>1. LET last == c[Len(file.lines)] IN
            live.sequence <= last.sequence /\ (live.sequence = last.sequence => live = last)
      BY <1>5 DEF FaultInv, UseFollows
    <3> QED
      BY <2>3, <3>1
<1>6. ReplaysSound(file'.lines)
  <2> SUFFICES ASSUME NEW c, NEW k, IsReplay(c, k, file'.lines)
               PROVE  c[k] \in State /\ Sound(c[k])
    BY DEF ReplaysSound
  <2>1. CASE k = 1
    BY <2>1, EmptyStateType DEF IsReplay
  <2>2. CASE IsReplay(c, k, file.lines)
    BY <2>2 DEF FaultInv, ReplaysSound
  <2>3. CASE /\ IsReplay(c, n, file.lines) /\ Valid(c[n], inflight)
             /\ c[k] = Apply(c[n], inflight)
    BY <1>2, <1>5, <2>3
  <2>4. k > 1 \/ k = 1
    BY <1>4 DEF IsReplay
  <2>5. k > 1 => IsReplay(c, k, file.lines) \/ (IsReplay(c, n, file.lines) /\ Valid(c[n], inflight)
                                                 /\ c[k] = Apply(c[n], inflight))
    BY <1>1, <1>3, WrittenReplays
  <2> QED
    BY <2>1, <2>2, <2>3, <2>4, <2>5
<1>7. ASSUME NEW c, IsReplay(c, Len(file'.lines), file'.lines), chunk # "nothing"
      PROVE  c[Len(file'.lines)] = done /\ done.sequence = live.sequence + 1
  <2>1. Len(file'.lines) > 1
    BY <1>4, <1>7
  <2>2. /\ IsReplay(c, n, file.lines) /\ Valid(c[n], inflight)
        /\ c[Len(file'.lines)] = Apply(c[n], inflight)
    <3>1. \/ /\ IsReplay(c, Len(file'.lines), file.lines)
             /\ Len(file'.lines) = Len(file'.lines) => chunk = "nothing"
          \/ /\ IsReplay(c, n, file.lines) /\ Valid(c[n], inflight)
             /\ c[Len(file'.lines)] = Apply(c[n], inflight)
      BY ONLY <1>1, <1>3, <1>7, <2>1, WrittenReplays, chunk \in Chunks,
              file' = Written(file, inflight, chunk)
    <3> QED
      BY ONLY <1>7, <3>1
  <2> QED
    BY <1>1, <1>3, <1>5, <2>2, AppliedSequence
<1>8. ASSUME NEW c, IsReplay(c, Len(file'.lines), file'.lines), chunk = "nothing"
      PROVE  /\ live.sequence <= c[Len(file'.lines)].sequence
             /\ live.sequence = c[Len(file'.lines)].sequence => live = c[Len(file'.lines)]
  BY <1>4, <1>8 DEF FaultInv, UseFollows
<1>9. ASSUME NEW s \in {live, done}, s = live \/ chunk = "line",
             NEW c, IsReplay(c, Len(file'.lines), file'.lines)
      PROVE  /\ s.sequence <= c[Len(file'.lines)].sequence
             /\ s.sequence = c[Len(file'.lines)].sequence => s = c[Len(file'.lines)]
  <2>1. live.sequence \in Nat /\ done.sequence \in Nat
    BY <1>1, <1>2 DEF State
  <2>2. CASE chunk = "nothing"
    BY <1>8, <1>9, <2>2
  <2>3. CASE chunk # "nothing"
    <3>1. c[Len(file'.lines)] = done /\ done.sequence = live.sequence + 1
      BY <1>7, <1>9, <2>3
    <3> QED
      BY ONLY <1>9, <2>1, <3>1
  <2> QED
    BY <2>2, <2>3
<1> QED
  BY <1>2, <1>4, <1>6, <1>9

LEMMA FaultStep == FaultInv /\ [Next]_vars => FaultInv'
<1> SUFFICES ASSUME FaultInv, [Next]_vars PROVE FaultInv'
  OBVIOUS
<1>0. /\ FaultType /\ Sound(live) /\ ReplaysSound(file.lines)
      /\ UseFollows /\ AppendFollows /\ LoadFollows
      /\ phase = "creating" => file.lines = <<>> /\ live = EmptyState
      /\ file \in Content /\ tmp \in Content /\ phase \in Phases /\ cursor \in Nat
      /\ live \in State /\ queue \in Seq(Commands)
      /\ file.lines \in Seq(Line) /\ Len(file.lines) \in Nat
      /\ EmptyState \in State /\ Sound(EmptyState)
  BY EmptyStateType DEF FaultInv, FaultType, Content
(* Nothing but the chain and what waits in it changes.                      *)
<1>1. CASE UNCHANGED <<file, tmp, phase, cursor, live, inflight>> /\ UNCHANGED queue
  BY <1>0, <1>1 DEF FaultInv, FaultType, UseFollows, AppendFollows, LoadFollows, ValidPrefix
<1>2. CASE Create
  <2>1. /\ phase' = "creating" /\ live' = EmptyState /\ file.lines = <<>>
        /\ file' = file /\ tmp' = tmp /\ cursor' = cursor /\ queue' = queue
    BY <1>2 DEF Create
  <2> QED
    BY <1>0, <2>1 DEF FaultInv, FaultType, Phases, UseFollows, AppendFollows, LoadFollows, Loading
<1>3. CASE CreateDone
  <2>1. /\ phase = "creating" /\ phase' = "ready" /\ file' = Written(NoFile, Header, "line")
        /\ tmp' = tmp /\ cursor' = cursor /\ queue' = queue /\ live' = live
    BY <1>3 DEF CreateDone
  <2>2. file' = [lines |-> <<Header>>, terminated |-> TRUE]
    <3>1. "line" \in Chunks
      BY DEF Chunks
    <3>2. Written(NoFile, Header, "line")
            = [lines |-> Append(NoFile.lines, Header), terminated |-> TRUE]
      BY ONLY <3>1, NoFileType, WrittenCases
    <3> QED
      BY ONLY <2>1, <3>2, NoFileType, AppendEmpty
  <2>3. file' \in Content /\ Len(file'.lines) = 1 /\ file'.terminated
    BY <2>2, NoFileType DEF Content
  <2>4. ASSUME NEW c, NEW n, IsReplay(c, n, file'.lines)
        PROVE  n = 1 /\ c[n] = EmptyState
    BY <2>3, <2>4 DEF IsReplay
  <2>5. ReplaysSound(file'.lines)
    BY <1>0, <2>4 DEF ReplaysSound
  <2>6. UseFollows'
    <3>1. EmptyState.sequence \in Nat /\ live' = EmptyState
      BY <1>0, <2>1 DEF FaultInv, State
    <3>2. ASSUME NEW c, IsReplay(c, Len(file'.lines), file'.lines)
          PROVE  c[Len(file'.lines)] = live'
      BY ONLY <2>4, <3>1, <3>2
    <3>3. live'.sequence <= live'.sequence
      BY ONLY <3>1
    <3> QED
      BY ONLY <2>3, <3>2, <3>3 DEF UseFollows
  <2> QED
    BY <1>0, <2>1, <2>3, <2>5, <2>6 DEF FaultInv, FaultType, Phases, AppendFollows, LoadFollows, Loading
(* An operation joins the chain, or its head rejects.                       *)
<1>4. CASE \E r \in Commands : Enqueue(r)
  <2>1. PICK r \in Commands : Enqueue(r)
    BY <1>4
  <2>2. /\ queue' = Append(queue, r) /\ queue' # <<>> /\ (queue # <<>> => Head(queue') = Head(queue))
        /\ queue' \in Seq(Commands)
        /\ UNCHANGED <<file, tmp, phase, cursor, live, inflight>>
    BY <1>0, <2>1 DEF Enqueue
  <2> QED
    BY <1>0, <2>2 DEF FaultInv, FaultType, UseFollows, AppendFollows, LoadFollows, ValidPrefix
<1>5. CASE Reject
  <2>1. /\ phase = "ready" /\ queue' \in Seq(Commands)
        /\ UNCHANGED <<file, tmp, phase, cursor, live, inflight>>
    BY <1>0, <1>5 DEF Reject
  <2> QED
    BY <1>0, <2>1 DEF FaultInv, FaultType, UseFollows, AppendFollows, LoadFollows, Loading
<1>6. CASE BeginAppend
  <2>1. /\ phase = "ready" /\ phase' = "appending" /\ queue # <<>> /\ Accepts(live, Head(queue))
        /\ inflight' = MutationOf(live, Head(queue))
        /\ UNCHANGED <<file, tmp, cursor, live, queue>>
    BY <1>6 DEF BeginAppend
  <2>2. UseFollows'
    BY <1>0, <2>1 DEF UseFollows
  <2>3. AppendFollows'
    BY <2>1 DEF AppendFollows
  <2> QED
    BY <1>0, <2>1, <2>2, <2>3 DEF FaultInv, FaultType, Phases, LoadFollows, Loading
<1>7. CASE AppendDone
  <2>1. /\ phase = "appending" /\ phase' = "ready" /\ file' = Written(file, inflight, "line")
        /\ live' = Apply(live, inflight) /\ queue' = Tail(queue)
        /\ UNCHANGED <<tmp, cursor>>
    BY <1>7 DEF AppendDone
  <2>2. queue' \in Seq(Commands)
    BY <1>0, <2>1 DEF AppendFollows
  <2>3. /\ file' \in Content /\ ReplaysSound(file'.lines)
        /\ live' \in State /\ Sound(live')
        /\ Len(file'.lines) >= 1 /\ (file'.terminated \/ Len(file'.lines) >= 2)
        /\ \A c : IsReplay(c, Len(file'.lines), file'.lines) =>
             /\ live'.sequence <= c[Len(file'.lines)].sequence
             /\ live'.sequence = c[Len(file'.lines)].sequence => live' = c[Len(file'.lines)]
    <3>1. "line" \in Chunks
      BY DEF Chunks
    <3> QED
      BY <2>1, <3>1, WriteFollows
  <2>4. UseFollows'
    BY <2>3 DEF UseFollows
  <2> QED
    BY <2>1, <2>2, <2>3, <2>4 DEF FaultInv, FaultType, Phases, AppendFollows, LoadFollows, Loading, FaultInv
<1>8. CASE AppendFails
  <2>1. /\ phase = "appending" /\ phase' = "ready" /\ queue' = Tail(queue)
        /\ UNCHANGED <<tmp, cursor, live>>
    BY <1>8 DEF AppendFails
  <2>2. PICK chunk \in Chunks : file' = Written(file, inflight, chunk)
    BY <1>8 DEF AppendFails
  <2>3. queue' \in Seq(Commands)
    BY <1>0, <2>1 DEF AppendFollows
  <2>4. /\ file' \in Content /\ ReplaysSound(file'.lines)
        /\ Len(file'.lines) >= 1 /\ (file'.terminated \/ Len(file'.lines) >= 2)
        /\ \A c : IsReplay(c, Len(file'.lines), file'.lines) =>
             /\ live.sequence <= c[Len(file'.lines)].sequence
             /\ live.sequence = c[Len(file'.lines)].sequence => live = c[Len(file'.lines)]
    BY <2>1, <2>2, WriteFollows
  <2>5. UseFollows'
    BY <2>1, <2>4 DEF UseFollows
  <2> QED
    BY <1>0, <2>1, <2>3, <2>4, <2>5 DEF FaultInv, FaultType, Phases, AppendFollows, LoadFollows, Loading
(* Loading the file.                                                        *)
<1>9. CASE BeginLoad
  <2>1. /\ phase = "down" /\ phase' = "replaying" /\ file.lines # <<>> /\ live' = EmptyState
        /\ cursor' = 2 /\ UNCHANGED <<file, tmp, queue>>
    BY <1>9 DEF BeginLoad
  <2>2. Len(file.lines) >= 1 /\ cursor' - 1 = 1 /\ cursor' \in 2..(Len(file.lines) + 1)
    BY <1>0, <2>1
  <2>3. \A c : IsReplay(c, 1, file.lines) <=> c[1] = EmptyState
    BY <1>0, <2>2 DEF IsReplay
  <2>4. \E c : IsReplay(c, 1, file.lines) /\ c[1] = EmptyState
    <3>1. [k \in {1} |-> EmptyState][1] = EmptyState
      OBVIOUS
    <3> QED
      BY <2>3, <3>1
  <2>5. LoadFollows'
    BY <2>1, <2>2, <2>3, <2>4 DEF LoadFollows
  <2> QED
    BY <1>0, <2>1, <2>5 DEF FaultInv, FaultType, Phases, UseFollows, AppendFollows
<1>10. CASE ReplayLine
  <2>1. /\ phase = "replaying" /\ phase' = phase /\ cursor <= Len(file.lines)
        /\ file.lines[cursor] # Garbage /\ Valid(live, file.lines[cursor])
        /\ live' = Apply(live, file.lines[cursor]) /\ cursor' = cursor + 1
        /\ UNCHANGED <<file, tmp, queue>>
    BY <1>10 DEF ReplayLine, AtLine, Current
  <2>2. /\ cursor \in 2..Len(file.lines)
        /\ \A c : IsReplay(c, cursor - 1, file.lines) => c[cursor - 1] = live
    BY <1>0, <2>1 DEF LoadFollows, Loading
  <2>3. PICK c : IsReplay(c, cursor - 1, file.lines) /\ c[cursor - 1] = live
    BY <1>0, <2>1 DEF LoadFollows, Loading
  <2>4. file.lines[cursor] \in Mutation
    <3>1. file.lines[cursor] \in Line
      BY <1>0, <2>2
    <3>2. file.lines[cursor].seq = live.sequence + 1 /\ live.sequence \in Nat
      BY <1>0, <2>1 DEF Valid, State
    <3>3. Header.seq = 0
      BY DEF Header, Text
    <3> QED
      BY <2>1, <3>1, <3>2, <3>3 DEF Line
  <2> DEFINE d == [k \in 1..cursor |-> IF k = cursor THEN Apply(live, file.lines[cursor]) ELSE c[k]]
  <2>5. IsReplay(d, cursor, file.lines) /\ d[cursor] = live'
    <3>1. /\ d[cursor] = Apply(live, file.lines[cursor]) /\ d[cursor - 1] = live
          /\ \A k \in 1..(cursor - 1) : d[k] = c[k]
      BY <2>2, <2>3
    <3>2. /\ 1 \in 1..(cursor - 1) /\ cursor \in 1..Len(file.lines)
          /\ \A k \in 2..(cursor - 1) : k \in 1..(cursor - 1) /\ k - 1 \in 1..(cursor - 1)
          /\ \A k \in 2..cursor : k = cursor \/ k \in 2..(cursor - 1)
      BY <2>2
    <3> HIDE DEF d
    <3>3. d[1] = EmptyState
      BY <2>3, <3>1, <3>2 DEF IsReplay
    <3>4. ASSUME NEW k \in 2..cursor
          PROVE  file.lines[k] \in Mutation /\ Valid(d[k - 1], file.lines[k])
                 /\ d[k] = Apply(d[k - 1], file.lines[k])
      <4>1. CASE k = cursor
        BY <2>1, <2>4, <3>1, <4>1
      <4>2. CASE k \in 2..(cursor - 1)
        BY <2>3, <3>1, <3>2, <4>2 DEF IsReplay
      <4> QED
        BY <3>2, <4>1, <4>2
    <3> QED
      BY <2>1, <3>1, <3>2, <3>3, <3>4 DEF IsReplay
  <2>6. live' \in State /\ Sound(live')
    <3> HIDE DEF d
    <3>1. d[cursor] \in State /\ Sound(d[cursor])
      BY <1>0, <2>5 DEF ReplaysSound
    <3> QED
      BY <2>5, <3>1
  <2>7. ASSUME NEW e, IsReplay(e, cursor, file.lines)
        PROVE  e[cursor] = live'
    <3>1. IsReplay(e, cursor - 1, file.lines) /\ e[cursor] = Apply(e[cursor - 1], file.lines[cursor])
      BY <1>0, <2>2, <2>7, ShorterReplay
    <3> QED
      BY <2>1, <2>2, <3>1
  <2>8. cursor' - 1 = cursor /\ cursor' \in 2..(Len(file.lines) + 1) /\ cursor' \in Nat
    BY <1>0, <2>1, <2>2
  <2>9. LoadFollows'
    <3> HIDE DEF d
    <3>1. /\ \E f : IsReplay(f, cursor' - 1, file'.lines) /\ f[cursor' - 1] = live'
          /\ \A f : IsReplay(f, cursor' - 1, file'.lines) => f[cursor' - 1] = live'
      BY <2>1, <2>5, <2>7, <2>8
    <3> QED
      BY <2>1, <2>8, <3>1 DEF LoadFollows
  <2> QED
    BY <1>0, <2>1, <2>6, <2>8, <2>9 DEF FaultInv, FaultType, UseFollows, AppendFollows
<1>11. CASE ReplayTornTail
  <2>1. /\ phase = "replaying" /\ phase' = "staging" /\ cursor = Len(file.lines)
        /\ file.lines[cursor] = Garbage
        /\ UNCHANGED <<file, tmp, cursor, live, queue>>
    BY <1>11 DEF ReplayTornTail, AtLine, Current
  <2>2. LoadFollows'
    BY <1>0, <2>1 DEF LoadFollows, Loading
  <2> QED
    BY <1>0, <2>1, <2>2 DEF FaultInv, FaultType, Phases, UseFollows, AppendFollows
<1>12. CASE ReplayRefuses
  <2>1. phase' = "down" /\ live' = EmptyState /\ UNCHANGED <<file, tmp, cursor, queue>>
    BY <1>12 DEF ReplayRefuses
  <2> QED
    BY <1>0, <2>1 DEF FaultInv, FaultType, Phases, UseFollows, AppendFollows, LoadFollows, Loading
(* The whole file was replayed, or all of it but the line that goes.        *)
<1>13. ASSUME phase' = "ready", live' = live, queue' = queue, tmp' \in Content, cursor' = cursor,
              file' \in Content, file'.terminated, Len(file'.lines) = cursor - 1, phase \in Loading,
              cursor - 1 <= Len(file.lines),
              \A k \in 1..(cursor - 1) : file'.lines[k] = file.lines[k]
       PROVE  FaultInv'
  <2>1. cursor \in 2..(Len(file.lines) + 1)
        /\ \A c : IsReplay(c, cursor - 1, file.lines) => c[cursor - 1] = live
    BY <1>0, <1>13 DEF LoadFollows
  <2>2. cursor - 1 \in Nat /\ cursor - 1 >= 1
    BY <2>1
  <2>3. ASSUME NEW c, NEW n, IsReplay(c, n, file'.lines)
        PROVE  IsReplay(c, n, file.lines)
    <3>1. n \in Nat /\ n <= cursor - 1
      BY <1>13, <2>2, <2>3 DEF IsReplay
    <3>2. n <= Len(file.lines) /\ \A k \in 1..n : file'.lines[k] = file.lines[k]
      BY <1>0, <1>13, <2>2, <3>1
    <3> QED
      BY <1>0, <1>13, <2>3, <3>1, <3>2, SameReplay
  <2>4. ReplaysSound(file'.lines)
    BY <1>0, <2>3 DEF ReplaysSound
  <2>5. ASSUME NEW c, IsReplay(c, Len(file'.lines), file'.lines)
        PROVE  c[Len(file'.lines)] = live
    BY <1>13, <2>1, <2>3, <2>5
  <2>6. UseFollows'
    <3>1. live.sequence <= live.sequence
      BY <1>0 DEF State
    <3> QED
      BY <1>13, <2>2, <2>5, <3>1 DEF UseFollows
  <2> QED
    BY <1>0, <1>13, <2>4, <2>6 DEF FaultInv, FaultType, Phases, AppendFollows, LoadFollows, Loading
<1>14. CASE ReplayEnd
  <2>1. /\ phase = "replaying" /\ cursor > Len(file.lines)
        /\ phase' = IF file.terminated THEN "ready" ELSE "terminating"
        /\ UNCHANGED <<file, tmp, cursor, live, queue>>
    BY <1>14 DEF ReplayEnd
  <2>2. cursor = Len(file.lines) + 1
    BY <1>0, <2>1 DEF LoadFollows, Loading
  <2>3. CASE file.terminated
    <3>1. Len(file.lines) = cursor - 1 /\ cursor - 1 <= Len(file.lines)
      BY <1>0, <2>2
    <3> QED
      BY <1>0, <1>13, <2>1, <2>3, <3>1 DEF Loading
  <2>4. CASE ~file.terminated
    <3>1. LoadFollows'
      BY <1>0, <2>1, <2>2, <2>4 DEF LoadFollows, Loading
    <3> QED
      BY <1>0, <2>1, <2>4, <3>1 DEF FaultInv, FaultType, Phases, UseFollows, AppendFollows
  <2> QED
    BY <2>3, <2>4
<1>15. CASE Terminate
  <2>1. /\ phase = "terminating" /\ phase' = "ready" /\ file' = [file EXCEPT !.terminated = TRUE]
        /\ UNCHANGED <<tmp, cursor, live, queue>>
    BY <1>15 DEF Terminate
  <2>2. cursor = Len(file.lines) + 1
    BY <1>0, <2>1 DEF LoadFollows, Loading
  <2>3. file' \in Content /\ file'.lines = file.lines /\ file'.terminated
    BY <1>0, <2>1 DEF Content
  <2>4. Len(file'.lines) = cursor - 1 /\ cursor - 1 <= Len(file.lines)
    BY <1>0, <2>2, <2>3
  <2> QED
    BY <1>0, <1>13, <2>1, <2>3, <2>4 DEF Loading
<1>16. CASE Stage
  <2>1. /\ phase = "staging" /\ phase' = "publishing" /\ tmp' = ValidPrefix
        /\ UNCHANGED <<file, cursor, live, queue>>
    BY <1>16 DEF Stage
  <2>2. tmp' \in Content
    BY <1>0, <2>1 DEF ValidPrefix, Content
  <2>3. LoadFollows'
    BY <1>0, <2>1 DEF LoadFollows, Loading, ValidPrefix
  <2> QED
    BY <1>0, <2>1, <2>2, <2>3 DEF FaultInv, FaultType, Phases, UseFollows, AppendFollows
<1>17. CASE Publish
  <2>1. /\ phase = "publishing" /\ phase' = "ready" /\ file' = tmp /\ tmp' = NoFile
        /\ UNCHANGED <<cursor, live, queue>>
    BY <1>17 DEF Publish
  <2>2. cursor \in 2..(Len(file.lines) + 1) /\ cursor = Len(file.lines) /\ tmp = ValidPrefix
    BY <1>0, <2>1 DEF LoadFollows, Loading
  <2>3. file'.lines = SubSeq(file.lines, 1, Len(file.lines) - 1) /\ file'.terminated
    BY <2>1, <2>2 DEF ValidPrefix
  <2>4. Len(file'.lines) = cursor - 1 /\ \A k \in 1..(cursor - 1) : file'.lines[k] = file.lines[k]
    BY <1>0, <2>2, <2>3
  <2>5. cursor - 1 <= Len(file.lines)
    BY <1>0, <2>2
  <2> QED
    BY <1>0, <1>13, <2>1, <2>3, <2>4, <2>5, NoFileType DEF Loading
(* The process ends, or load gives up; the lines are what they were, or as  *)
(* WriteFollows says.                                                       *)
<1>18. ASSUME phase' = "down", live' = EmptyState, queue' \in Seq(Commands), tmp' \in Content,
              cursor' = cursor, file' \in Content, ReplaysSound(file'.lines)
       PROVE  FaultInv'
  BY <1>0, <1>18 DEF FaultInv, FaultType, Phases, UseFollows, AppendFollows, LoadFollows, Loading
<1>19. [file EXCEPT !.terminated = TRUE] \in Content
       /\ [file EXCEPT !.terminated = TRUE].lines = file.lines
  BY <1>0 DEF Content
<1>20. CASE LoadFails
  <2>1. /\ phase' = "down" /\ live' = EmptyState /\ tmp' \in {tmp, NoFile}
        /\ file' \in {file, [file EXCEPT !.terminated = TRUE]} /\ UNCHANGED <<cursor, queue>>
    BY <1>20 DEF LoadFails
  <2>2. file' \in Content /\ file'.lines = file.lines /\ tmp' \in Content
    BY <1>0, <1>19, <2>1, NoFileType
  <2> QED
    BY <1>0, <1>18, <2>1, <2>2
<1>21. CASE Crash
  <2>1. phase' = "down" /\ live' = EmptyState /\ queue' = <<>> /\ cursor' = cursor
    BY <1>21 DEF Crash
  <2>2. queue' \in Seq(Commands)
    BY <2>1
  <2>3. file' \in Content /\ ReplaysSound(file'.lines) /\ tmp' \in Content
    <3>1. CASE /\ phase = "creating" /\ UNCHANGED tmp
               /\ \E chunk \in Chunks : file' = Written(NoFile, Header, chunk)
      <4>1. PICK chunk \in Chunks : file' = Written(NoFile, Header, chunk)
        BY <3>1
      <4>2. file' \in Content
        BY <4>1, NoFileType, WrittenCases
      <4>3. ASSUME NEW c, NEW n, IsReplay(c, n, file'.lines)
            PROVE  c[n] \in State /\ Sound(c[n])
        <5>1. n \in Nat /\ n >= 1
          BY <4>2, <4>3 DEF IsReplay, Content
        <5>2. CASE n = 1
          BY <1>0, <4>3, <5>2 DEF IsReplay
        <5>3. CASE n > 1
          <6>1. \E k : IsReplay(c, k, NoFile.lines)
            BY <4>1, <4>3, <5>3, NoFileType, WrittenReplays
          <6>2. Len(NoFile.lines) = 0
            BY NoFileType
          <6> QED
            BY <6>1, <6>2 DEF IsReplay
        <5> QED
          BY <5>1, <5>2, <5>3
      <4> QED
        BY <1>0, <3>1, <4>2, <4>3 DEF ReplaysSound
    <3>2. CASE /\ phase = "appending" /\ UNCHANGED tmp
               /\ \E chunk \in Chunks : file' = Written(file, inflight, chunk)
      BY <1>0, <3>2, WriteFollows
    <3>3. CASE /\ UNCHANGED file
               /\ tmp' \in {tmp, ValidPrefix, Written(NoFile, Header, "part")}
      <4>1. ValidPrefix \in Content
        BY <1>0 DEF ValidPrefix, Content
      <4>2. Written(NoFile, Header, "part") \in Content
        <5>1. "part" \in Chunks
          BY DEF Chunks
        <5> QED
          BY <5>1, NoFileType, WrittenCases
      <4> QED
        BY <1>0, <3>3, <4>1, <4>2
    <3>4. CASE file' \in {file, [file EXCEPT !.terminated = TRUE]} /\ UNCHANGED tmp
      BY <1>0, <1>19, <3>4
    <3>5. CrashFile
      BY <1>21 DEF Crash
    <3> QED
      BY <3>1, <3>2, <3>3, <3>4, <3>5 DEF CrashFile
  <2> QED
    BY <1>18, <2>1, <2>2, <2>3
<1> QED
  BY <1>1, <1>2, <1>3, <1>4, <1>5, <1>6, <1>7, <1>8, <1>9, <1>10, <1>11, <1>12, <1>14, <1>15,
     <1>16, <1>17, <1>20, <1>21 DEF Next, CrashNext, Operate, Load, vars, memory, counters

(* Every state in memory is sound, whatever the file system does: appends   *)
(* that fail after any of their bytes, crashes, repairs, and loads of any   *)
(* file these leave (LiveSound).                                            *)
THEOREM LiveAlwaysSound == Spec => []LiveSound
<1>1. Init => FaultInv
  <2> SUFFICES ASSUME Init PROVE FaultInv
    OBVIOUS
  <2>1. /\ file = NoFile /\ tmp = NoFile /\ phase = "down" /\ cursor = 1 /\ live = EmptyState
        /\ queue = <<>>
    BY DEF Init
  <2>2. ReplaysSound(file.lines)
    <3>1. Len(file.lines) = 0
      BY <2>1, NoFileType
    <3> QED
      BY <3>1 DEF ReplaysSound, IsReplay
  <2>3. queue \in Seq(Commands)
    BY <2>1
  <2> QED
    BY <2>1, <2>2, <2>3, NoFileType, EmptyStateType
       DEF FaultInv, FaultType, Phases, UseFollows, AppendFollows, LoadFollows, Loading
<1>2. FaultInv => LiveSound
  BY DEF FaultInv, LiveSound
<1> QED
  BY <1>1, <1>2, FaultStep, PTL DEF Spec

-----------------------------------------------------------------------------
(* SessionFork: the members of a set in the order of their numbers.         *)

Numbers(S, number) ==
  /\ IsFiniteSet(S)
  /\ \A i \in S : number[i] \in Nat
  /\ \A i, j \in S : number[i] = number[j] => i = j

UpTo(S, number, i) == {j \in S : number[j] <= number[i]}

LEMMA LowestNumbered ==
  ASSUME NEW S, S # {}, NEW number, \A i \in S : number[i] \in Nat
  PROVE  \E i \in S : \A j \in S : number[i] <= number[j]
<1> DEFINE T == {number[i] : i \in S}
<1>1. T \in SUBSET Nat /\ T # {}
  OBVIOUS
<1>2. \A i \in S : number[i] \in T
  OBVIOUS
<1>3. \A m \in T : \E i \in S : number[i] = m
  OBVIOUS
<1> HIDE DEF T
<1>4. PICK m \in T : \A n \in T : m <= n
  BY <1>1, LeastNumber
<1> QED
  BY <1>2, <1>3, <1>4

LEMMA CountsUpTo ==
  ASSUME NEW S, NEW number, Numbers(S, number)
  PROVE  /\ Cardinality(S) \in Nat
         /\ \A i \in S : /\ IsFiniteSet(UpTo(S, number, i))
                         /\ Cardinality(UpTo(S, number, i)) \in 1..Cardinality(S)
<1>1. IsFiniteSet(S) /\ Cardinality(S) \in Nat
  BY FS_CardinalityType DEF Numbers
<1>2. ASSUME NEW i \in S
      PROVE  /\ IsFiniteSet(UpTo(S, number, i))
             /\ Cardinality(UpTo(S, number, i)) \in 1..Cardinality(S)
  <2>1. UpTo(S, number, i) \in SUBSET S /\ i \in UpTo(S, number, i)
    BY DEF UpTo, Numbers
  <2>2. PICK U : U = UpTo(S, number, i)
    OBVIOUS
  <2>3. IsFiniteSet(U) /\ Cardinality(U) <= Cardinality(S) /\ Cardinality(U) \in Nat
    BY <1>1, <2>1, <2>2, FS_Subset, FS_CardinalityType
  <2>4. Cardinality(U) # 0
    BY <2>1, <2>2, <2>3, FS_EmptySet
  <2> QED
    BY <1>1, <2>2, <2>3, <2>4
<1> QED
  BY <1>1, <1>2

(* One member has n members up to it.                                       *)
LEMMA RankExists ==
  ASSUME NEW S, NEW number, Numbers(S, number), NEW n \in 1..Cardinality(S)
  PROVE  \E i \in S : Cardinality(UpTo(S, number, i)) = n
<1> DEFINE count(i) == Cardinality(UpTo(S, number, i))
           T == {m \in 1..Cardinality(S) : \A i \in S : count(i) # m}
<1>0. /\ IsFiniteSet(S) /\ Cardinality(S) \in Nat
      /\ \A i \in S : number[i] \in Nat
      /\ \A i, j \in S : number[i] = number[j] => i = j
  BY CountsUpTo DEF Numbers
<1>1. SUFFICES ASSUME T # {} PROVE FALSE
  OBVIOUS
<1>2. PICK m \in T : \A k \in T : m <= k
  <2>1. T \in SUBSET Nat
    BY <1>0
  <2> HIDE DEF T
  <2> QED
    BY <1>1, <2>1, LeastNumber
<1>3. m \in 1..Cardinality(S) /\ \A i \in S : count(i) # m
  OBVIOUS
<1>4. CASE m = 1
  <2>1. S # {}
    BY <1>0, <1>3, FS_EmptySet
  <2>2. PICK i \in S : \A k \in S : number[i] <= number[k]
    BY <1>0, <2>1, LowestNumbered
  <2>3. \A k \in S : number[k] <= number[i] <=> k = i
    BY <1>0, <2>2
  <2>4. UpTo(S, number, i) = {i}
    BY <2>3 DEF UpTo
  <2> QED
    BY <1>3, <1>4, <2>4, FS_Singleton
<1>5. CASE m # 1
  <2>1. m - 1 \in 1..Cardinality(S) /\ m - 1 \notin T
    BY <1>0, <1>2, <1>3, <1>5
  <2>2. PICK i \in S : count(i) = m - 1
    BY <2>1
  <2> DEFINE above == {k \in S : number[k] > number[i]}
  <2>3. above # {}
    <3> SUFFICES ASSUME above = {} PROVE FALSE
      OBVIOUS
    <3>1. \A k \in S : number[k] <= number[i]
      BY <1>0
    <3>2. UpTo(S, number, i) = S
      BY <3>1 DEF UpTo
    <3> QED
      BY <1>0, <1>3, <2>2, <3>2
  <2>4. PICK j \in above : \A k \in above : number[j] <= number[k]
    <3>1. \A k \in above : number[k] \in Nat
      BY <1>0
    <3> HIDE DEF above
    <3> QED
      BY <2>3, <3>1, LowestNumbered
  <2>5. j \in S /\ number[j] > number[i]
    BY <2>4
  <2>6. \A k \in S : number[k] <= number[j] <=> number[k] <= number[i] \/ k = j
    <3> SUFFICES ASSUME NEW k \in S
                 PROVE  number[k] <= number[j] <=> number[k] <= number[i] \/ k = j
      OBVIOUS
    <3>1. number[k] > number[i] => number[j] <= number[k]
      BY <2>4
    <3>2. number[k] = number[j] => k = j
      BY <1>0, <2>5
    <3>3. number[i] \in Nat /\ number[j] \in Nat /\ number[k] \in Nat
      BY <1>0, <2>5
    <3> QED
      BY <2>5, <3>1, <3>2, <3>3
  <2>7. /\ UpTo(S, number, j) = UpTo(S, number, i) \cup {j}
        /\ j \notin UpTo(S, number, i)
    <3>1. ~(number[j] <= number[i])
      BY <1>0, <2>5
    <3> QED
      BY <2>5, <2>6, <3>1 DEF UpTo
  <2>8. count(j) = count(i) + 1
    <3>1. PICK U : U = UpTo(S, number, i)
      OBVIOUS
    <3>2. IsFiniteSet(U)
      BY <3>1, CountsUpTo
    <3>3. Cardinality(U \cup {j}) = Cardinality(U) + 1
      BY <2>7, <3>1, <3>2, FS_AddElement
    <3> QED
      BY <2>7, <3>1, <3>3
  <2> QED
    BY <1>0, <1>3, <2>2, <2>5, <2>8
<1> QED
  BY <1>4, <1>5

LEMMA InOrderLists ==
  ASSUME NEW S, NEW number, Numbers(S, number)
  PROVE  \E f \in Seq(S) :
           /\ f = InOrder(S, number)
           /\ \A i \in S : \E n \in 1..Len(f) : f[n] = i
           /\ \A n, m \in 1..Len(f) : n < m => number[f[n]] < number[f[m]]
<1>1. PICK N, f : N = Cardinality(S) /\ f = InOrder(S, number)
  OBVIOUS
<1>2. N \in Nat /\ f = [n \in 1..N |-> CHOOSE i \in S : Cardinality(UpTo(S, number, i)) = n]
  BY <1>1, CountsUpTo DEF InOrder, UpTo
<1>3. \A n \in 1..N : f[n] \in S /\ Cardinality(UpTo(S, number, f[n])) = n
  <2> SUFFICES ASSUME NEW n \in 1..N
               PROVE  f[n] \in S /\ Cardinality(UpTo(S, number, f[n])) = n
    OBVIOUS
  <2>1. \E i \in S : Cardinality(UpTo(S, number, i)) = n
    BY <1>1, RankExists
  <2> QED
    BY <1>2, <2>1
<1>4. f \in Seq(S) /\ Len(f) = N
  <2>1. f \in [1..N -> S]
    BY <1>2, <1>3
  <2> QED
    BY <1>2, <2>1
<1>5. \A i \in S : number[i] \in Nat
  BY DEF Numbers
<1>6. ASSUME NEW i \in S, NEW j \in S, number[i] <= number[j]
      PROVE  Cardinality(UpTo(S, number, i)) <= Cardinality(UpTo(S, number, j))
  <2>1. UpTo(S, number, i) \subseteq UpTo(S, number, j)
    <3> SUFFICES ASSUME NEW k \in S, number[k] <= number[i] PROVE number[k] <= number[j]
      BY DEF UpTo
    <3> QED
      BY <1>5, <1>6
  <2>2. PICK U, V : U = UpTo(S, number, i) /\ V = UpTo(S, number, j)
    OBVIOUS
  <2>3. IsFiniteSet(V) /\ U \in SUBSET V
    BY <2>1, <2>2, CountsUpTo
  <2>4. Cardinality(U) <= Cardinality(V)
    BY ONLY <2>3, FS_Subset
  <2> QED
    BY <2>2, <2>4
<1>7. \A n, m \in 1..N : n < m => number[f[n]] < number[f[m]]
  <2> SUFFICES ASSUME NEW n \in 1..N, NEW m \in 1..N, n < m, ~(number[f[n]] < number[f[m]])
               PROVE  FALSE
    OBVIOUS
  <2>1. f[n] \in S /\ f[m] \in S /\ number[f[m]] <= number[f[n]]
    BY <1>3, <1>5
  <2>2. m <= n
    BY <1>3, <1>6, <2>1
  <2> QED
    BY <2>2
<1>8. ASSUME NEW i \in S PROVE \E n \in 1..N : f[n] = i
  <2>1. PICK n \in 1..N : n = Cardinality(UpTo(S, number, i))
    BY <1>1, CountsUpTo
  <2>2. f[n] \in S /\ Cardinality(UpTo(S, number, f[n])) = n
    BY <1>3
  <2>3. ASSUME NEW a \in S, NEW b \in S, number[a] < number[b]
        PROVE  Cardinality(UpTo(S, number, a)) < Cardinality(UpTo(S, number, b))
    <3>1. PICK U, V : U = UpTo(S, number, a) /\ V = UpTo(S, number, b)
      OBVIOUS
    <3>2. b \in V /\ b \notin U /\ U \subseteq V
      <4>1. number[a] \in Nat /\ number[b] \in Nat /\ ~(number[b] <= number[a])
        BY <1>5, <2>3
      <4>2. \A k \in S : number[k] <= number[a] => number[k] <= number[b]
        BY <1>5, <2>3
      <4> QED
        BY <3>1, <4>1, <4>2 DEF UpTo
    <3>3. IsFiniteSet(V) /\ IsFiniteSet(U) /\ Cardinality(V) \in Nat /\ Cardinality(U) \in Nat
      BY <1>2, <3>1, CountsUpTo, FS_CardinalityType
    <3>4. Cardinality(U) <= Cardinality(V) /\ (Cardinality(V) = Cardinality(U) => V = U)
      BY ONLY <3>2, <3>3, FS_Subset
    <3> QED
      BY <3>1, <3>2, <3>3, <3>4
  <2>4. Cardinality(UpTo(S, number, i)) \in Nat
    BY <2>1
  <2>5. ~(number[f[n]] < number[i]) /\ ~(number[i] < number[f[n]])
    BY <2>1, <2>2, <2>3, <2>4
  <2>6. number[f[n]] = number[i]
    BY <1>5, <2>2, <2>5
  <2> QED
    BY <2>2, <2>6 DEF Numbers
<1> QED
  BY <1>1, <1>4, <1>7, <1>8

-----------------------------------------------------------------------------
(* The walk to the root.                                                   *)

IsWalk(s, start, walk, last) ==
  walk = [n \in 0..last |-> IF n = 0 THEN <<start>> ELSE WithParent(s, walk[n - 1])]

LEMMA WalkExists ==
  ASSUME NEW s, NEW start, NEW last \in Nat
  PROVE  \E walk : IsWalk(s, start, walk, last)
<1> DEFINE T == {n \in Nat : \A walk : ~IsWalk(s, start, walk, n)}
<1>1. SUFFICES ASSUME T # {} PROVE FALSE
  OBVIOUS
<1>2. PICK n \in T : \A k \in T : n <= k
  <2>1. T \in SUBSET Nat
    OBVIOUS
  <2> HIDE DEF T
  <2> QED
    BY <1>1, <2>1, LeastNumber
<1>3. n \in Nat /\ \A walk : ~IsWalk(s, start, walk, n)
  OBVIOUS
<1>4. CASE n = 0
  <2> DEFINE first == [k \in 0..0 |-> <<start>>]
  <2>1. first = [k \in 0..0 |-> IF k = 0 THEN <<start>> ELSE WithParent(s, first[k - 1])]
    OBVIOUS
  <2> HIDE DEF first
  <2> QED
    BY <1>3, <1>4, <2>1 DEF IsWalk
<1>5. CASE n # 0
  <2>1. n - 1 \in Nat /\ n - 1 \notin T
    BY <1>2, <1>3, <1>5
  <2>2. PICK before : IsWalk(s, start, before, n - 1)
    BY <2>1
  <2> DEFINE walk == [k \in 0..n |-> IF k = n THEN WithParent(s, before[n - 1]) ELSE before[k]]
  <2>3. \A k \in 0..(n - 1) : before[k] = IF k = 0 THEN <<start>>
                                          ELSE WithParent(s, before[k - 1])
    BY <2>2 DEF IsWalk
  <2>4. /\ walk[n] = WithParent(s, walk[n - 1])
        /\ \A k \in 0..(n - 1) : walk[k] = before[k]
    BY <1>3, <1>5
  <2>5. ASSUME NEW k \in 0..n
        PROVE  walk[k] = IF k = 0 THEN <<start>> ELSE WithParent(s, walk[k - 1])
    <3>1. k = n \/ k \in 0..(n - 1)
      BY <1>3
    <3>2. k # 0 /\ k \in 0..(n - 1) => k - 1 \in 0..(n - 1)
      BY <1>3
    <3> HIDE DEF walk
    <3>3. CASE k = n
      BY <1>5, <2>4, <3>3
    <3>4. CASE k \in 0..(n - 1)
      BY <2>3, <2>4, <3>2, <3>4
    <3> QED
      BY <3>1, <3>3, <3>4
  <2>6. walk = [k \in 0..n |-> walk[k]]
    OBVIOUS
  <2> HIDE DEF walk
  <2>7. IsWalk(s, start, walk, n)
    BY <2>5, <2>6 DEF IsWalk
  <2> QED
    BY <1>3, <2>7
<1> QED
  BY <1>4, <1>5

(* What holds of a state in front of every later one holds of all.          *)
LEMMA WalkEnds ==
  ASSUME NEW last \in Nat, NEW T \in SUBSET (0..last), 0 \in T,
         \A n \in 0..last : n # 0 /\ n - 1 \in T => n \in T
  PROVE  last \in T
<1> DEFINE F == {n \in 0..last : n \notin T}
<1>1. SUFFICES ASSUME F # {} PROVE FALSE
  OBVIOUS
<1>2. PICK n \in F : \A k \in F : n <= k
  <2>1. F \in SUBSET Nat
    OBVIOUS
  <2> HIDE DEF F
  <2> QED
    BY <1>1, <2>1, LeastNumber
<1>3. n \in 0..last /\ n \notin T /\ n # 0
  OBVIOUS
<1>4. n - 1 \in 0..last /\ n - 1 \notin F
  BY <1>2, <1>3
<1> QED
  BY <1>3, <1>4

(* A branch leads from a root to the entry it is of.                        *)
IsBranch(s, start, path) ==
  /\ path \in Seq(Entries(s)) /\ path # <<>> /\ path[Len(path)] = start
  /\ \A k \in 2..Len(path) : path[k - 1] = s.parentOf[path[k]]

LEMMA WithParentBranch ==
  ASSUME NEW s \in State, TreeSound(s), NEW start, NEW path, IsBranch(s, start, path),
         s.parentOf[path[1]] # Null
  PROVE  /\ IsBranch(s, start, WithParent(s, path))
         /\ s.seqOf[WithParent(s, path)[1]] < s.seqOf[path[1]]
<1>1. PICK p : p = s.parentOf[path[1]]
  OBVIOUS
<1>2. path \in Seq(Entries(s)) /\ path # <<>> /\ path[1] \in Entries(s) /\ Len(path) \in Nat
      /\ Len(path) >= 1
  BY DEF IsBranch
<1>3. p \in Entries(s) /\ s.seqOf[p] < s.seqOf[path[1]]
  BY <1>1, <1>2 DEF TreeSound
<1>4. PICK longer : longer = <<p>> \o path
  OBVIOUS
<1>5. /\ longer \in Seq(Entries(s)) /\ Len(longer) = Len(path) + 1 /\ longer[1] = p
      /\ \A k \in 1..Len(path) : longer[k + 1] = path[k]
  BY <1>2, <1>3, <1>4
<1>6. WithParent(s, path) = longer
  BY <1>1, <1>2, <1>4 DEF WithParent
<1>7. longer # <<>> /\ longer[Len(longer)] = start
  BY <1>2, <1>5 DEF IsBranch
<1>8. ASSUME NEW k \in 2..Len(longer)
      PROVE  longer[k - 1] = s.parentOf[longer[k]]
  <2>1. CASE k = 2
    BY <1>1, <1>2, <1>5, <2>1
  <2>2. CASE k # 2
    <3>1. k - 1 \in 2..Len(path) /\ k - 2 \in 1..Len(path) /\ k - 1 \in 1..Len(path)
          /\ (k - 2) + 1 = k - 1 /\ (k - 1) + 1 = k
      BY <1>2, <1>5, <2>2
    <3>2. longer[k - 1] = path[k - 2] /\ longer[k] = path[k - 1]
      BY <1>5, <3>1
    <3>3. path[(k - 1) - 1] = s.parentOf[path[k - 1]] /\ (k - 1) - 1 = k - 2
      BY <3>1 DEF IsBranch
    <3> QED
      BY <3>2, <3>3
  <2> QED
    BY <2>1, <2>2
<1> QED
  BY <1>3, <1>5, <1>6, <1>7, <1>8 DEF IsBranch

LEMMA BranchStands ==
  ASSUME NEW s \in State, TreeSound(s), NEW start \in Entries(s)
  PROVE  /\ IsBranch(s, start, Branch(s, start))
         /\ s.parentOf[Branch(s, start)[1]] = Null
<1> DEFINE last == s.sequence
           walk == CHOOSE f : IsWalk(s, start, f, last)
           Stands(n) == /\ IsBranch(s, start, walk[n])
                        /\ \/ s.parentOf[walk[n][1]] = Null
                           \/ s.seqOf[walk[n][1]] <= last - n
           T == {n \in 0..last : Stands(n)}
<1>1. last \in Nat /\ \A i \in Entries(s) : s.seqOf[i] \in Nat /\ s.seqOf[i] > 0 /\ s.seqOf[i] <= last
  BY DEF State, TreeSound, Entries
<1>2. Branch(s, start) = walk[last]
  BY DEF Branch, IsWalk
<1>3. IsWalk(s, start, walk, last)
  BY <1>1, WalkExists
<1> HIDE DEF walk, last
<1>4. /\ walk[0] = <<start>>
      /\ \A n \in 1..last : walk[n] = WithParent(s, walk[n - 1])
  <2>1. \A n \in 0..last : walk[n] = IF n = 0 THEN <<start>> ELSE WithParent(s, walk[n - 1])
    BY <1>3 DEF IsWalk
  <2>2. 0 \in 0..last /\ \A n \in 1..last : n \in 0..last /\ n # 0
    BY <1>1
  <2> QED
    BY <2>1, <2>2
<1>5. Stands(0)
  <2>1. IsBranch(s, start, <<start>>)
    BY DEF IsBranch
  <2> QED
    BY <1>1, <1>4, <2>1
<1>6. ASSUME NEW n \in 0..last, n # 0, Stands(n - 1) PROVE Stands(n)
  <2>1. PICK before, after : before = walk[n - 1] /\ after = walk[n]
    OBVIOUS
  <2>2. n \in 1..last /\ after = WithParent(s, before) /\ IsBranch(s, start, before)
    BY <1>1, <1>4, <1>6, <2>1
  <2>3. CASE s.parentOf[before[1]] = Null
    <3>1. after = before
      <4>1. Head(before) = before[1]
        BY <2>2 DEF IsBranch
      <4> QED
        BY <2>2, <2>3, <4>1 DEF WithParent
    <3> QED
      BY <2>1, <2>2, <2>3, <3>1
  <2>4. CASE s.parentOf[before[1]] # Null
    <3>1. IsBranch(s, start, after) /\ s.seqOf[after[1]] < s.seqOf[before[1]]
      BY <2>2, <2>4, WithParentBranch
    <3>2. s.seqOf[before[1]] <= last - (n - 1)
      BY <1>6, <2>1, <2>4
    <3>3. after[1] \in Entries(s) /\ before[1] \in Entries(s)
      BY <2>2, <3>1 DEF IsBranch
    <3>4. s.seqOf[after[1]] <= last - n
      BY <1>1, <2>2, <3>1, <3>2, <3>3
    <3> QED
      BY <2>1, <3>1, <3>4
  <2> QED
    BY <2>3, <2>4
<1>7. last \in T
  <2>1. 0 \in T /\ \A n \in 0..last : n # 0 /\ n - 1 \in T => n \in T
    BY <1>1, <1>5, <1>6
  <2>2. T \in SUBSET (0..last)
    OBVIOUS
  <2> HIDE DEF T
  <2> QED
    BY <1>1, <2>1, <2>2, WalkEnds
<1>8. Stands(last)
  BY <1>7
<1>9. walk[last][1] \in Entries(s)
  BY <1>8 DEF IsBranch
<1>10. ~(s.seqOf[walk[last][1]] <= last - last)
  BY <1>1, <1>9
<1> QED
  BY <1>2, <1>8, <1>10

-----------------------------------------------------------------------------
(* What is copied.                                                          *)

Occurs(x, seq) == \E k \in 1..Len(seq) : seq[k] = x

Forkable(s, o) ==
  /\ s \in State /\ Sound(s) /\ s.lanes[Main] # Missing
  /\ IsFiniteSet({l \in Lanes : s.lanes[l] # Missing})
  /\ o \in ForkOptions /\ ForkAccepted(s, o)

(* Entries rise, and the parent of each is in front of it.                  *)
CopiesOf(s, c) ==
  /\ c \in Seq(Entries(s))
  /\ \A j, k \in 1..Len(c) : j < k => s.seqOf[c[j]] < s.seqOf[c[k]]
  /\ \A k \in 1..Len(c) : s.parentOf[c[k]] # Null =>
       \E j \in 1..(k - 1) : c[j] = s.parentOf[c[k]]

(* The whole tree, or what the target cannot do without.                    *)
CopiesAsked(s, o, c) ==
  /\ o.scope = "tree" => \A i \in Entries(s) : Occurs(i, c)
  /\ o.scope = "branch" =>
       /\ ForkTarget(s, o) # Null => Occurs(ForkTarget(s, o), c)
       /\ \A S \in SUBSET Entries(s) :
            (ForkTarget(s, o) = Null \/ ForkTarget(s, o) \in S) /\ ClosedUnderParent(s, S)
              => \A k \in 1..Len(c) : c[k] \in S

LEMMA EntriesNumbered ==
  ASSUME NEW s \in State, Sound(s), NEW S \in SUBSET Entries(s)
  PROVE  Numbers(S, s.seqOf)
<1>1. /\ s.sequence \in Nat
      /\ \A i \in S : s.seqOf[i] \in 1..s.sequence
      /\ \A i, j \in S : s.seqOf[i] = s.seqOf[j] => i = j
  BY DEF State, Sound, TreeSound, IdsSound, Entries
<1> DEFINE f == [i \in S |-> s.seqOf[i]]
<1>2. f \in Injection(S, 1..s.sequence)
  BY <1>1 DEF Injection, IsInjective
<1>3. IsFiniteSet(1..s.sequence)
  <2>1. PICK n \in Int : n = s.sequence
    BY <1>1
  <2> QED
    BY <2>1, FS_Interval
<1>4. IsFiniteSet(S)
  BY <1>2, <1>3, FS_Injection
<1> QED
  BY <1>1, <1>4 DEF Numbers

LEMMA TargetKnown ==
  ASSUME NEW s, NEW o, Forkable(s, o)
  PROVE  ForkTarget(s, o) \in Entries(s) \cup {Null}
<1>1. /\ s.lanes[Main] \in Entries(s) \cup {Null}
      /\ s.messages \subseteq Entries(s)
      /\ \A i \in Entries(s) : s.parentOf[i] \in Entries(s) \cup {Null}
  <2>1. /\ s \in State /\ TreeSound(s) /\ s.lanes[Main] # Missing
    BY DEF Forkable, Sound
  <2>2. s.lanes[Main] \in Entries(s) \cup {Null}
    BY <2>1, LanesAssumption DEF TreeSound
  <2>3. \A i \in Entries(s) : s.parentOf[i] \in Entries(s) \cup {Null}
    BY <2>1 DEF TreeSound
  <2> QED
    BY <2>1, <2>2, <2>3 DEF TreeSound
<1>2. CASE o.scope = "tree"
  BY <1>1, <1>2 DEF Forkable, ForkOptions, ForkTarget, Selected
<1>3. CASE o.scope # "tree"
  BY <1>1, <1>3 DEF Forkable, ForkAccepted, ForkTarget
<1> QED
  BY <1>2, <1>3

LEMMA BranchRises ==
  ASSUME NEW s \in State, TreeSound(s), NEW start, NEW c, IsBranch(s, start, c),
         s.parentOf[c[1]] = Null
  PROVE  CopiesOf(s, c)
<1>1. /\ c \in Seq(Entries(s)) /\ Len(c) \in Nat /\ Len(c) >= 1
      /\ \A k \in 1..Len(c) : c[k] \in Entries(s) /\ s.seqOf[c[k]] \in Nat
      /\ \A k \in 2..Len(c) : c[k - 1] = s.parentOf[c[k]]
  BY DEF IsBranch, State, Entries
<1>2. \A k \in 2..Len(c) : s.seqOf[c[k - 1]] < s.seqOf[c[k]]
  <2> SUFFICES ASSUME NEW k \in 2..Len(c) PROVE s.seqOf[c[k - 1]] < s.seqOf[c[k]]
    OBVIOUS
  <2>1. k \in 1..Len(c) /\ k - 1 \in 1..Len(c)
    BY <1>1
  <2>2. s.parentOf[c[k]] # Null
    BY <1>1, <2>1, NullAssumption DEF Entries
  <2> QED
    BY <1>1, <2>1, <2>2 DEF TreeSound
<1>3. ASSUME NEW j \in 1..Len(c), NEW m \in 1..Len(c), j < m
      PROVE  s.seqOf[c[j]] < s.seqOf[c[m]]
  <2> DEFINE T == {n \in 0..(Len(c) - j - 1) : s.seqOf[c[j]] < s.seqOf[c[j + n + 1]]}
  <2>1. Len(c) - j - 1 \in Nat /\ m - j - 1 \in 0..(Len(c) - j - 1)
    BY <1>1, <1>3
  <2>2. 0 \in T
    <3>1. j + 1 \in 2..Len(c) /\ (j + 1) - 1 = j /\ j + 0 + 1 = j + 1
      BY <1>1, <1>3
    <3>2. s.seqOf[c[j]] < s.seqOf[c[j + 1]]
      BY <1>2, <3>1
    <3> QED
      BY <2>1, <3>1, <3>2
  <2>3. ASSUME NEW n \in 0..(Len(c) - j - 1), n # 0, n - 1 \in T PROVE n \in T
    <3>1. j + n \in 1..Len(c) /\ j + n + 1 \in 2..Len(c) /\ (j + n + 1) - 1 = j + n
          /\ j + (n - 1) + 1 = j + n /\ j + n + 1 \in 1..Len(c)
      BY <1>1, <2>1, <2>3
    <3>2. s.seqOf[c[j]] < s.seqOf[c[j + n]]
      BY <2>3, <3>1
    <3>3. s.seqOf[c[j + n]] < s.seqOf[c[j + n + 1]]
      BY <1>2, <3>1
    <3>4. s.seqOf[c[j]] < s.seqOf[c[j + n + 1]]
      BY <1>1, <3>1, <3>2, <3>3
    <3> QED
      BY <3>4
  <2>4. T \in SUBSET (0..(Len(c) - j - 1))
    OBVIOUS
  <2>5. \A last \in Nat : last \in 0..(Len(c) - j - 1) => last \in T
    <3> SUFFICES ASSUME NEW last \in Nat, last \in 0..(Len(c) - j - 1) PROVE last \in T
      OBVIOUS
    <3> DEFINE U == {n \in T : n \in 0..last}
    <3>1. U \in SUBSET (0..last) /\ 0 \in U
      BY <2>2
    <3>2. \A n \in 0..last : n # 0 /\ n - 1 \in U => n \in U
      BY <2>1, <2>3
    <3> HIDE DEF U, T
    <3>3. last \in U
      BY <3>1, <3>2, WalkEnds
    <3> USE DEF U
    <3> QED
      BY <3>3
  <2>6. m - j - 1 \in T /\ j + (m - j - 1) + 1 = m
    <3>1. PICK last \in Nat : last = m - j - 1
      BY <1>3, <2>1
    <3>2. j + last + 1 = m
      BY <1>1, <3>1
    <3> HIDE DEF T
    <3> QED
      BY <2>1, <2>5, <3>1, <3>2
  <2> QED
    BY <2>6
<1>4. ASSUME NEW k \in 1..Len(c), s.parentOf[c[k]] # Null
      PROVE  \E j \in 1..(k - 1) : c[j] = s.parentOf[c[k]]
  <2>1. k # 1 /\ k \in 2..Len(c) /\ k - 1 \in 1..(k - 1)
    BY <1>1, <1>4
  <2> QED
    BY <1>1, <2>1
<1> QED
  BY <1>1, <1>3, <1>4 DEF CopiesOf

(* Every member of a branch is in each set that is closed under parents and *)
(* has its end.                                                            *)
LEMMA BranchClosed ==
  ASSUME NEW s, NEW start, NEW c, IsBranch(s, start, c), Null \notin Entries(s),
         NEW S \in SUBSET Entries(s), start \in S, ClosedUnderParent(s, S)
  PROVE  \A k \in 1..Len(c) : c[k] \in S
<1>1. /\ Len(c) \in Nat /\ Len(c) >= 1 /\ c[Len(c)] = start
      /\ \A k \in 1..Len(c) : c[k] \in Entries(s)
      /\ \A k \in 2..Len(c) : c[k - 1] = s.parentOf[c[k]]
  BY DEF IsBranch
<1> DEFINE T(last) == {n \in 0..last : c[Len(c) - n] \in S}
<1>2. ASSUME NEW last \in Nat, last < Len(c) PROVE last \in T(last)
  <2>1. 0 \in T(last)
    BY <1>1, <1>2
  <2>2. ASSUME NEW n \in 0..last, n # 0, n - 1 \in T(last) PROVE n \in T(last)
    <3>1. Len(c) - (n - 1) \in 2..Len(c) /\ (Len(c) - (n - 1)) - 1 = Len(c) - n
          /\ Len(c) - n \in 1..Len(c)
      BY <1>1, <1>2, <2>2
    <3>2. PICK k \in 2..Len(c) : k = Len(c) - (n - 1) /\ k - 1 = Len(c) - n
      BY <3>1
    <3>3. c[k] \in S
      BY <2>2, <3>2
    <3>4. c[k - 1] = s.parentOf[c[k]] /\ c[k - 1] # Null
      BY <1>1, <3>1, <3>2
    <3>5. c[k - 1] \in S
      BY <3>3, <3>4 DEF ClosedUnderParent
    <3> QED
      BY <3>2, <3>5
  <2>3. T(last) \in SUBSET (0..last)
    OBVIOUS
  <2>4. PICK U : U = T(last)
    OBVIOUS
  <2>5. /\ U \in SUBSET (0..last) /\ 0 \in U
        /\ \A n \in 0..last : n # 0 /\ n - 1 \in U => n \in U
    BY <2>1, <2>2, <2>3, <2>4
  <2>6. last \in U
    BY ONLY <1>2, <2>5, WalkEnds
  <2> QED
    BY <2>4, <2>6
<1>3. ASSUME NEW k \in 1..Len(c) PROVE c[k] \in S
  <2>1. PICK n \in Nat : n = Len(c) - k /\ n < Len(c)
    <3>1. Len(c) - k \in Nat /\ Len(c) - k < Len(c)
      BY <1>1
    <3> QED
      BY <3>1
  <2>2. c[Len(c) - n] \in S /\ Len(c) - n = k
    BY <1>1, <1>2, <2>1
  <2> QED
    BY <2>2
<1> QED
  BY <1>3

LEMMA CopiesFollow ==
  ASSUME NEW s, NEW o, Forkable(s, o)
  PROVE  CopiesOf(s, CopiedEntries(s, o)) /\ CopiesAsked(s, o, CopiedEntries(s, o))
<1>1. s \in State /\ Sound(s) /\ TreeSound(s) /\ Null \notin Entries(s)
      /\ o.scope \in {"tree", "branch"}
  BY NullAssumption DEF Forkable, Sound, Entries, ForkOptions
<1>2. PICK c : c = CopiedEntries(s, o)
  OBVIOUS
<1>3. CASE o.scope = "tree"
  <2>1. Numbers(Entries(s), s.seqOf)
    BY <1>1, EntriesNumbered
  <2>2. /\ c \in Seq(Entries(s))
        /\ \A i \in Entries(s) : \E n \in 1..Len(c) : c[n] = i
        /\ \A n, m \in 1..Len(c) : n < m => s.seqOf[c[n]] < s.seqOf[c[m]]
    BY <1>2, <1>3, <2>1, InOrderLists DEF CopiedEntries, AllEntries
  <2>3. ASSUME NEW k \in 1..Len(c), s.parentOf[c[k]] # Null
        PROVE  \E j \in 1..(k - 1) : c[j] = s.parentOf[c[k]]
    <3>1. c[k] \in Entries(s)
      BY <2>2
    <3>2. s.parentOf[c[k]] \in Entries(s) /\ s.seqOf[s.parentOf[c[k]]] < s.seqOf[c[k]]
      BY <1>1, <2>3, <3>1 DEF TreeSound
    <3>3. PICK j \in 1..Len(c) : c[j] = s.parentOf[c[k]]
      BY <2>2, <3>2
    <3>4. s.seqOf[c[j]] \in Nat /\ s.seqOf[c[k]] \in Nat
      BY <1>1, <3>1, <3>2, <3>3 DEF State, Entries
    <3>5. ~(k < j) /\ k # j
      <4>1. s.seqOf[c[j]] < s.seqOf[c[k]]
        BY <3>2, <3>3
      <4>2. k < j => s.seqOf[c[k]] < s.seqOf[c[j]]
        BY <2>2, <3>3
      <4> QED
        BY <3>4, <4>1, <4>2
    <3> QED
      BY <2>2, <3>3, <3>5
  <2>4. CopiesOf(s, c)
    BY <2>2, <2>3 DEF CopiesOf
  <2> QED
    BY <1>2, <1>3, <2>2, <2>4 DEF CopiesAsked, Occurs
<1>4. CASE o.scope = "branch" /\ ForkTarget(s, o) = Null
  <2>1. c = <<>>
    BY <1>2, <1>4 DEF CopiedEntries
  <2> QED
    BY <1>2, <1>4, <2>1 DEF CopiesOf, CopiesAsked
<1>5. CASE o.scope = "branch" /\ ForkTarget(s, o) # Null
  <2>1. PICK target \in Entries(s) : target = ForkTarget(s, o)
    BY <1>5, TargetKnown
  <2>2. c = Branch(s, target)
    BY <1>2, <1>5, <2>1 DEF CopiedEntries
  <2>3. IsBranch(s, target, c) /\ s.parentOf[c[1]] = Null
    BY <1>1, <2>2, BranchStands
  <2>4. CopiesOf(s, c)
    BY <1>1, <2>3, BranchRises
  <2>5. Occurs(target, c)
    BY <2>3 DEF IsBranch, Occurs
  <2>6. ASSUME NEW S \in SUBSET Entries(s), target \in S, ClosedUnderParent(s, S)
        PROVE  \A k \in 1..Len(c) : c[k] \in S
    BY <1>1, <2>3, <2>6, BranchClosed
  <2> QED
    BY <1>2, <1>5, <2>1, <2>4, <2>5, <2>6 DEF CopiesAsked
<1> QED
  BY <1>1, <1>3, <1>4, <1>5

-----------------------------------------------------------------------------
(* The lanes of a fork.                                                     *)

Goal(s, o) ==
  IF o.scope = "tree" THEN s.lanes ELSE [EmptyState.lanes EXCEPT ![Main] = ForkTarget(s, o)]

LaneRecord == [lane : Lanes, leaf : Ids \cup {Null}]

LanesOf(s, o, c, l) ==
  /\ l \in Seq(LaneRecord)
  /\ \A k \in 1..Len(l) : l[k].leaf # Null => Occurs(l[k].leaf, c)
  /\ \A k \in 1..Len(l) : l[k].leaf = Goal(s, o)[l[k].lane]
  /\ \A a \in Lanes : (\A k \in 1..Len(l) : l[k].lane # a) => Goal(s, o)[a] = EmptyState.lanes[a]

LEMMA SetToSeqLists ==
  ASSUME NEW S, IsFiniteSet(S)
  PROVE  SetToSeq(S) \in Seq(S) /\ \A x \in S : Occurs(x, SetToSeq(S))
<1>1. PICK N, f : N = Cardinality(S) /\ f = SetToSeq(S)
  OBVIOUS
<1>2. N \in Nat /\ ExistsBijection(1..N, S) /\ IsFiniteSet(1..N) /\ Cardinality(1..N) = N
  BY <1>1, FS_CardinalityType, FS_Interval
<1>3. \E g \in [1..N -> S] : IsInjective(g)
  BY <1>2 DEF ExistsBijection, Bijection, Injection
<1>4. f \in [1..N -> S] /\ IsInjective(f)
  BY <1>1, <1>3 DEF SetToSeq
<1>5. f \in Injection(1..N, S)
  BY <1>4 DEF Injection
<1>6. f \in Surjection(1..N, S)
  BY <1>1, <1>2, <1>5, FS_Injection
<1>7. \A x \in S : \E n \in 1..N : f[n] = x
  BY <1>4, <1>6 DEF Surjection
<1>8. f \in Seq(S) /\ Len(f) = N
  BY <1>2, <1>4
<1> QED
  BY <1>1, <1>7, <1>8 DEF Occurs

LEMMA LanesFollow ==
  ASSUME NEW s, NEW o, Forkable(s, o), NEW c, CopiesAsked(s, o, c)
  PROVE  LanesOf(s, o, c, ForkLanes(s, o))
<1>1. PICK l : l = ForkLanes(s, o)
  OBVIOUS
<1>2. /\ s.lanes \in [Lanes -> Ids \cup {Null, Missing}] /\ s.lanes[Main] # Missing
      /\ \A a \in Lanes : s.lanes[a] \in Entries(s) \cup {Null, Missing}
      /\ Entries(s) \subseteq Ids
      /\ o.scope \in {"tree", "branch"}
  BY DEF Forkable, Sound, TreeSound, State, Entries, ForkOptions
<1>3. \A a \in Lanes : EmptyState.lanes[a] = IF a = Main THEN Null ELSE Missing
  BY DEF EmptyState
<1>4. CASE o.scope = "tree"
  <2> DEFINE K == {k \in Lanes : s.lanes[k] # Missing}
             S == {[lane |-> k, leaf |-> s.lanes[k]] : k \in K}
  <2>1. IsFiniteSet(S)
    <3> DEFINE f == [k \in K |-> [lane |-> k, leaf |-> s.lanes[k]]]
    <3>1. IsFiniteSet(K)
      BY DEF Forkable
    <3>2. f \in Surjection(K, S)
      BY DEF Surjection
    <3> HIDE DEF f, K, S
    <3> QED
      BY <3>1, <3>2, FS_Surjection
  <2>2. l = SetToSeq(S)
    BY <1>1, <1>4 DEF ForkLanes
  <2>3. l \in Seq(S) /\ \A x \in S : Occurs(x, l)
    <3> HIDE DEF S
    <3> QED
      BY <2>1, <2>2, SetToSeqLists
  <2>4. \A x \in S : /\ x.lane \in Lanes /\ x.leaf = s.lanes[x.lane]
                     /\ x.leaf \in Entries(s) \cup {Null} /\ x \in LaneRecord
    BY <1>2 DEF LaneRecord
  <2>5. \A k \in 1..Len(l) : l[k] \in S
    BY <2>3
  <2>6. l \in Seq(LaneRecord)
    <3>1. S \subseteq LaneRecord
      BY <2>4
    <3> HIDE DEF S
    <3> QED
      BY <2>3, <3>1
  <2>7. \A k \in 1..Len(l) : /\ l[k].leaf # Null => Occurs(l[k].leaf, c)
                             /\ l[k].leaf = Goal(s, o)[l[k].lane]
    BY <1>4, <2>4, <2>5 DEF CopiesAsked, Goal
  <2>8. ASSUME NEW a \in Lanes, \A k \in 1..Len(l) : l[k].lane # a
        PROVE  Goal(s, o)[a] = EmptyState.lanes[a]
    <3>1. s.lanes[a] = Missing
      <4> SUFFICES ASSUME s.lanes[a] # Missing PROVE FALSE
        OBVIOUS
      <4>1. [lane |-> a, leaf |-> s.lanes[a]] \in S
        OBVIOUS
      <4> HIDE DEF S
      <4>2. PICK k \in 1..Len(l) : l[k] = [lane |-> a, leaf |-> s.lanes[a]]
        BY <2>3, <4>1 DEF Occurs
      <4> QED
        BY <2>8, <4>2
    <3> QED
      BY <1>2, <1>3, <1>4, <3>1 DEF Goal
  <2> QED
    BY <1>1, <2>6, <2>7, <2>8 DEF LanesOf
<1>5. CASE o.scope = "branch"
  <2>1. PICK t : t = ForkTarget(s, o) /\ t \in Entries(s) \cup {Null}
    BY TargetKnown
  <2>2. l = <<[lane |-> Main, leaf |-> t]>>
    BY <1>1, <1>5, <2>1 DEF ForkLanes
  <2>3. l \in Seq(LaneRecord) /\ Len(l) = 1 /\ l[1].lane = Main /\ l[1].leaf = t
    <3>1. PICK r \in LaneRecord : r = [lane |-> Main, leaf |-> t]
      BY <1>2, <2>1, LanesAssumption DEF LaneRecord
    <3>2. r.lane = Main /\ r.leaf = t
      BY <3>1
    <3>3. l = <<r>>
      BY <2>2, <3>1
    <3> QED
      BY <3>2, <3>3
  <2>4. EmptyState.lanes \in [Lanes -> {Null, Missing}]
    BY DEF EmptyState
  <2>5. Goal(s, o)[Main] = t /\ \A a \in Lanes : a # Main => Goal(s, o)[a] = EmptyState.lanes[a]
    <3>1. Goal(s, o) = [EmptyState.lanes EXCEPT ![Main] = t]
      BY <1>5, <2>1 DEF Goal
    <3> QED
      BY <2>4, <3>1, LanesAssumption
  <2>6. t # Null => Occurs(t, c)
    BY <1>5, <2>1 DEF CopiesAsked
  <2>7. \A k \in 1..Len(l) : k = 1
    BY <2>3
  <2> QED
    BY <1>1, <2>3, <2>5, <2>6, <2>7 DEF LanesOf
<1> QED
  BY <1>2, <1>4, <1>5

-----------------------------------------------------------------------------
(* The mutations of a fork.                                                 *)

LabelsOf(s, c, b) ==
  /\ b \in Seq(Entries(s))
  /\ \A i : Occurs(i, b) <=> Occurs(i, c) /\ i \in s.labels

Plan(s, o, c, l, b) ==
  Forkable(s, o) /\ CopiesOf(s, c) /\ CopiesAsked(s, o, c) /\ LanesOf(s, o, c, l)
  /\ LabelsOf(s, c, b)

NameCount(s) == IF s.name = "set" THEN 1 ELSE 0

EntryMutation(s, i, k) ==
  [kind |-> "entry", seq |-> k, id |-> i, lane |-> Null, ref |-> s.parentOf[i],
   type |-> IF i \in s.messages THEN "message" ELSE "custom"]
LaneMutation(p, k) ==
  [kind |-> "lane", seq |-> k, id |-> Null, lane |-> p.lane, ref |-> p.leaf, type |-> "set"]
NameMutation(k) ==
  [kind |-> "name", seq |-> k, id |-> Null, lane |-> Null, ref |-> Null, type |-> "set"]
LabelMutation(i, k) ==
  [kind |-> "label", seq |-> k, id |-> i, lane |-> Null, ref |-> Null, type |-> "set"]

LogOf(s, c, l, b, log) ==
  /\ Len(log) = Len(c) + Len(l) + NameCount(s) + Len(b)
  /\ \A j \in 1..Len(c) : log[j] = EntryMutation(s, c[j], j)
  /\ \A j \in 1..Len(l) : log[Len(c) + j] = LaneMutation(l[j], Len(c) + j)
  /\ s.name = "set" => log[Len(c) + Len(l) + 1] = NameMutation(Len(c) + Len(l) + 1)
  /\ \A j \in 1..Len(b) :
       log[Len(c) + Len(l) + NameCount(s) + j] =
         LabelMutation(b[j], Len(c) + Len(l) + NameCount(s) + j)

(* f is one list after another.                                             *)
TwoListed(f, A, B) ==
  /\ Len(f) = Len(A) + Len(B)
  /\ \A j \in 1..Len(A) : f[j] = A[j]
  /\ \A j \in 1..Len(B) : f[Len(A) + j] = B[j]

LEMMA Joined ==
  ASSUME NEW X, NEW A, NEW B, A \in Seq(X), B \in Seq(X)
  PROVE  A \o B \in Seq(X) /\ TwoListed(A \o B, A, B)
<1>1. PICK both, p, q : both = A \o B /\ p = Len(A) /\ q = Len(B)
  OBVIOUS
<1>2. /\ both \in Seq(X) /\ Len(both) = p + q
      /\ \A i \in 1..(p + q) : both[i] = IF i <= p THEN A[i] ELSE B[i - p]
  BY <1>1, ConcatProperties
<1>0. p \in Nat /\ q \in Nat
  BY <1>1
<1>3. \A j \in 1..p : both[j] = A[j]
  <2> SUFFICES ASSUME NEW j \in 1..p PROVE both[j] = A[j]
    OBVIOUS
  <2>1. j \in 1..(p + q) /\ j <= p
    BY <1>0
  <2> QED
    BY ONLY <1>2, <2>1
<1>4. \A j \in 1..q : both[p + j] = B[j]
  <2> SUFFICES ASSUME NEW j \in 1..q PROVE both[p + j] = B[j]
    OBVIOUS
  <2>1. p + j \in 1..(p + q) /\ ~(p + j <= p) /\ (p + j) - p = j
    BY <1>0
  <2> QED
    BY ONLY <1>2, <2>1
<1> QED
  BY <1>1, <1>2, <1>3, <1>4 DEF TwoListed

(* Four lists, one after another.                                           *)
LEMMA FourJoined ==
  ASSUME NEW X, NEW A, NEW B, NEW C, NEW D,
         A \in Seq(X), B \in Seq(X), C \in Seq(X), D \in Seq(X)
  PROVE  \E AB, ABC \in Seq(X) :
           /\ TwoListed(AB, A, B) /\ TwoListed(ABC, AB, C)
           /\ TwoListed(A \o B \o C \o D, ABC, D)
<1>1. PICK AB : AB = A \o B
  OBVIOUS
<1>2. AB \in Seq(X) /\ TwoListed(AB, A, B)
  BY <1>1, Joined
<1>3. PICK ABC : ABC = AB \o C
  OBVIOUS
<1>4. ABC \in Seq(X) /\ TwoListed(ABC, AB, C)
  BY <1>2, <1>3, Joined
<1>5. TwoListed(ABC \o D, ABC, D)
  BY <1>4, Joined
<1> QED
  BY <1>1, <1>2, <1>3, <1>4, <1>5

LEMMA LogMade ==
  ASSUME NEW s, NEW o, Forkable(s, o), NEW c, NEW l, NEW b, Plan(s, o, c, l, b),
         c = CopiedEntries(s, o), l = ForkLanes(s, o),
         b = InOrder(ToSet(c) \cap s.labels, s.seqOf)
  PROVE  LogOf(s, c, l, b, CreateForkMutations(s, o))
<1> DEFINE entry(i) == [kind |-> "entry", id |-> i, lane |-> Null, ref |-> s.parentOf[i],
                        type |-> IF i \in s.messages THEN "message" ELSE "custom"]
           lane(p) == [kind |-> "lane", id |-> Null, lane |-> p.lane, ref |-> p.leaf,
                       type |-> "set"]
           name == [kind |-> "name", id |-> Null, lane |-> Null, ref |-> Null, type |-> "set"]
           label(i) == [kind |-> "label", id |-> i, lane |-> Null, ref |-> Null, type |-> "set"]
           all == [k \in 1..Len(c) |-> entry(c[k])] \o [k \in 1..Len(l) |-> lane(l[k])]
                    \o (IF s.name = "set" THEN <<name>> ELSE <<>>)
                    \o [k \in 1..Len(b) |-> label(b[k])]
<1>1. CreateForkMutations(s, o) =
        [k \in 1..Len(all) |->
           [kind |-> all[k].kind, seq |-> k, id |-> all[k].id, lane |-> all[k].lane,
            ref |-> all[k].ref, type |-> all[k].type]]
  BY DEF CreateForkMutations
<1>2. PICK p \in Nat, q \in Nat, r \in Nat, n \in Nat :
        p = Len(c) /\ q = Len(l) /\ r = NameCount(s) /\ n = Len(b)
  <2>1. c \in Seq(Entries(s)) /\ l \in Seq(LaneRecord) /\ b \in Seq(Entries(s))
    BY DEF Plan, CopiesOf, LanesOf, LabelsOf
  <2>2. Len(c) \in Nat /\ Len(l) \in Nat /\ Len(b) \in Nat
    BY <2>1
  <2>3. NameCount(s) \in Nat
    BY DEF NameCount
  <2> QED
    BY <2>2, <2>3
<1>3. PICK A, B, C, D : /\ A = [k \in 1..p |-> entry(c[k])]
                        /\ B = [k \in 1..q |-> lane(l[k])]
                        /\ C = [k \in 1..r |-> name]
                        /\ D = [k \in 1..n |-> label(b[k])]
  OBVIOUS
<1>4. all = A \o B \o C \o D
  <2>1. (IF s.name = "set" THEN <<name>> ELSE <<>>) = C
    <3>1. CASE s.name = "set"
      <4>1. r = 1
        BY <1>2, <3>1 DEF NameCount
      <4> HIDE DEF name
      <4> QED
        BY <1>3, <3>1, <4>1
    <3>2. CASE s.name # "set"
      <4>1. r = 0
        BY <1>2, <3>2 DEF NameCount
      <4> HIDE DEF name
      <4> QED
        BY <1>3, <3>2, <4>1
    <3> QED
      BY <3>1, <3>2
  <2> HIDE DEF entry, lane, name, label
  <2> QED
    BY <1>2, <1>3, <2>1
<1>5. PICK X : /\ A \in [1..p -> X] /\ B \in [1..q -> X]
               /\ C \in [1..r -> X] /\ D \in [1..n -> X]
  <2> HIDE DEF entry, lane, name, label
  <2>1. /\ A \in [1..p -> {A[k] : k \in 1..p}] /\ B \in [1..q -> {B[k] : k \in 1..q}]
        /\ C \in [1..r -> {C[k] : k \in 1..r}] /\ D \in [1..n -> {D[k] : k \in 1..n}]
    BY <1>3
  <2>2. PICK P, Q, R, N : A \in [1..p -> P] /\ B \in [1..q -> Q] /\ C \in [1..r -> R]
                          /\ D \in [1..n -> N]
    BY <2>1
  <2>3. /\ A \in [1..p -> P \cup Q \cup R \cup N] /\ B \in [1..q -> P \cup Q \cup R \cup N]
        /\ C \in [1..r -> P \cup Q \cup R \cup N] /\ D \in [1..n -> P \cup Q \cup R \cup N]
    BY ONLY <2>2
  <2> QED
    BY <2>3
<1>a. PICK joined : joined = A \o B \o C \o D
  OBVIOUS
<1>b. /\ A \in Seq(X) /\ Len(A) = p /\ B \in Seq(X) /\ Len(B) = q
      /\ C \in Seq(X) /\ Len(C) = r /\ D \in Seq(X) /\ Len(D) = n
  <2>1. p \in Nat /\ q \in Nat /\ r \in Nat /\ n \in Nat
    OBVIOUS
  <2> QED
    BY ONLY <1>5, <2>1
<1>c. PICK AB, ABC \in Seq(X) : /\ TwoListed(AB, A, B) /\ TwoListed(ABC, AB, C)
                                /\ TwoListed(joined, ABC, D)
  BY <1>a, <1>b, FourJoined
<1>d. /\ Len(AB) = p + q
      /\ \A j \in 1..p : AB[j] = A[j]
      /\ \A j \in 1..q : AB[p + j] = B[j]
  BY <1>b, <1>c DEF TwoListed
<1>e. /\ Len(ABC) = p + q + r
      /\ \A j \in 1..(p + q) : ABC[j] = AB[j]
      /\ \A j \in 1..r : ABC[p + q + j] = C[j]
  BY <1>b, <1>c, <1>d DEF TwoListed
<1>f. /\ Len(joined) = p + q + r + n
      /\ \A j \in 1..(p + q + r) : joined[j] = ABC[j]
      /\ \A j \in 1..n : joined[p + q + r + j] = D[j]
  BY <1>b, <1>c, <1>e DEF TwoListed
<1>6. /\ Len(joined) = p + q + r + n
      /\ \A j \in 1..p : joined[j] = A[j]
      /\ \A j \in 1..q : joined[p + j] = B[j]
      /\ \A j \in 1..r : joined[p + q + j] = C[j]
      /\ \A j \in 1..n : joined[p + q + r + j] = D[j]
  <2>0. p \in Nat /\ q \in Nat /\ r \in Nat
    OBVIOUS
  <2>1. \A j \in 1..p : j \in 1..(p + q) /\ j \in 1..(p + q + r)
    BY ONLY <2>0
  <2>2. \A j \in 1..q : p + j \in 1..(p + q) /\ p + j \in 1..(p + q + r)
    BY ONLY <2>0
  <2>3. \A j \in 1..r : p + q + j \in 1..(p + q + r)
    BY ONLY <2>0
  <2>4. \A j \in 1..p : joined[j] = A[j]
    BY ONLY <1>d, <1>e, <1>f, <2>1
  <2>5. \A j \in 1..q : joined[p + j] = B[j]
    BY ONLY <1>d, <1>e, <1>f, <2>2
  <2>6. \A j \in 1..r : joined[p + q + j] = C[j]
    BY ONLY <1>e, <1>f, <2>3
  <2> QED
    BY <1>f, <2>4, <2>5, <2>6
<1>7. joined = all
  BY <1>4, <1>a
<1>8. PICK log : log = CreateForkMutations(s, o)
  OBVIOUS
<1> HIDE DEF all
<1>9. /\ Len(log) = p + q + r + n
      /\ \A k \in 1..(p + q + r + n) : log[k] =
           [kind |-> joined[k].kind, seq |-> k, id |-> joined[k].id, lane |-> joined[k].lane,
            ref |-> joined[k].ref, type |-> joined[k].type]
  <2>1. p + q + r + n \in Nat
    OBVIOUS
  <2>2. log = [k \in 1..Len(joined) |->
                 [kind |-> joined[k].kind, seq |-> k, id |-> joined[k].id,
                  lane |-> joined[k].lane, ref |-> joined[k].ref, type |-> joined[k].type]]
    BY <1>1, <1>7, <1>8
  <2>3. Len(joined) = p + q + r + n
    BY <1>6
  <2> HIDE DEF entry, lane, name, label
  <2> QED
    BY ONLY <2>1, <2>2, <2>3
<1>10. ASSUME NEW j \in 1..p PROVE log[j] = EntryMutation(s, c[j], j)
  <2>1. j \in 1..(p + q + r + n) /\ joined[j] = A[j]
    <3>1. j \in 1..(p + q + r + n)
      OBVIOUS
    <3> QED
      BY <1>6, <3>1
  <2>2. A[j] = entry(c[j])
    BY <1>3
  <2> QED
    BY <1>9, <2>1, <2>2 DEF EntryMutation
<1>11. ASSUME NEW j \in 1..q PROVE log[p + j] = LaneMutation(l[j], p + j)
  <2>1. PICK k \in 1..(p + q + r + n) : k = p + j
    <3>1. p + j \in 1..(p + q + r + n)
      OBVIOUS
    <3> QED
      BY <3>1
  <2>2. joined[k] = B[j]
    BY <1>6, <2>1
  <2>3. B[j] = lane(l[j])
    BY <1>3
  <2>4. log[k] = LaneMutation(l[j], k)
    BY <1>9, <2>2, <2>3 DEF LaneMutation
  <2> QED
    BY <2>1, <2>4
<1>12. ASSUME s.name = "set" PROVE log[p + q + 1] = NameMutation(p + q + 1)
  <2>1. r = 1
    BY <1>2, <1>12 DEF NameCount
  <2>2. PICK k \in 1..(p + q + r + n) : k = p + q + 1
    BY <1>2, <2>1
  <2>3. joined[k] = C[1]
    <3>1. 1 \in 1..r /\ k = p + q + 1
      BY <2>1, <2>2
    <3> QED
      BY ONLY <1>6, <3>1
  <2>4. C[1] = name
    BY <1>3, <2>1
  <2>5. log[k] = NameMutation(k)
    BY <1>9, <2>3, <2>4 DEF NameMutation
  <2> QED
    BY <2>2, <2>5
<1>13. ASSUME NEW j \in 1..n PROVE log[p + q + r + j] = LabelMutation(b[j], p + q + r + j)
  <2>1. PICK k \in 1..(p + q + r + n) : k = p + q + r + j
    <3>1. p + q + r + j \in 1..(p + q + r + n)
      OBVIOUS
    <3> QED
      BY <3>1
  <2>2. joined[k] = D[j]
    BY ONLY <1>6, <2>1, j \in 1..n
  <2>3. D[j] = label(b[j])
    BY <1>3
  <2>4. log[k] = [kind |-> joined[k].kind, seq |-> k, id |-> joined[k].id, lane |-> joined[k].lane,
                  ref |-> joined[k].ref, type |-> joined[k].type]
    BY ONLY <1>9, <2>1
  <2>5. log[k] = LabelMutation(b[j], k)
    <3>1. PICK x, y : x = D[j] /\ y = log[k]
      OBVIOUS
    <3>2. x = [kind |-> "label", id |-> b[j], lane |-> Null, ref |-> Null, type |-> "set"]
      BY <2>3, <3>1
    <3>3. y = [kind |-> x.kind, seq |-> k, id |-> x.id, lane |-> x.lane, ref |-> x.ref,
               type |-> x.type]
      BY <2>2, <2>4, <3>1
    <3>4. y = LabelMutation(b[j], k)
      BY ONLY <3>2, <3>3 DEF LabelMutation
    <3> QED
      BY <3>1, <3>4
  <2> QED
    BY <2>1, <2>5
<1>14. LogOf(s, c, l, b, log)
  <2> HIDE DEF entry, lane, name, label
  <2> QED
    BY <1>2, <1>9, <1>10, <1>11, <1>12, <1>13 DEF LogOf
<1> QED
  BY <1>8, <1>14

-----------------------------------------------------------------------------
(* The state after the first k mutations.                                   *)

ForkedEntries(s, c, k, t) ==
  /\ \A j \in 1..Len(c) : t.seqOf[c[j]] = IF j <= k THEN j ELSE 0
  /\ \A i \in Ids : ~Occurs(i, c) => t.seqOf[i] = 0
  /\ t.usedIds = Entries(t)
  /\ \A i \in Entries(t) : t.parentOf[i] = s.parentOf[i]
  /\ t.messages = s.messages \cap Entries(t)

ForkedLanes(s, o, c, l, k, t) ==
  /\ \A a \in Lanes :
       t.lanes[a] = IF \E j \in 1..Len(l) : Len(c) + j <= k /\ l[j].lane = a
                    THEN Goal(s, o)[a] ELSE EmptyState.lanes[a]
  /\ t.open = EmptyState.open

ForkedFacts(s, c, l, b, k, t) ==
  /\ t.name = IF s.name = "set" /\ k > Len(c) + Len(l) THEN "set" ELSE "unset"
  /\ \A i : i \in t.labels <=>
       \E j \in 1..Len(b) : Len(c) + Len(l) + NameCount(s) + j <= k /\ b[j] = i

Forked(s, o, c, l, b, k, t) ==
  /\ t \in State /\ t.sequence = k
  /\ ForkedEntries(s, c, k, t) /\ ForkedLanes(s, o, c, l, k, t) /\ ForkedFacts(s, c, l, b, k, t)

LEMMA PlanTypes ==
  ASSUME NEW s, NEW o, NEW c, NEW l, NEW b, Plan(s, o, c, l, b)
  PROVE  /\ s \in State /\ Entries(s) \subseteq Ids
         /\ Len(c) \in Nat /\ Len(l) \in Nat /\ Len(b) \in Nat /\ NameCount(s) \in 0..1
         /\ \A j \in 1..Len(c) : c[j] \in Entries(s)
         /\ \A j \in 1..Len(l) : l[j].lane \in Lanes /\ l[j].leaf \in Ids \cup {Null}
         /\ \A j \in 1..Len(b) : b[j] \in Entries(s)
         /\ \A j, k \in 1..Len(c) : c[j] = c[k] => j = k
         /\ \A i \in Entries(s) : s.parentOf[i] \in Ids \cup {Null}
<1>1. c \in Seq(Entries(s)) /\ l \in Seq(LaneRecord) /\ b \in Seq(Entries(s)) /\ s \in State
  BY DEF Plan, CopiesOf, LanesOf, LabelsOf, Forkable
<1>2. \A j \in 1..Len(c) : c[j] \in Entries(s) /\ s.seqOf[c[j]] \in Nat
  BY <1>1 DEF State, Entries
<1>3. \A j, k \in 1..Len(c) : c[j] = c[k] => j = k
  <2> SUFFICES ASSUME NEW j \in 1..Len(c), NEW k \in 1..Len(c), c[j] = c[k], j < k PROVE FALSE
    BY <1>1
  <2>1. s.seqOf[c[j]] < s.seqOf[c[k]]
    BY DEF Plan, CopiesOf
  <2> QED
    BY <1>2, <2>1
<1>4. Entries(s) \subseteq Ids /\ \A i \in Entries(s) : s.parentOf[i] \in Ids \cup {Null}
  BY <1>1 DEF State, Entries
<1>5. \A j \in 1..Len(l) : l[j].lane \in Lanes /\ l[j].leaf \in Ids \cup {Null}
  <2>1. \A j \in 1..Len(l) : l[j] \in LaneRecord
    BY <1>1
  <2> QED
    BY <2>1 DEF LaneRecord
<1>6. Len(c) \in Nat /\ Len(l) \in Nat /\ Len(b) \in Nat /\ \A j \in 1..Len(b) : b[j] \in Entries(s)
  BY <1>1
<1> QED
  BY <1>1, <1>2, <1>3, <1>4, <1>5, <1>6 DEF NameCount

LEMMA EntriesKept ==
  ASSUME NEW s, NEW c, Len(c) \in Nat, NEW k \in Nat, k >= Len(c), NEW t, NEW u,
         ForkedEntries(s, c, k, t),
         u.seqOf = t.seqOf, u.usedIds = t.usedIds, u.parentOf = t.parentOf,
         u.messages = t.messages
  PROVE  ForkedEntries(s, c, k + 1, u)
<1>1. Entries(u) = Entries(t)
  BY DEF Entries
<1>2. \A j \in 1..Len(c) : (j <= k) /\ (j <= k + 1)
  OBVIOUS
<1> QED
  BY <1>1, <1>2 DEF ForkedEntries

LEMMA LanesKept ==
  ASSUME NEW s, NEW o, NEW c, NEW l, Len(c) \in Nat, Len(l) \in Nat, NEW k \in Nat,
         k < Len(c) \/ k >= Len(c) + Len(l), NEW t, NEW u,
         ForkedLanes(s, o, c, l, k, t), u.lanes = t.lanes, u.open = t.open
  PROVE  ForkedLanes(s, o, c, l, k + 1, u)
<1>1. \A j \in 1..Len(l) : (Len(c) + j <= k) <=> (Len(c) + j <= k + 1)
  OBVIOUS
<1> QED
  BY <1>1 DEF ForkedLanes

LEMMA FactsKept ==
  ASSUME NEW s, NEW o, NEW c, NEW l, NEW b, Len(c) \in Nat, Len(l) \in Nat, Len(b) \in Nat,
         NEW k \in Nat, k < Len(c) + Len(l), NEW t, NEW u,
         ForkedFacts(s, c, l, b, k, t), u.name = t.name, u.labels = t.labels
  PROVE  ForkedFacts(s, c, l, b, k + 1, u)
<1>1. \A j \in 1..Len(b) : /\ ~(Len(c) + Len(l) + NameCount(s) + j <= k)
                           /\ ~(Len(c) + Len(l) + NameCount(s) + j <= k + 1)
  BY DEF NameCount
<1>2. ~(k > Len(c) + Len(l)) /\ ~(k + 1 > Len(c) + Len(l))
  OBVIOUS
<1> QED
  BY <1>1, <1>2 DEF ForkedFacts

LEMMA EntryStep ==
  ASSUME NEW s, NEW o, NEW c, NEW l, NEW b, Plan(s, o, c, l, b),
         NEW k \in Nat, k < Len(c), NEW t, Forked(s, o, c, l, b, k, t),
         NEW m, m = EntryMutation(s, c[k + 1], k + 1)
  PROVE  Valid(t, m) /\ Forked(s, o, c, l, b, k + 1, Apply(t, m))
<1>0. /\ s \in State /\ Entries(s) \subseteq Ids
      /\ Len(c) \in Nat /\ Len(l) \in Nat /\ Len(b) \in Nat
      /\ \A j \in 1..Len(c) : c[j] \in Entries(s)
      /\ \A i, j \in 1..Len(c) : c[i] = c[j] => i = j
      /\ \A i \in Entries(s) : s.parentOf[i] \in Ids \cup {Null}
  BY PlanTypes
<1>1. k + 1 \in 1..Len(c) /\ k + 1 \in Nat
  BY <1>0
<1>2. PICK i \in Entries(s) : i = c[k + 1]
  BY <1>0, <1>1
<1>3. /\ m.kind = "entry" /\ m.seq = k + 1 /\ m.id = i /\ m.lane = Null
      /\ m.ref = s.parentOf[i] /\ m.ref \in Ids \cup {Null} /\ i \in Ids
      /\ m.type = IF i \in s.messages THEN "message" ELSE "custom"
  BY <1>0, <1>2 DEF EntryMutation
<1>4. t \in State /\ t.sequence = k /\ ForkedEntries(s, c, k, t)
      /\ t.seqOf \in [Ids -> Nat] /\ t.parentOf \in [Ids -> Ids \cup {Null}]
  BY DEF Forked, State
<1>5. t.seqOf[i] = 0 /\ i \notin Entries(t) /\ i \notin t.usedIds
  <2>1. ~(k + 1 <= k)
    OBVIOUS
  <2>2. t.seqOf[i] = 0
    BY <1>1, <1>2, <1>4, <2>1 DEF ForkedEntries
  <2> QED
    BY <1>4, <2>2 DEF ForkedEntries, Entries
<1>6. m.ref # Null => m.ref \in Entries(t)
  <2> SUFFICES ASSUME s.parentOf[i] # Null PROVE s.parentOf[i] \in Entries(t)
    BY <1>3
  <2>1. PICK j \in 1..((k + 1) - 1) : c[j] = s.parentOf[i]
    BY <1>1, <1>2 DEF Plan, CopiesOf
  <2>2. j \in 1..Len(c) /\ j <= k /\ j > 0
    BY <1>0, <2>1
  <2>3. t.seqOf[c[j]] = j /\ c[j] \in Ids
    BY <1>0, <1>4, <2>2 DEF ForkedEntries
  <2> QED
    BY <2>1, <2>2, <2>3 DEF Entries
<1>7. Valid(t, m)
  BY <1>3, <1>4, <1>5, <1>6 DEF Valid, ValidEntry
<1>8. PICK u : u = Apply(t, m)
  OBVIOUS
<1>9. u = ApplyEntry(t, m)
  BY <1>3, <1>8 DEF Apply
<1>10. u \in State
  BY <1>1, <1>3, <1>4, <1>9, ApplyEntryType
<1>11. /\ u.sequence = k + 1 /\ u.usedIds = t.usedIds \cup {i}
       /\ u.seqOf = [t.seqOf EXCEPT ![i] = k + 1]
       /\ u.parentOf = [t.parentOf EXCEPT ![i] = s.parentOf[i]]
       /\ u.messages = IF i \in s.messages THEN t.messages \cup {i} ELSE t.messages
       /\ u.lanes = t.lanes /\ u.open = t.open /\ u.name = t.name /\ u.labels = t.labels
  BY <1>3, <1>4, <1>9 DEF ApplyEntry, State
<1>12. Entries(u) = Entries(t) \cup {i}
  BY <1>1, <1>3, <1>4, <1>11 DEF Entries
<1>13. ForkedEntries(s, c, k + 1, u)
  <2>1. ASSUME NEW j \in 1..Len(c)
        PROVE  u.seqOf[c[j]] = IF j <= k + 1 THEN j ELSE 0
    <3>1. c[j] \in Ids /\ t.seqOf[c[j]] = IF j <= k THEN j ELSE 0
      BY <1>0, <1>4 DEF ForkedEntries
    <3>2. CASE j = k + 1
      BY <1>1, <1>2, <1>3, <1>4, <1>11, <3>2
    <3>3. CASE j # k + 1
      <4>1. c[j] # i
        BY <1>0, <1>1, <1>2, <3>3
      <4>2. u.seqOf[c[j]] = t.seqOf[c[j]]
        BY <1>3, <1>4, <1>11, <3>1, <4>1
      <4>3. j <= k <=> j <= k + 1
        BY <3>3
      <4> QED
        BY <3>1, <4>2, <4>3
    <3> QED
      BY <3>2, <3>3
  <2>2. ASSUME NEW x \in Ids, ~Occurs(x, c) PROVE u.seqOf[x] = 0
    <3>1. x # i
      BY <1>1, <1>2, <2>2 DEF Occurs
    <3> QED
      BY <1>3, <1>4, <1>11, <2>2, <3>1 DEF ForkedEntries
  <2>3. u.usedIds = Entries(u)
    BY <1>4, <1>11, <1>12 DEF ForkedEntries
  <2>4. \A x \in Entries(u) : u.parentOf[x] = s.parentOf[x]
    <3>1. Entries(t) \subseteq Ids
      BY DEF Entries
    <3> QED
      BY <1>3, <1>4, <1>11, <1>12, <3>1 DEF ForkedEntries
  <2>5. u.messages = s.messages \cap Entries(u)
    BY <1>4, <1>11, <1>12 DEF ForkedEntries
  <2> QED
    BY <2>1, <2>2, <2>3, <2>4, <2>5 DEF ForkedEntries
<1>14. ForkedLanes(s, o, c, l, k + 1, u)
  <2>1. ForkedLanes(s, o, c, l, k, t)
    BY DEF Forked
  <2> QED
    BY <1>0, <1>11, <2>1, LanesKept
<1>15. ForkedFacts(s, c, l, b, k + 1, u)
  <2>1. ForkedFacts(s, c, l, b, k, t) /\ k < Len(c) + Len(l)
    BY <1>0 DEF Forked
  <2> QED
    BY <1>0, <1>11, <2>1, FactsKept
<1> QED
  BY <1>7, <1>8, <1>10, <1>11, <1>13, <1>14, <1>15 DEF Forked

LEMMA LaneStep ==
  ASSUME NEW s, NEW o, NEW c, NEW l, NEW b, Plan(s, o, c, l, b),
         NEW n \in 1..Len(l), NEW k \in Nat, k + 1 = Len(c) + n,
         NEW t, Forked(s, o, c, l, b, k, t),
         NEW m, m = LaneMutation(l[n], Len(c) + n)
  PROVE  Valid(t, m) /\ Forked(s, o, c, l, b, k + 1, Apply(t, m))
<1>0. /\ s \in State /\ Entries(s) \subseteq Ids
      /\ Len(c) \in Nat /\ Len(l) \in Nat /\ Len(b) \in Nat
      /\ \A j \in 1..Len(c) : c[j] \in Entries(s)
      /\ l[n].lane \in Lanes /\ l[n].leaf \in Ids \cup {Null}
  BY PlanTypes
<1>1. k >= Len(c) /\ k < Len(c) + Len(l)
  BY <1>0
<1>2. PICK a \in Lanes, leaf \in Ids \cup {Null} : a = l[n].lane /\ leaf = l[n].leaf
  BY <1>0
<1>3. /\ m.kind = "lane" /\ m.seq = k + 1 /\ m.lane = a /\ m.ref = leaf
  BY <1>2 DEF LaneMutation
<1>4. t \in State /\ t.sequence = k /\ ForkedEntries(s, c, k, t)
      /\ t.lanes \in [Lanes -> Ids \cup {Null, Missing}]
  BY DEF Forked, State
<1>5. leaf # Null => leaf \in Entries(t)
  <2> SUFFICES ASSUME leaf # Null PROVE leaf \in Entries(t)
    OBVIOUS
  <2>1. PICK j \in 1..Len(c) : c[j] = leaf
    BY <1>2 DEF Plan, LanesOf, Occurs
  <2>2. j <= k /\ j > 0 /\ c[j] \in Ids
    BY <1>0, <1>1
  <2>3. t.seqOf[c[j]] = j
    BY <1>4, <2>2 DEF ForkedEntries
  <2> QED
    BY <2>1, <2>2, <2>3 DEF Entries
<1>6. Valid(t, m)
  BY <1>3, <1>4, <1>5 DEF Valid
<1>7. PICK u : u = Apply(t, m)
  OBVIOUS
<1>8. u = ApplyLane(t, m)
  BY <1>3, <1>7 DEF Apply
<1>9. u \in State
  BY <1>3, <1>4, <1>8, ApplyLaneType
<1>10. /\ u.sequence = k + 1 /\ u.lanes = [t.lanes EXCEPT ![a] = leaf]
       /\ u.seqOf = t.seqOf /\ u.usedIds = t.usedIds /\ u.parentOf = t.parentOf
       /\ u.messages = t.messages /\ u.open = t.open /\ u.name = t.name /\ u.labels = t.labels
  BY <1>3, <1>4, <1>8 DEF ApplyLane, State
<1>11. ForkedEntries(s, c, k + 1, u)
  BY <1>0, <1>1, <1>4, <1>10, EntriesKept
<1>12. ForkedLanes(s, o, c, l, k + 1, u)
  <2>1. /\ t.open = EmptyState.open
        /\ \A x \in Lanes :
             t.lanes[x] = IF \E j \in 1..Len(l) : Len(c) + j <= k /\ l[j].lane = x
                          THEN Goal(s, o)[x] ELSE EmptyState.lanes[x]
    BY DEF Forked, ForkedLanes
  <2>2. leaf = Goal(s, o)[a]
    BY <1>2 DEF Plan, LanesOf
  <2>3. ASSUME NEW x \in Lanes
        PROVE  u.lanes[x] = IF \E j \in 1..Len(l) : Len(c) + j <= k + 1 /\ l[j].lane = x
                            THEN Goal(s, o)[x] ELSE EmptyState.lanes[x]
    <3>1. CASE x = a
      <4>1. Len(c) + n <= k + 1 /\ l[n].lane = x
        BY <1>0, <1>2, <3>1
      <4> QED
        BY <1>4, <1>10, <2>2, <3>1, <4>1
    <3>2. CASE x # a
      <4>1. \A j \in 1..Len(l) : l[j].lane = x =>
              (Len(c) + j <= k <=> Len(c) + j <= k + 1)
        <5> SUFFICES ASSUME NEW j \in 1..Len(l), l[j].lane = x
                     PROVE  Len(c) + j <= k <=> Len(c) + j <= k + 1
          OBVIOUS
        <5>1. j # n
          BY <1>2, <3>2
        <5> QED
          BY <1>0, <5>1
      <4>2. u.lanes[x] = t.lanes[x]
        BY <1>4, <1>10, <3>2
      <4> QED
        BY <2>1, <4>1, <4>2
    <3> QED
      BY <3>1, <3>2
  <2> QED
    BY <1>10, <2>1, <2>3 DEF ForkedLanes
<1>13. ForkedFacts(s, c, l, b, k + 1, u)
  <2>1. ForkedFacts(s, c, l, b, k, t)
    BY DEF Forked
  <2> QED
    BY <1>0, <1>1, <1>10, <2>1, FactsKept
<1> QED
  BY <1>6, <1>7, <1>9, <1>10, <1>11, <1>12, <1>13 DEF Forked

LEMMA NameStep ==
  ASSUME NEW s, NEW o, NEW c, NEW l, NEW b, Plan(s, o, c, l, b), s.name = "set",
         NEW k \in Nat, k = Len(c) + Len(l),
         NEW t, Forked(s, o, c, l, b, k, t),
         NEW m, m = NameMutation(k + 1)
  PROVE  Valid(t, m) /\ Forked(s, o, c, l, b, k + 1, Apply(t, m))
<1>0. Len(c) \in Nat /\ Len(l) \in Nat /\ Len(b) \in Nat
  BY PlanTypes
<1>1. m.kind = "name" /\ m.seq = k + 1 /\ m.type = "set"
  BY DEF NameMutation
<1>2. /\ t \in State /\ t.sequence = k /\ ForkedEntries(s, c, k, t)
      /\ ForkedLanes(s, o, c, l, k, t) /\ ForkedFacts(s, c, l, b, k, t)
  BY DEF Forked
<1>3. Valid(t, m)
  BY <1>1, <1>2 DEF Valid
<1>4. PICK u : u = Apply(t, m)
  OBVIOUS
<1>5. u = ApplyName(t, m)
  BY <1>1, <1>4 DEF Apply
<1>6. u \in State
  BY <1>1, <1>2, <1>5, ApplyNameType DEF Marks
<1>7. /\ u.sequence = k + 1 /\ u.name = "set" /\ u.lanes = t.lanes
      /\ u.seqOf = t.seqOf /\ u.usedIds = t.usedIds /\ u.parentOf = t.parentOf
      /\ u.messages = t.messages /\ u.open = t.open /\ u.labels = t.labels
  BY <1>1, <1>2, <1>5 DEF ApplyName, State
<1>a. k >= Len(c) /\ k >= Len(c) + Len(l)
  BY <1>0
<1>8. ForkedEntries(s, c, k + 1, u)
  BY <1>0, <1>2, <1>7, <1>a, EntriesKept
<1>9. ForkedLanes(s, o, c, l, k + 1, u)
  BY <1>0, <1>2, <1>7, <1>a, LanesKept
<1>10. ForkedFacts(s, c, l, b, k + 1, u)
  <2>1. NameCount(s) = 1
    BY DEF NameCount
  <2>2. \A j \in 1..Len(b) : /\ ~(Len(c) + Len(l) + NameCount(s) + j <= k)
                             /\ ~(Len(c) + Len(l) + NameCount(s) + j <= k + 1)
    BY <1>0, <2>1
  <2>3. k + 1 > Len(c) + Len(l)
    BY <1>0
  <2> QED
    BY <1>2, <1>7, <2>2, <2>3 DEF ForkedFacts
<1> QED
  BY <1>3, <1>4, <1>6, <1>7, <1>8, <1>9, <1>10 DEF Forked

LEMMA LabelStep ==
  ASSUME NEW s, NEW o, NEW c, NEW l, NEW b, Plan(s, o, c, l, b),
         NEW n \in 1..Len(b), NEW k \in Nat, k + 1 = Len(c) + Len(l) + NameCount(s) + n,
         NEW t, Forked(s, o, c, l, b, k, t),
         NEW m, m = LabelMutation(b[n], k + 1)
  PROVE  Valid(t, m) /\ Forked(s, o, c, l, b, k + 1, Apply(t, m))
<1>0. /\ Len(c) \in Nat /\ Len(l) \in Nat /\ Len(b) \in Nat /\ NameCount(s) \in 0..1
      /\ Entries(s) \subseteq Ids /\ b[n] \in Entries(s)
      /\ \A j \in 1..Len(c) : c[j] \in Entries(s)
  BY PlanTypes
<1>1. k >= Len(c) /\ k >= Len(c) + Len(l)
  BY <1>0
<1>2. PICK i \in Ids : i = b[n]
  BY <1>0
<1>3. m.kind = "label" /\ m.seq = k + 1 /\ m.type = "set" /\ m.id = i
  BY <1>2 DEF LabelMutation
<1>4. /\ t \in State /\ t.sequence = k /\ ForkedEntries(s, c, k, t)
      /\ ForkedLanes(s, o, c, l, k, t) /\ ForkedFacts(s, c, l, b, k, t)
  BY DEF Forked
<1>5. i \in Entries(t)
  <2>1. Occurs(i, b)
    BY <1>2 DEF Occurs
  <2>2. Occurs(i, c)
    BY <2>1 DEF Plan, LabelsOf
  <2>3. PICK j \in 1..Len(c) : c[j] = i
    BY <2>2 DEF Occurs
  <2>4. j <= k /\ j > 0
    BY <1>0, <1>1
  <2>5. t.seqOf[c[j]] = j
    BY <1>4, <2>4 DEF ForkedEntries
  <2> QED
    BY <2>3, <2>4, <2>5 DEF Entries
<1>6. Valid(t, m)
  BY <1>3, <1>4, <1>5 DEF Valid
<1>7. PICK u : u = Apply(t, m)
  OBVIOUS
<1>8. u = ApplyLabel(t, m)
  BY <1>3, <1>7 DEF Apply
<1>9. u \in State
  BY <1>3, <1>4, <1>8, ApplyLabelType
<1>10. /\ u.sequence = k + 1 /\ u.name = t.name /\ u.lanes = t.lanes
       /\ u.seqOf = t.seqOf /\ u.usedIds = t.usedIds /\ u.parentOf = t.parentOf
       /\ u.messages = t.messages /\ u.open = t.open /\ u.labels = t.labels \cup {i}
  BY <1>3, <1>4, <1>8 DEF ApplyLabel, State
<1>11. ForkedEntries(s, c, k + 1, u)
  BY <1>0, <1>1, <1>4, <1>10, EntriesKept
<1>12. ForkedLanes(s, o, c, l, k + 1, u)
  BY <1>0, <1>1, <1>4, <1>10, LanesKept
<1>13. ForkedFacts(s, c, l, b, k + 1, u)
  <2>1. /\ t.name = IF s.name = "set" /\ k > Len(c) + Len(l) THEN "set" ELSE "unset"
        /\ \A x : x \in t.labels <=>
             \E j \in 1..Len(b) : Len(c) + Len(l) + NameCount(s) + j <= k /\ b[j] = x
    BY <1>4 DEF ForkedFacts
  <2>2. s.name = "set" => k > Len(c) + Len(l) /\ k + 1 > Len(c) + Len(l)
    BY <1>0 DEF NameCount
  <2>3. \A j \in 1..Len(b) : Len(c) + Len(l) + NameCount(s) + j <= k + 1 <=>
          Len(c) + Len(l) + NameCount(s) + j <= k \/ j = n
    BY <1>0
  <2>4. \A x : x \in u.labels <=>
          \E j \in 1..Len(b) : Len(c) + Len(l) + NameCount(s) + j <= k + 1 /\ b[j] = x
    BY <1>2, <1>10, <2>1, <2>3
  <2> QED
    BY <1>10, <2>1, <2>2, <2>4 DEF ForkedFacts
<1> QED
  BY <1>6, <1>7, <1>9, <1>10, <1>11, <1>12, <1>13 DEF Forked

LEMMA LogStep ==
  ASSUME NEW s, NEW o, NEW c, NEW l, NEW b, Plan(s, o, c, l, b),
         NEW log, LogOf(s, c, l, b, log), NEW k \in Nat, k < Len(log),
         NEW t, Forked(s, o, c, l, b, k, t)
  PROVE  Valid(t, log[k + 1]) /\ Forked(s, o, c, l, b, k + 1, Apply(t, log[k + 1]))
<1>0. /\ Len(c) \in Nat /\ Len(l) \in Nat /\ Len(b) \in Nat /\ NameCount(s) \in 0..1
      /\ Len(log) = Len(c) + Len(l) + NameCount(s) + Len(b)
  BY PlanTypes DEF LogOf
<1>1. PICK m : m = log[k + 1]
  OBVIOUS
<1>2. CASE k < Len(c)
  <2>1. k + 1 \in 1..Len(c)
    BY <1>0, <1>2
  <2>2. m = EntryMutation(s, c[k + 1], k + 1)
    BY <1>1, <2>1 DEF LogOf
  <2> QED
    BY <1>1, <1>2, <2>2, EntryStep
<1>3. CASE k >= Len(c) /\ k < Len(c) + Len(l)
  <2>1. PICK n \in 1..Len(l) : n = k + 1 - Len(c) /\ k + 1 = Len(c) + n
    <3>1. k + 1 - Len(c) \in 1..Len(l) /\ k + 1 = Len(c) + (k + 1 - Len(c))
      BY <1>0, <1>3
    <3> QED
      BY <3>1
  <2>2. m = LaneMutation(l[n], Len(c) + n)
    BY <1>1, <2>1 DEF LogOf
  <2> QED
    BY <1>1, <2>1, <2>2, LaneStep
<1>4. CASE k = Len(c) + Len(l) /\ s.name = "set"
  <2>1. m = NameMutation(k + 1)
    BY <1>1, <1>4 DEF LogOf
  <2> QED
    BY <1>1, <1>4, <2>1, NameStep
<1>5. CASE k >= Len(c) + Len(l) + NameCount(s)
  <2>1. PICK n \in 1..Len(b) : n = k + 1 - (Len(c) + Len(l) + NameCount(s))
                               /\ k + 1 = Len(c) + Len(l) + NameCount(s) + n
    <3>1. PICK x \in Nat : x = Len(c) + Len(l) + NameCount(s)
      BY <1>0
    <3>2. k + 1 - x \in 1..Len(b) /\ k + 1 = x + (k + 1 - x)
      BY <1>0, <1>5, <3>1
    <3> QED
      BY <3>1, <3>2
  <2>2. m = LabelMutation(b[n], k + 1)
    BY <1>1, <2>1 DEF LogOf
  <2> QED
    BY <1>1, <2>1, <2>2, LabelStep
<1>6. NameCount(s) = 0 <=> s.name # "set"
  BY DEF NameCount
<1> QED
  BY <1>0, <1>2, <1>3, <1>4, <1>5, <1>6

-----------------------------------------------------------------------------
(* The replay, and what it ends in.                                         *)

IsFold(log, after, last) ==
  after = [k \in 0..last |-> IF k = 0 THEN [ok |-> TRUE, state |-> EmptyState]
                             ELSE Replayed(after[k - 1], log[k])]

LEMMA FoldExists ==
  ASSUME NEW log, NEW last \in Nat
  PROVE  \E after : IsFold(log, after, last)
<1> DEFINE empty == [ok |-> TRUE, state |-> EmptyState]
           T == {n \in Nat : \A after : ~IsFold(log, after, n)}
<1>1. SUFFICES ASSUME T # {} PROVE FALSE
  OBVIOUS
<1>2. PICK n \in T : \A k \in T : n <= k
  <2>1. T \in SUBSET Nat
    OBVIOUS
  <2> HIDE DEF T
  <2> QED
    BY <1>1, <2>1, LeastNumber
<1>3. n \in Nat /\ \A after : ~IsFold(log, after, n)
  OBVIOUS
<1>4. CASE n = 0
  <2> DEFINE first == [k \in 0..0 |-> empty]
  <2>1. first = [k \in 0..0 |-> IF k = 0 THEN empty ELSE Replayed(first[k - 1], log[k])]
    OBVIOUS
  <2> HIDE DEF first
  <2> QED
    BY <1>3, <1>4, <2>1 DEF IsFold
<1>5. CASE n # 0
  <2>1. n - 1 \in Nat /\ n - 1 \notin T
    BY <1>2, <1>3, <1>5
  <2>2. PICK before : IsFold(log, before, n - 1)
    BY <2>1
  <2> DEFINE after == [k \in 0..n |-> IF k = n THEN Replayed(before[n - 1], log[n]) ELSE before[k]]
  <2>3. \A k \in 0..(n - 1) : before[k] = IF k = 0 THEN empty
                                          ELSE Replayed(before[k - 1], log[k])
    BY <2>2 DEF IsFold
  <2>4. /\ after[n] = Replayed(after[n - 1], log[n])
        /\ \A k \in 0..(n - 1) : after[k] = before[k]
    BY <1>3, <1>5
  <2>5. ASSUME NEW k \in 0..n
        PROVE  after[k] = IF k = 0 THEN empty ELSE Replayed(after[k - 1], log[k])
    <3>1. k = n \/ k \in 0..(n - 1)
      BY <1>3
    <3>2. k # 0 /\ k \in 0..(n - 1) => k - 1 \in 0..(n - 1)
      BY <1>3
    <3> HIDE DEF after
    <3>3. CASE k = n
      BY <1>5, <2>4, <3>3
    <3>4. CASE k \in 0..(n - 1)
      BY <2>3, <2>4, <3>2, <3>4
    <3> QED
      BY <3>1, <3>3, <3>4
  <2>6. after = [k \in 0..n |-> after[k]]
    OBVIOUS
  <2> HIDE DEF after
  <2>7. IsFold(log, after, n)
    BY <2>5, <2>6 DEF IsFold
  <2> QED
    BY <1>3, <2>7
<1> QED
  BY <1>4, <1>5

LEMMA EmptyForked ==
  ASSUME NEW s, NEW o, NEW c, NEW l, NEW b, Plan(s, o, c, l, b)
  PROVE  Forked(s, o, c, l, b, 0, EmptyState)
<1>0. /\ Len(c) \in Nat /\ Len(l) \in Nat /\ Len(b) \in Nat /\ NameCount(s) \in 0..1
      /\ Entries(s) \subseteq Ids /\ \A j \in 1..Len(c) : c[j] \in Entries(s)
  BY PlanTypes
<1>1. /\ EmptyState \in State /\ EmptyState.sequence = 0 /\ EmptyState.usedIds = {}
      /\ EmptyState.messages = {} /\ EmptyState.labels = {} /\ EmptyState.name = "unset"
      /\ \A i \in Ids : EmptyState.seqOf[i] = 0
  BY EmptyStateType DEF EmptyState
<1>2. Entries(EmptyState) = {}
  BY <1>1 DEF Entries
<1>3. \A j \in 1..Len(c) : ~(j <= 0) /\ c[j] \in Ids
  BY <1>0
<1>4. ForkedEntries(s, c, 0, EmptyState)
  BY <1>1, <1>2, <1>3 DEF ForkedEntries
<1>5. ForkedLanes(s, o, c, l, 0, EmptyState)
  <2>1. \A j \in 1..Len(l) : ~(Len(c) + j <= 0)
    BY <1>0
  <2> QED
    BY <2>1 DEF ForkedLanes
<1>6. ForkedFacts(s, c, l, b, 0, EmptyState)
  <2>1. \A j \in 1..Len(b) : ~(Len(c) + Len(l) + NameCount(s) + j <= 0)
    BY <1>0
  <2>2. ~(0 > Len(c) + Len(l))
    BY <1>0
  <2> QED
    BY <1>1, <2>1, <2>2 DEF ForkedFacts
<1> QED
  BY <1>1, <1>4, <1>5, <1>6 DEF Forked

LEMMA ReplayForks ==
  ASSUME NEW s, NEW o, NEW c, NEW l, NEW b, Plan(s, o, c, l, b),
         NEW log, LogOf(s, c, l, b, log)
  PROVE  Replay(log).ok = TRUE /\ Forked(s, o, c, l, b, Len(log), Replay(log).state)
<1> DEFINE after == CHOOSE f : IsFold(log, f, Len(log))
           T == {k \in 0..Len(log) : /\ after[k].ok = TRUE
                                     /\ Forked(s, o, c, l, b, k, after[k].state)}
<1>1. Len(log) \in Nat
  BY PlanTypes DEF LogOf
<1>2. Replay(log) = after[Len(log)]
  BY DEF Replay, IsFold
<1>3. IsFold(log, after, Len(log))
  BY <1>1, FoldExists
<1> HIDE DEF after
<1>4. /\ after[0] = [ok |-> TRUE, state |-> EmptyState]
      /\ \A k \in 1..Len(log) : after[k] = Replayed(after[k - 1], log[k])
  <2>1. \A k \in 0..Len(log) :
          after[k] = IF k = 0 THEN [ok |-> TRUE, state |-> EmptyState]
                     ELSE Replayed(after[k - 1], log[k])
    BY <1>3 DEF IsFold
  <2>2. 0 \in 0..Len(log) /\ \A k \in 1..Len(log) : k \in 0..Len(log) /\ k # 0
    BY <1>1
  <2> QED
    BY <2>1, <2>2
<1>5. 0 \in T
  BY <1>1, <1>4, EmptyForked
<1>6. ASSUME NEW n \in 0..Len(log), n # 0, n - 1 \in T PROVE n \in T
  <2>1. PICK k \in Nat : k = n - 1 /\ n = k + 1 /\ k < Len(log) /\ n \in 1..Len(log)
    BY <1>1, <1>6
  <2>2. PICK t : t = after[k].state
    OBVIOUS
  <2>3. after[k].ok = TRUE /\ Forked(s, o, c, l, b, k, t)
    BY <1>6, <2>1, <2>2
  <2>4. Valid(t, log[n]) /\ Forked(s, o, c, l, b, n, Apply(t, log[n]))
    BY <2>1, <2>3, LogStep
  <2>5. after[n] = [ok |-> TRUE, state |-> Apply(t, log[n])]
    BY <1>4, <2>1, <2>2, <2>3, <2>4 DEF Replayed
  <2> QED
    BY <2>4, <2>5
<1>7. T \in SUBSET (0..Len(log))
  OBVIOUS
<1>8. Len(log) \in T
  <2> HIDE DEF T
  <2> QED
    BY <1>1, <1>5, <1>6, <1>7, WalkEnds
<1> QED
  BY <1>2, <1>8

LEMMA ForkedSound ==
  ASSUME NEW s, NEW o, NEW c, NEW l, NEW b, Plan(s, o, c, l, b), NEW k \in Nat,
         k = Len(c) + Len(l) + NameCount(s) + Len(b), NEW t, Forked(s, o, c, l, b, k, t)
  PROVE  Sound(t) /\ ForkOf(s, o, t)
<1>0. /\ s \in State /\ Entries(s) \subseteq Ids
      /\ Len(c) \in Nat /\ Len(l) \in Nat /\ Len(b) \in Nat /\ NameCount(s) \in 0..1
      /\ \A j \in 1..Len(c) : c[j] \in Entries(s)
      /\ \A j \in 1..Len(l) : l[j].lane \in Lanes /\ l[j].leaf \in Ids \cup {Null}
      /\ \A i, j \in 1..Len(c) : c[i] = c[j] => i = j
  BY PlanTypes
<1>1. /\ t \in State /\ t.sequence = k /\ ForkedEntries(s, c, k, t)
      /\ ForkedLanes(s, o, c, l, k, t) /\ ForkedFacts(s, c, l, b, k, t)
  BY DEF Forked
<1>2. \A j \in 1..Len(c) : t.seqOf[c[j]] = j
  <2>1. \A j \in 1..Len(c) : j <= k
    BY <1>0
  <2> QED
    BY <1>1, <2>1 DEF ForkedEntries
<1>3. \A i : i \in Entries(t) <=> Occurs(i, c)
  <2>1. ASSUME NEW i, Occurs(i, c) PROVE i \in Entries(t)
    <3>1. PICK j \in 1..Len(c) : c[j] = i
      BY <2>1 DEF Occurs
    <3>2. t.seqOf[i] = j /\ j > 0 /\ i \in Ids
      BY <1>0, <1>2, <3>1
    <3> QED
      BY <3>2 DEF Entries
  <2>2. ASSUME NEW i \in Entries(t) PROVE Occurs(i, c)
    BY <1>1 DEF ForkedEntries, Entries
  <2> QED
    BY <2>1, <2>2
<1>4. \A i \in Entries(t) : \E j \in 1..Len(c) : i = c[j] /\ t.seqOf[i] = j
  BY <1>2, <1>3 DEF Occurs
<1>5. Entries(t) \subseteq Entries(s)
  BY <1>0, <1>4
<1>6. /\ \A i \in Entries(t) : t.parentOf[i] = s.parentOf[i]
      /\ t.messages = s.messages \cap Entries(t) /\ t.usedIds = Entries(t)
  BY <1>1 DEF ForkedEntries
<1>7. /\ \A a \in Lanes : t.lanes[a] = Goal(s, o)[a]
      /\ \A a \in Lanes : t.lanes[a] \in Entries(t) \cup {Null, Missing}
  <2> SUFFICES ASSUME NEW a \in Lanes
               PROVE  t.lanes[a] = Goal(s, o)[a] /\ t.lanes[a] \in Entries(t) \cup {Null, Missing}
    OBVIOUS
  <2>1. CASE \E j \in 1..Len(l) : l[j].lane = a
    <3>1. PICK j \in 1..Len(l) : l[j].lane = a
      BY <2>1
    <3>2. Len(c) + j <= k
      BY <1>0
    <3>3. t.lanes[a] = Goal(s, o)[a]
      BY <1>1, <3>1, <3>2 DEF ForkedLanes
    <3>4. l[j].leaf = Goal(s, o)[a] /\ (l[j].leaf # Null => Occurs(l[j].leaf, c))
      BY <3>1 DEF Plan, LanesOf
    <3> QED
      BY <1>3, <3>3, <3>4
  <2>2. CASE \A j \in 1..Len(l) : l[j].lane # a
    <3>1. t.lanes[a] = EmptyState.lanes[a]
      BY <1>1, <2>2 DEF ForkedLanes
    <3>2. Goal(s, o)[a] = EmptyState.lanes[a]
      BY <2>2 DEF Plan, LanesOf
    <3>3. EmptyState.lanes[a] \in {Null, Missing}
      BY DEF EmptyState
    <3> QED
      BY <3>1, <3>2, <3>3
  <2> QED
    BY <2>1, <2>2
<1>8. t.labels = s.labels \cap Entries(t)
  <2>1. \A j \in 1..Len(b) : Len(c) + Len(l) + NameCount(s) + j <= k
    BY <1>0
  <2>2. \A i : i \in t.labels <=> Occurs(i, b)
    BY <1>1, <2>1 DEF ForkedFacts, Occurs
  <2>3. \A i : Occurs(i, b) <=> Occurs(i, c) /\ i \in s.labels
    BY DEF Plan, LabelsOf
  <2> QED
    BY <1>3, <2>2, <2>3
<1>9. t.name = s.name
  <2>1. s.name \in {"set", "unset"}
    BY <1>0 DEF State, Marks
  <2>2. s.name = "set" => k > Len(c) + Len(l)
    BY <1>0 DEF NameCount
  <2> QED
    BY <1>1, <2>1, <2>2 DEF ForkedFacts
<1>10. \A a \in Lanes : t.open[a] = {}
  BY <1>1 DEF ForkedLanes, EmptyState
<1>11. Sound(t)
  <2>1. ASSUME NEW i \in Entries(t), t.parentOf[i] # Null
        PROVE  t.parentOf[i] \in Entries(t) /\ t.seqOf[t.parentOf[i]] < t.seqOf[i]
    <3>1. PICK j \in 1..Len(c) : i = c[j] /\ t.seqOf[i] = j
      BY <1>4
    <3>2. s.parentOf[c[j]] # Null /\ t.parentOf[i] = s.parentOf[c[j]]
      BY <1>6, <2>1, <3>1
    <3>3. PICK h \in 1..(j - 1) : c[h] = s.parentOf[c[j]]
      BY <3>2 DEF Plan, CopiesOf
    <3>4. h \in 1..Len(c) /\ h < j
      BY <1>0, <3>3
    <3>5. t.seqOf[c[h]] = h /\ Occurs(c[h], c)
      BY <1>2, <3>4 DEF Occurs
    <3> QED
      BY <1>3, <3>1, <3>2, <3>3, <3>4, <3>5
  <2>2. \A i \in Entries(t) : t.seqOf[i] <= t.sequence
    <3> SUFFICES ASSUME NEW i \in Entries(t) PROVE t.seqOf[i] <= t.sequence
      OBVIOUS
    <3>1. PICK j \in 1..Len(c) : t.seqOf[i] = j
      BY <1>4
    <3>2. j <= k
      BY <1>0
    <3> QED
      BY <1>1, <3>1, <3>2
  <2>3. TreeSound(t)
    BY <1>6, <1>7, <1>8, <2>1, <2>2 DEF TreeSound
  <2>4. IdsSound(t)
    BY <1>4, <1>6, <1>10 DEF IdsSound
  <2> QED
    BY <1>10, <2>3, <2>4 DEF Sound, OneOpen
<1>12. ForkOf(s, o, t)
  <2>1. PICK target : target = ForkTarget(s, o)
    OBVIOUS
  <2>2. /\ t.lanes \in [Lanes -> Ids \cup {Null, Missing}]
        /\ s.lanes \in [Lanes -> Ids \cup {Null, Missing}]
        /\ EmptyState.lanes \in [Lanes -> {Null, Missing}]
    BY <1>0, <1>1 DEF State, EmptyState
  <2>3. o.scope = "tree" => Entries(t) = Entries(s) /\ t.lanes = s.lanes
    <3> SUFFICES ASSUME o.scope = "tree" PROVE Entries(t) = Entries(s) /\ t.lanes = s.lanes
      OBVIOUS
    <3>1. \A i \in Entries(s) : Occurs(i, c)
      BY DEF Plan, CopiesAsked
    <3>2. Goal(s, o) = s.lanes
      BY DEF Goal
    <3> QED
      <4>1. Entries(t) = Entries(s)
        BY <1>3, <1>5, <3>1
      <4>2. PICK f : f = t.lanes
        OBVIOUS
      <4>3. PICK g : g = s.lanes
        OBVIOUS
      <4>4. f \in [Lanes -> Ids \cup {Null, Missing}] /\ g \in [Lanes -> Ids \cup {Null, Missing}]
        BY <2>2, <4>2, <4>3
      <4>5. \A a \in Lanes : f[a] = g[a]
        BY <1>7, <3>2, <4>2, <4>3
      <4>6. f = g
        BY ONLY <4>4, <4>5
      <4> QED
        BY <4>1, <4>2, <4>3, <4>6
  <2>4. o.scope = "branch" => t.lanes = [EmptyState.lanes EXCEPT ![Main] = target]
    <3> SUFFICES ASSUME o.scope = "branch"
                 PROVE  t.lanes = [EmptyState.lanes EXCEPT ![Main] = target]
      OBVIOUS
    <3>1. PICK g : g = [EmptyState.lanes EXCEPT ![Main] = target]
      OBVIOUS
    <3>2. Goal(s, o) = g
      BY <2>1, <3>1 DEF Goal
    <3>3. g = [a \in Lanes |-> g[a]]
      BY <2>2, <3>1
    <3> QED
      BY <1>7, <2>2, <3>1, <3>2, <3>3
  <2>5. o.scope = "branch" =>
          \A S \in SUBSET Entries(s) :
            (target = Null \/ target \in S) /\ ClosedUnderParent(s, S) => Entries(t) \subseteq S
    <3>1. o.scope = "branch" =>
            \A S \in SUBSET Entries(s) :
              (target = Null \/ target \in S) /\ ClosedUnderParent(s, S)
                => \A j \in 1..Len(c) : c[j] \in S
      BY <2>1 DEF Plan, CopiesAsked
    <3> QED
      BY <1>4, <3>1
  <2>6. ASSUME NEW i \in Entries(t), NEW j \in Entries(t), s.seqOf[i] < s.seqOf[j]
        PROVE  t.seqOf[i] < t.seqOf[j]
    <3>1. PICK x \in 1..Len(c), y \in 1..Len(c) :
            i = c[x] /\ t.seqOf[i] = x /\ j = c[y] /\ t.seqOf[j] = y
      BY <1>4
    <3>2. s.seqOf[i] \in Nat /\ s.seqOf[j] \in Nat
      BY <1>0, <1>5 DEF State
    <3>3. x # y
      BY <2>6, <3>1, <3>2
    <3>4. ~(y < x)
      <4> SUFFICES ASSUME y < x PROVE FALSE
        OBVIOUS
      <4>1. s.seqOf[c[y]] < s.seqOf[c[x]]
        BY DEF Plan, CopiesOf
      <4> QED
        BY <2>6, <3>1, <3>2, <4>1
    <3> QED
      BY <3>1, <3>3, <3>4
  <2>7. t.open = EmptyState.open
    BY <1>1 DEF ForkedLanes
  <2> QED
    BY <1>5, <1>6, <1>8, <1>9, <2>1, <2>3, <2>4, <2>5, <2>6, <2>7 DEF ForkOf
<1> QED
  BY <1>11, <1>12

LEMMA LabelsFollow ==
  ASSUME NEW s, NEW o, Forkable(s, o), NEW c, CopiesOf(s, c)
  PROVE  LabelsOf(s, c, InOrder(ToSet(c) \cap s.labels, s.seqOf))
<1>1. PICK S : S = ToSet(c) \cap s.labels
  OBVIOUS
<1>2. c \in Seq(Entries(s)) /\ s \in State /\ Sound(s)
  BY DEF CopiesOf, Forkable
<1>3. \A i : i \in ToSet(c) <=> Occurs(i, c)
  <2>1. DOMAIN c = 1..Len(c)
    BY <1>2
  <2> QED
    BY <2>1 DEF ToSet, Occurs
<1>4. S \in SUBSET Entries(s)
  BY <1>1, <1>2, <1>3 DEF Occurs
<1>5. PICK b \in Seq(S) : b = InOrder(S, s.seqOf) /\ \A i \in S : \E n \in 1..Len(b) : b[n] = i
  BY <1>2, <1>4, EntriesNumbered, InOrderLists
<1>6. b \in Seq(Entries(s)) /\ \A n \in 1..Len(b) : b[n] \in S
  BY <1>4, <1>5
<1>7. \A i : Occurs(i, b) <=> i \in S
  BY <1>5, <1>6 DEF Occurs
<1> QED
  BY <1>1, <1>3, <1>5, <1>6, <1>7 DEF LabelsOf

(* Every fork of such a state is faithful.                                  *)
LEMMA ForkableFaithful ==
  ASSUME NEW s \in State, Sound(s), s.lanes[Main] # Missing,
         IsFiniteSet({l \in Lanes : s.lanes[l] # Missing})
  PROVE  ForkFaithful(s)
<1>1. SUFFICES ASSUME NEW o \in ForkOptions, ForkAccepted(s, o)
               PROVE  LET fork == Replay(CreateForkMutations(s, o)) IN
                      fork.ok /\ Sound(fork.state) /\ ForkOf(s, o, fork.state)
  BY DEF ForkFaithful
<1>2. Forkable(s, o)
  BY <1>1 DEF Forkable
<1>3. PICK c, l, b : /\ c = CopiedEntries(s, o) /\ l = ForkLanes(s, o)
                     /\ b = InOrder(ToSet(c) \cap s.labels, s.seqOf)
  OBVIOUS
<1>4. CopiesOf(s, c) /\ CopiesAsked(s, o, c)
  BY <1>2, <1>3, CopiesFollow
<1>5. LanesOf(s, o, c, l)
  BY <1>2, <1>3, <1>4, LanesFollow
<1>6. LabelsOf(s, c, b)
  BY <1>2, <1>3, <1>4, LabelsFollow
<1>7. Plan(s, o, c, l, b)
  BY <1>2, <1>4, <1>5, <1>6 DEF Plan
<1>8. PICK log : log = CreateForkMutations(s, o)
  OBVIOUS
<1>9. LogOf(s, c, l, b, log)
  BY <1>2, <1>3, <1>7, <1>8, LogMade
<1>10. PICK t : t = Replay(log).state
  OBVIOUS
<1>11. Replay(log).ok = TRUE /\ Forked(s, o, c, l, b, Len(log), t)
  BY <1>7, <1>9, <1>10, ReplayForks
<1>12. Len(log) \in Nat /\ Len(log) = Len(c) + Len(l) + NameCount(s) + Len(b)
  BY <1>7, <1>9, PlanTypes DEF LogOf
<1>13. Sound(t) /\ ForkOf(s, o, t)
  BY <1>7, <1>11, <1>12, ForkedSound
<1> QED
  BY <1>8, <1>10, <1>11, <1>13

-----------------------------------------------------------------------------
(* The lanes a fork copies: main is always one of them, and no session has  *)
(* more lanes than mutations.                                              *)

LanesInv ==
  /\ StoreInv
  /\ store.lanes[Main] # Missing
  /\ IsFiniteSet({l \in Lanes : store.lanes[l] # Missing})

(* A lane that exists stays, and an operation adds one at most.             *)
LEMMA LanesAfter ==
  ASSUME NEW s \in State, Sound(s), NEW r \in Requests, Accepts(s, r)
  PROVE  \E a \in Lanes \cup {Null} :
           /\ a # Null => Apply(s, MutationOf(s, r)).lanes[a] # Missing
           /\ \A l \in Lanes : l # a => Apply(s, MutationOf(s, r)).lanes[l] = s.lanes[l]
<1>1. PICK m, t : m = MutationOf(s, r) /\ t = Apply(s, m)
  OBVIOUS
<1>2. m \in Mutation
  BY <1>1, MutationOfType
<1>3. m.id \in Ids \cup {Null} /\ m.lane \in Lanes \cup {Null} /\ m.ref \in Ids \cup {Null}
  BY <1>2 DEF Mutation
<1>4. s.lanes \in [Lanes -> Ids \cup {Null, Missing}]
  BY DEF State
<1>5. CASE r.op = "appendEntry"
  <2>1. m.kind = "entry" /\ m.id \in Ids
    BY <1>1, <1>5, MutationOfFields, RequestFields
  <2>2. t = ApplyEntry(s, m)
    BY <1>1, <2>1 DEF Apply
  <2>3. t.lanes = IF m.lane = Null THEN s.lanes ELSE [s.lanes EXCEPT ![m.lane] = m.id]
    BY <2>2 DEF ApplyEntry, State
  <2> QED
    BY <1>1, <1>3, <1>4, <2>1, <2>3, NullAssumption
<1>6. CASE r.op \in {"createLane", "moveLane"}
  <2>1. m.kind = "lane" /\ m.lane \in Lanes
    BY <1>1, <1>6, MutationOfFields, RequestFields
  <2>2. t = ApplyLane(s, m)
    BY <1>1, <2>1 DEF Apply
  <2>3. t.lanes = [s.lanes EXCEPT ![m.lane] = m.ref]
    BY <2>2 DEF ApplyLane, State
  <2> QED
    BY <1>1, <1>3, <1>4, <2>1, <2>3, NullAssumption
<1>7. CASE r.op \in {"appendRecord", "setName", "setLabel"}
  <2>1. m.kind \in {"record", "name", "label"}
    BY <1>1, <1>7, MutationOfFields
  <2>2. t \in {ApplyRecord(s, m), ApplyName(s, m), ApplyLabel(s, m)}
    BY <1>1, <2>1 DEF Apply
  <2>3. t.lanes = s.lanes
    BY <2>2 DEF ApplyRecord, ApplyName, ApplyLabel, State
  <2> QED
    BY <1>1, <2>3
<1> QED
  BY <1>5, <1>6, <1>7, RequestFields

LEMMA LanesInvStep == LanesInv /\ [StoreNext]_store => LanesInv'
<1> SUFFICES ASSUME LanesInv, [StoreNext]_store PROVE LanesInv'
  OBVIOUS
<1>1. CASE UNCHANGED store
  BY <1>1 DEF LanesInv, StoreInv
<1>2. CASE StoreNext
  <2>1. StoreInv'
    BY <1>2, StoreInvStep DEF LanesInv
  <2>2. PICK r \in Requests : Accepts(store, r) /\ store' = Apply(store, MutationOf(store, r))
    BY <1>2 DEF StoreNext, AppendEntry, AppendRecord, CreateLane, MoveLane, SetName,
                SetLabel, Perform, Requests
  <2>3. PICK a \in Lanes \cup {Null} :
          /\ a # Null => store'.lanes[a] # Missing
          /\ \A l \in Lanes : l # a => store'.lanes[l] = store.lanes[l]
    BY <2>2, LanesAfter DEF LanesInv, StoreInv
  <2>4. store'.lanes[Main] # Missing
    BY <2>3, LanesAssumption, NullAssumption DEF LanesInv
  <2>5. IsFiniteSet({l \in Lanes : store'.lanes[l] # Missing})
    <3>1. PICK P, Q : /\ P = {l \in Lanes : store.lanes[l] # Missing}
                      /\ Q = {l \in Lanes : store'.lanes[l] # Missing}
      OBVIOUS
    <3>2. IsFiniteSet(P \cup {a})
      BY <3>1, FS_AddElement DEF LanesInv
    <3>3. Q \in SUBSET (P \cup {a})
      BY <2>3, <3>1
    <3> QED
      BY <3>1, <3>2, <3>3, FS_Subset
  <2> QED
    BY <2>1, <2>4, <2>5 DEF LanesInv
<1> QED
  BY <1>1, <1>2

(* Every fork of every reachable session, of any number of entries and     *)
(* lanes, replays without an error to the session the options ask for:     *)
(* createForkMutations copies parents before their children.               *)
THEOREM ForksAlwaysFaithful == MCSpec => []ForksFaithful
<1>1. MCInit => LanesInv
  <2> SUFFICES ASSUME MCInit PROVE LanesInv
    OBVIOUS
  <2>1. store = EmptyState
    BY DEF MCInit, StoreInit
  <2>2. \A l \in Lanes : EmptyState.lanes[l] = IF l = Main THEN Null ELSE Missing
    BY DEF EmptyState
  <2>3. {l \in Lanes : EmptyState.lanes[l] # Missing} = {Main}
    BY <2>2, LanesAssumption, NullAssumption
  <2>4. IsFiniteSet({Main})
    BY FS_Singleton
  <2> QED
    BY <2>1, <2>2, <2>3, <2>4, EmptyStateType, LanesAssumption, NullAssumption
       DEF LanesInv, StoreInv
<1>2. [MCNext]_mcVars => [StoreNext]_store
  BY DEF MCNext, MCStoreNext, MCJsonlNext, mcVars
<1>3. LanesInv => ForksFaithful
  BY ForkableFaithful DEF LanesInv, StoreInv, ForksFaithful
<1> QED
  BY <1>1, <1>2, <1>3, LanesInvStep, PTL DEF MCSpec

=============================================================================
