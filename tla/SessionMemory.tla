---------------------------- MODULE SessionMemory ----------------------------
(***************************************************************************)
(* Session memory, packages/coding-agent/src/core/memory.ts, as            *)
(* agent-session.ts runs it: in the background after a turn and, forced,   *)
(* before a compaction.  A run asks a model up to three times, and between *)
(* a question and its answer the user goes on: messages are appended, the  *)
(* leaf moves to another branch, a second run may start.                   *)
(*                                                                         *)
(* Every message counts as one token and so does every observation; an     *)
(* answer holds at most one observation, one trace line, one reflection.   *)
(***************************************************************************)
EXTENDS Integers, Sequences, FiniteSets

CONSTANTS
  Slots,           \* memory runs that may be under way at once   (bound)
  NoRun,           \* _memoryRun is undefined
  MaxMessages,     \* messages of the session                     (bound)
  MaxScheduled,    \* runs started in the background              (bound)
  MaxCompactions,  \* compactions                                 (bound)
  MaxSettled,      \* settled turns not yet followed by a run     (bound)
  ObserveAfter,    \* settings.observeAfterTokens
  ReflectAfter,    \* settings.reflectAfterTokens
  PoolMax,         \* settings.observationsPoolMaxTokens
  InputMax         \* MEMORY_INPUT_MAX_TOKENS

ASSUME SlotsAssumption == NoRun \notin Slots

ASSUME LimitsAssumption ==
  /\ {MaxMessages, MaxScheduled, MaxCompactions, MaxSettled} \subseteq Nat
  /\ {ObserveAfter, ReflectAfter, PoolMax} \subseteq Nat
  /\ InputMax \in Nat \ {0}

VARIABLES
  entries,     \* the entries of the session, in the order appended
  leaf,        \* position of the current leaf, 0 for null
  messages,    \* messages produced so far
  emitting,    \* the message in the transcript but not yet persisted, or 0
  transcript,  \* agent.state.messages
  agent,       \* idle, or in a run (_isAgentRunActive)
  settled,     \* settled turns that have not reached _scheduleSessionMemory
  runs,        \* the memory run of each slot
  memoryRun,   \* _memoryRun
  compactor,   \* where a compaction is
  awaited,     \* the run a compaction awaits
  scheduled,   \* history: runs started in the background
  compactions  \* history: compactions begun

session == <<entries, leaf>>
turn == <<messages, emitting, agent, settled>>
compaction == <<compactor, awaited, compactions>>
vars == <<session, turn, transcript, runs, memoryRun, compaction, scheduled>>

-----------------------------------------------------------------------------
(* The session tree.  An entry carries the positions of its branch, which  *)
(* getBranch finds by walking up its parents.                              *)

Kinds == {"observation", "trace", "reflection", "supersedes"}

Entry ==
  [type : {"message", "memory", "compaction"},
   kind : Kinds \cup {"none"},
   message : 0..MaxMessages,
   branch : SUBSET (Nat \ {0}),
   sources : SUBSET (Nat \ {0}),       \* sourceEntryIds; of a compaction: kept
   supersedes : SUBSET (Nat \ {0})]

Message(m) ==
  [type |-> "message", kind |-> "none", message |-> m, branch |-> {},
   sources |-> {}, supersedes |-> {}]
Memory(kind, sources, supersedes) ==
  [type |-> "memory", kind |-> kind, message |-> 0, branch |-> {},
   sources |-> sources, supersedes |-> supersedes]
Compaction(kept) ==
  [type |-> "compaction", kind |-> "none", message |-> 0, branch |-> {},
   sources |-> kept, supersedes |-> {}]

GetBranch(l) == IF l = 0 THEN {} ELSE entries[l].branch

\* Mutant: the leaf is moved behind the last entry.
AppendEntriesBeyond(list) ==
  /\ entries' = entries \o
       [i \in 1..Len(list) |->
          [list[i] EXCEPT !.branch =
             GetBranch(leaf) \cup (Len(entries) + 1)..(Len(entries) + i)]]
  /\ leaf' = IF list = <<>> THEN leaf ELSE Len(entries) + Len(list) + 1

(* _appendEntry, once for each entry of list: a child of the leaf, which   *)
(* it becomes.                                                             *)
AppendEntries(list) ==
  /\ entries' = entries \o
       [i \in 1..Len(list) |->
          [list[i] EXCEPT !.branch =
             GetBranch(leaf) \cup (Len(entries) + 1)..(Len(entries) + i)]]
  /\ leaf' = IF list = <<>> THEN leaf ELSE Len(entries) + Len(list)

Messages(l) == {i \in GetBranch(l) : entries[i].type = "message"}
Memories(l) == {i \in GetBranch(l) : entries[i].type = "memory"}

SourcesOf(S) == UNION {entries[i].sources : i \in S}

(* activeMemory *)
ActiveMemory(l, kinds) ==
  LET superseded == UNION {entries[i].supersedes : i \in Memories(l)}
  IN {i \in Memories(l) : entries[i].kind \in kinds /\ i \notin superseded}

(* unprocessedMessages *)
UnprocessedMessages(l) == Messages(l) \ SourcesOf(Memories(l))

(* buildSessionContext: the messages behind the last compaction and the    *)
(* ones it kept.                                                           *)
Shown(l) ==
  LET compacted == {i \in GetBranch(l) : entries[i].type = "compaction"}
      last == {i \in compacted : \A j \in compacted : j <= i}
  IN {i \in Messages(l) : \A c \in last : i > c \/ i \in entries[c].sources}

Context(l) == {entries[i].message : i \in Shown(l)}

-----------------------------------------------------------------------------
(* A memory run.                                                           *)

Stages == {"off", "auth", "observing", "reflecting", "dropping", "refreshing",
           "failed"}

Run ==
  [stage : Stages,
   force : BOOLEAN,
   leaf : Nat,                       \* branchLeafId
   observed : SUBSET (Nat \ {0}),    \* observedSourceEntryIds
   observations : 0..1,              \* newObservations
   traces : 0..1,                    \* newTrace
   reflections : 0..1,               \* reflections
   replaced : SUBSET (Nat \ {0}),    \* reflectionSupersedes
   pool : SUBSET (Nat \ {0}),        \* observations shown to the dropper
   wrote : SUBSET (Nat \ {0})]       \* history: entries the run appended

NewRun(force) ==
  [stage |-> "auth", force |-> force, leaf |-> leaf, observed |-> {},
   observations |-> 0, traces |-> 0, reflections |-> 0, replaced |-> {},
   pool |-> {}, wrote |-> {}]

NoRunYet ==
  [stage |-> "off", force |-> FALSE, leaf |-> 0, observed |-> {},
   observations |-> 0, traces |-> 0, reflections |-> 0, replaced |-> {},
   pool |-> {}, wrote |-> {}]

Compactors == {"none", "waiting", "resuming", "flushing", "ready"}

TypeOK ==
  /\ entries \in Seq(Entry)
  /\ leaf \in 0..Len(entries)
  /\ messages \in 0..MaxMessages
  /\ emitting \in 0..MaxMessages
  /\ transcript \in SUBSET (1..MaxMessages)
  /\ agent \in {"idle", "prompted", "running"}
  /\ settled \in 0..MaxSettled
  /\ runs \in [Slots -> Run]
  /\ memoryRun \in Slots \cup {NoRun}
  /\ compactor \in Compactors
  /\ awaited \in Slots \cup {NoRun}
  /\ scheduled \in 0..MaxScheduled
  /\ compactions \in 0..MaxCompactions

Init ==
  /\ entries = <<>>
  /\ leaf = 0
  /\ messages = 0
  /\ emitting = 0
  /\ transcript = {}
  /\ agent = "idle"
  /\ settled = 0
  /\ runs = [s \in Slots |-> NoRunYet]
  /\ memoryRun = NoRun
  /\ compactor = "none"
  /\ awaited = NoRun
  /\ scheduled = 0
  /\ compactions = 0

-----------------------------------------------------------------------------
(* The agent and the user.                                                 *)

Prompt ==
  /\ agent = "idle" /\ compactor = "none" /\ messages < MaxMessages
  /\ agent' = "prompted"
  /\ UNCHANGED <<session, messages, emitting, settled, transcript, runs, memoryRun,
                 compaction, scheduled>>

(* message_end: the agent has the message; extensions are told first.      *)
EmitMessage ==
  /\ agent # "idle" /\ emitting = 0 /\ compactor = "none" /\ messages < MaxMessages
  /\ agent' = "running"
  /\ messages' = messages + 1
  /\ emitting' = messages + 1
  /\ transcript' = transcript \cup {messages + 1}
  /\ UNCHANGED <<session, settled, runs, memoryRun, compaction, scheduled>>

PersistMessage ==
  /\ emitting # 0
  /\ AppendEntries(<<Message(emitting)>>)
  /\ emitting' = 0
  /\ UNCHANGED <<messages, agent, settled, transcript, runs, memoryRun, compaction,
                 scheduled>>

(* _emitAgentSettled; _scheduleSessionMemory follows once it resolves.     *)
Settle ==
  /\ agent = "running" /\ emitting = 0 /\ compactor = "none" /\ settled < MaxSettled
  /\ agent' = "idle"
  /\ settled' = settled + 1
  /\ UNCHANGED <<session, messages, emitting, transcript, runs, memoryRun, compaction,
                 scheduled>>

\* Mutant: the agent's messages stay those of the branch that was left.
NavigateOnly(target) ==
  /\ agent = "idle"
  /\ target # leaf
  /\ leaf' = target
  /\ UNCHANGED <<entries, turn, transcript, runs, memoryRun, compaction, scheduled>>

(* navigateTree to a point of the tree, without a summary.                 *)
Navigate(target) ==
  /\ agent = "idle"
  /\ target # leaf
  /\ leaf' = target
  /\ transcript' = Context(target)
  /\ UNCHANGED <<entries, turn, runs, memoryRun, compaction, scheduled>>

-----------------------------------------------------------------------------
(* Starting and ending a run.                                              *)

(* Slots are interchangeable: a run takes any free one.                    *)
FreeSlots == {s \in Slots : runs[s].stage = "off"}
FreeSlot == CHOOSE s \in FreeSlots : TRUE

StartRun(force) ==
  /\ FreeSlots # {}
  /\ runs' = [runs EXCEPT ![FreeSlot] = NewRun(force)]
  /\ memoryRun' = FreeSlot

(* _scheduleSessionMemory *)
ScheduleMemory ==
  /\ settled > 0
  /\ settled' = settled - 1
  /\ \/ /\ memoryRun = NoRun /\ scheduled < MaxScheduled
        /\ StartRun(FALSE)
        /\ scheduled' = scheduled + 1
     \/ /\ memoryRun # NoRun \/ scheduled = MaxScheduled
        /\ UNCHANGED <<runs, memoryRun, scheduled>>
  /\ UNCHANGED <<session, messages, emitting, agent, transcript, compaction>>

(* The run settles: it clears _memoryRun if that is still its own, and who *)
(* awaits it goes on.                                                      *)
EndRun(s) ==
  /\ runs' = [runs EXCEPT ![s] = NoRunYet]
  /\ memoryRun' = IF memoryRun = s THEN NoRun ELSE memoryRun
  /\ awaited' = IF awaited = s THEN NoRun ELSE awaited
  /\ compactor' = IF awaited # s THEN compactor
                  ELSE IF compactor = "waiting" THEN "resuming" ELSE "ready"
  /\ UNCHANGED <<compactions, scheduled, turn>>

\* Mutant: it is enough that the leaf still descends from where the run began.
SameBranch(r) == GetBranch(r.leaf) \subseteq GetBranch(leaf)

(* isCurrentBranch *)
IsCurrentBranch(r) == leaf = r.leaf

-----------------------------------------------------------------------------
(* updateSessionMemory, one action for each answer it awaits.              *)

(* selectObservationSources: the newest ones that fit, at least one.       *)
SelectObservationSources(S) ==
  {i \in S : Cardinality({j \in S : j > i}) < InputMax}

ShouldObserve(r) ==
  /\ UnprocessedMessages(r.leaf) # {}
  /\ r.force \/ Cardinality(UnprocessedMessages(r.leaf)) >= ObserveAfter

ShouldReflect(r) ==
  /\ ActiveMemory(leaf, Kinds \ {"supersedes"}) # {} \/ r.observations > 0
  /\ \/ r.force
     \/ Cardinality(Messages(r.leaf)
                    \ SourcesOf(ActiveMemory(leaf, {"reflection"}))) >= ReflectAfter

(* reflectionSourceEntryIds *)
ReflectionSources(r) ==
  SourcesOf(ActiveMemory(r.leaf, {"reflection", "observation"})) \cup r.observed

Repeat(n, e) == [i \in 1..n |-> e]

Observed(r) ==
  Repeat(r.observations, Memory("observation", r.observed, {}))
    \o Repeat(r.traces, Memory("trace", r.observed, {}))

Consolidated(r, pruned) ==
  Repeat(r.reflections, Memory("reflection", ReflectionSources(r), {}))
    \o Repeat(IF r.replaced = {} THEN 0 ELSE 1,
              Memory("supersedes", ReflectionSources(r), r.replaced))
    \o Repeat(IF pruned = {} THEN 0 ELSE 1,
              Memory("supersedes", r.observed, pruned))

(* Observations and traces are appended.  If the pool is too large then    *)
(* the dropper is asked, and everything else waits for it.                 *)
Record(s, r) ==
  LET fresh == (Len(entries) + 1)..(Len(entries) + r.observations)
      pool == ActiveMemory(leaf, {"observation"}) \cup fresh
      wrote == (Len(entries) + 1)..(Len(entries) + r.observations + r.traces)
  IN IF Cardinality(pool) > PoolMax
     THEN /\ AppendEntries(Observed(r))
          /\ runs' = [runs EXCEPT ![s] = [r EXCEPT !.stage = "dropping", !.pool = pool,
                                                   !.wrote = wrote]]
     ELSE /\ AppendEntries(Observed(r) \o Consolidated(r, {}))
          /\ runs' = [runs EXCEPT ![s] = [r EXCEPT !.stage = "refreshing"]]

(* After the observer, or without one.                                     *)
Consider(s, r) ==
  \/ /\ ShouldReflect(r)
     /\ runs' = [runs EXCEPT ![s] = [r EXCEPT !.stage = "reflecting"]]
     /\ UNCHANGED session
  \/ /\ ~ShouldReflect(r)
     /\ Record(s, r)

Continue ==
  UNCHANGED <<turn, transcript, memoryRun, compaction, scheduled>>

GiveUp(s) == EndRun(s) /\ UNCHANGED <<session, transcript>>

(* _getSummarizationRequestAuth has resolved.                              *)
Authorized(s) ==
  LET r == runs[s] IN
  /\ r.stage = "auth"
  /\ \/ ~IsCurrentBranch(r) /\ GiveUp(s)
     \/ /\ IsCurrentBranch(r)
        /\ \/ /\ ShouldObserve(r)
              /\ runs' = [runs EXCEPT ![s].stage = "observing",
                            ![s].observed = SelectObservationSources(UnprocessedMessages(r.leaf))]
              /\ UNCHANGED session
           \/ ~ShouldObserve(r) /\ Consider(s, r)
        /\ Continue

ObserverAnswers(s) ==
  LET r == runs[s] IN
  /\ r.stage = "observing"
  /\ \/ ~IsCurrentBranch(r) /\ GiveUp(s)
     \/ /\ IsCurrentBranch(r)
        /\ \E o, t \in 0..1 :
             Consider(s, [r EXCEPT !.observations = o, !.traces = t])
        /\ Continue

(* parseSupersedes, ignored unless there is a reflection to replace them.  *)
Supersedable(r, n) == IF n = 0 THEN {} ELSE ActiveMemory(r.leaf, {"reflection"})

ReflectorAnswers(s) ==
  LET r == runs[s] IN
  /\ r.stage = "reflecting"
  /\ \/ ~IsCurrentBranch(r) /\ GiveUp(s)
     \/ /\ IsCurrentBranch(r)
        /\ \E n \in 0..1 : \E replaced \in SUBSET Supersedable(r, n) :
             Record(s, [r EXCEPT !.reflections = n, !.replaced = replaced])
        /\ Continue

DropperAnswers(s) ==
  LET r == runs[s] IN
  /\ r.stage = "dropping"
  /\ \/ ~IsCurrentBranch(r) /\ GiveUp(s)
     \/ /\ IsCurrentBranch(r)
        /\ \E pruned \in SUBSET r.pool : AppendEntries(Consolidated(r, pruned))
        /\ runs' = [runs EXCEPT ![s].stage = "refreshing"]
        /\ Continue

(* A request fails.  The error is swallowed.                               *)
RunFails(s) ==
  /\ runs[s].stage \in {"auth", "observing", "reflecting", "dropping"}
  /\ runs' = [runs EXCEPT ![s].stage = "failed"]
  /\ Continue
  /\ UNCHANGED session

FailedRunEnds(s) ==
  /\ runs[s].stage = "failed"
  /\ GiveUp(s)

(* A run that changed the session rebuilds the agent's messages.           *)
Refresh(s) ==
  /\ runs[s].stage = "refreshing"
  /\ transcript' = Context(leaf)
  /\ EndRun(s)
  /\ UNCHANGED session

-----------------------------------------------------------------------------
(* compact and _runAutoCompaction: a forced run first.                     *)

\* Mutant: a compaction that finds a run under way does not wait for it.
BeginCompactionBusy ==
  /\ compactor = "none" /\ emitting = 0 /\ compactions < MaxCompactions
  /\ compactions' = compactions + 1
  /\ compactor' = IF memoryRun = NoRun THEN "resuming" ELSE "waiting"
  /\ awaited' = NoRun
  /\ UNCHANGED <<session, turn, transcript, runs, memoryRun, scheduled>>

BeginCompaction ==
  /\ compactor = "none" /\ emitting = 0 /\ compactions < MaxCompactions
  /\ compactions' = compactions + 1
  /\ compactor' = IF memoryRun = NoRun THEN "resuming" ELSE "waiting"
  /\ awaited' = memoryRun
  /\ UNCHANGED <<session, turn, transcript, runs, memoryRun, scheduled>>

ForcedRun ==
  /\ compactor = "resuming"
  /\ StartRun(TRUE) /\ awaited' = FreeSlot
  /\ compactor' = "flushing"
  /\ UNCHANGED <<session, turn, transcript, compactions, scheduled>>

(* The newest messages of the branch are kept; a branch that ends in a     *)
(* compaction, or has nothing to leave out, is not compacted.              *)
AppendCompaction ==
  /\ compactor = "ready"
  /\ \/ UNCHANGED <<session, transcript>>
     \/ /\ leaf # 0 /\ entries[leaf].type # "compaction"
        /\ \E first \in Shown(leaf) :
             LET kept == {i \in Shown(leaf) : i >= first}
             IN /\ kept # Shown(leaf)
                /\ AppendEntries(<<Compaction(kept)>>)
                /\ transcript' = {entries[i].message : i \in kept}
  /\ compactor' = "none"
  /\ UNCHANGED <<turn, runs, memoryRun, awaited, compactions, scheduled>>

-----------------------------------------------------------------------------
RunStep(s) ==
  \/ Authorized(s)
  \/ ObserverAnswers(s)
  \/ ReflectorAnswers(s)
  \/ DropperAnswers(s)
  \/ RunFails(s)
  \/ FailedRunEnds(s)
  \/ Refresh(s)

Next ==
  \/ Prompt
  \/ EmitMessage
  \/ PersistMessage
  \/ Settle
  \/ \E target \in 0..Len(entries) : Navigate(target)
  \/ ScheduleMemory
  \/ BeginCompaction
  \/ ForcedRun
  \/ AppendCompaction
  \/ \E s \in Slots : RunStep(s)

Spec == Init /\ [][Next]_vars

(* A request to the provider is answered or fails, and promises resolve.   *)
MemoryFairness ==
  /\ \A s \in Slots : WF_vars(RunStep(s))
  /\ WF_vars(ForcedRun)
  /\ WF_vars(AppendCompaction)

FairSpec == Spec /\ MemoryFairness

-----------------------------------------------------------------------------
(* Properties.                                                             *)

(* Memory is never written onto a branch it is not about: what an entry    *)
(* cites are messages of its own branch, wherever the user went while the  *)
(* model was thinking.                                                     *)
SourcesOnBranch ==
  \A i \in DOMAIN entries :
    entries[i].type = "memory" => entries[i].sources \subseteq Messages(i)

(* Two runs never observe the same message on one branch, even when a      *)
(* forced run and a background run are under way together.                 *)
ObservedOnce ==
  \A i, j \in DOMAIN entries :
    /\ i \in entries[j].branch /\ i # j
    /\ entries[i].kind = "observation" /\ entries[j].kind = "observation"
    => entries[i].sources \cap entries[j].sources = {}

(* A reflection is superseded only by a newer reflection that cites        *)
(* everything it cited.                                                    *)
ProvenanceKept ==
  \A e \in DOMAIN entries : \A i \in entries[e].supersedes :
    entries[i].kind = "reflection" =>
      \E j \in entries[e].branch :
        /\ j > i /\ entries[j].kind = "reflection"
        /\ entries[i].sources \subseteq entries[j].sources

(* What a branch remembers is about its own messages, covers each of them   *)
(* once and forgets nothing that was consolidated, while runs overlap and   *)
(* the user moves between branches.                                        *)
MemoryOnBranch == SourcesOnBranch /\ ObservedOnce /\ ProvenanceKept

(* A compaction that has to wait for a memory run, and then runs its own,  *)
(* goes ahead in the end.                                                  *)
CompactionEnds == compactor # "none" ~> compactor = "none"

(* "Persist observations, reflections, and pruning decisions for the       *)
(* active branch": when the dropper answers and the user is where the run  *)
(* left the branch, the reflections it waits with are written.             *)
ReflectionsPersist ==
  [][\A s \in Slots :
       LET r == runs[s]
           at == IF r.wrote = {} THEN r.leaf
                 ELSE CHOOSE i \in r.wrote : \A j \in r.wrote : j <= i
       IN DropperAnswers(s) /\ leaf = at /\ r.reflections > 0
            => leaf' # leaf]_vars

(* The agent works on no message that its session would not restore, except *)
(* for the one that is being persisted: a branch that was left and a range   *)
(* that was compacted are gone from agent.state.messages too, whichever of   *)
(* the turn, a memory run, a navigation and a compaction replaced them last. *)
(* The other direction fails: a memory run that ends while a message waits   *)
(* to be persisted replaces the messages without it.                         *)
NothingUnsaved ==
  transcript \subseteq Context(leaf) \cup ({emitting} \ {0})

=============================================================================
