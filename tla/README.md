# A TLA+ verification project for It's My Pi

It's My Pi is a coding agent: a terminal or headless front end over an agent
loop that talks to language-model providers, runs tools, and keeps its
conversations in durable session files, optionally behind a session server that
several clients attach to.  This directory models the parts of it whose
correctness depends on *order*: what happens when a user types while a turn is
running, when a listener throws in the middle of a tool batch, when the process
dies half-way through an append, when a background model call returns after the
conversation has moved on, when two processes hold the same file.

Paths below are relative to `packages/` of the repository.  Section 1 is the
inventory, 2 the modules and how they fit together, 3 describes each of them,
4 the runs with their bounds and fairness, 5 what the code does otherwise than
it says, 6 the proofs and 7 what is left out.  `PROJECT.json` maps every
definition to its lines and lists the hazards and the properties aimed at them.

## 1. Inventory

| Component | State | Operations | Talks to | Hard behaviour |
|---|---|---|---|---|
| **Agent** (`agent/src/agent.ts`) | transcript, `pendingToolCalls`, `errorMessage`, two `PendingMessageQueue`s with a drain mode each, the `ActiveRun` with its abort signal | `prompt`, `continue`, `steer`, `followUp`, `clear*Queue`, `abort`, `reset`, `waitForIdle`, `subscribe` | drives the loop, reduces its events, awaits listeners | the embedder may call anything between two awaits of a run; listeners throw |
| **Agent loop** (`agent/src/agent-loop.ts`) | its own copy of the context, pending messages, the tool batch | inject, stream a response, execute tools sequentially or in parallel, poll queues | provider stream, tools, hooks, `emit` | parallel tools finish in any order; aborts and exceptions at every await |
| **Session state** (`agent/src/harness/session/state.ts`) | sequence, used ids, entry tree, lanes, records, open operations, labels, name | `applyMutation`, `createForkMutations`, queries | in-memory and JSONL storages | every mutation must be replayable from the log |
| **JSONL storage** (`agent/src/harness/session/jsonl/`) | a session file, the state folded from it, a promise chain of operations | `create`, `load`, `fork`, `appendEntry`, `appendRecord`, `createLane`, `moveLane`, `setName`, `setLabel` | file system | crash or failed write in the middle of an append, repair on load, rename |
| **SQLite backend** (`session-backends/sqlite-node/`) | tables, writer leases with a fence, branch cache | the same storage interface, `delete`, `repairBranchCache`, `fork` | SQLite | leases of two processes, expiry, a fork that reads piecewise |
| **Session memory** (`coding-agent/src/core/memory.ts`) | observations, traces and reflections on the session branch | observe, reflect, drop | side model, session manager | background calls that return after the branch has moved |
| **Project memory** (`coding-agent/src/core/project-memory.ts`) | a database of records and evidence per project | record a candidate, approve, demote, forget | SQLite, dialogs of the user | several agents and dialogs change the same records |
| **AgentSession** (`coding-agent/src/core/agent-session.ts`) | retry counters, compaction state, queued-message mirrors, deferred bash results | `prompt`, `abort`, `compact`, auto-compaction, auto-retry, `waitForIdle` | Agent, session manager, extensions, memory | retries, compaction and user input race |
| **Session manager** (`coding-agent/src/core/session-manager.ts`) | session entries, leaf, labels, the session file | append, branch, navigate, compact, open, fork, build context | file system | deferred first write, writes cut short, forks that leave entries out |
| **Session server** (`server/src/`) | connections with a handshake stage, live sessions, attachments, snapshots with a revision | hello, open, attach, detach, operations, close | clients over framed CBOR, session service | sessions disposed while a client attaches; broadcasts and disconnects |
| **Client** (`client/src/`) | connection, pending requests, session leases, session state | connect, open, lease, release, reconnect | server | responses and events racing, last lease released while another is taken |
| **Auth storage** (`coding-agent/src/core/auth-storage.ts`, `ai/src/auth/resolve.ts`) | credentials file under a lock, a cache with a revision | get, set, refresh | file system, OAuth | two processes refresh one token; a lock that goes stale |
| **Tools and file mutation queue** (`coding-agent/src/core/tools/`) | a promise chain per file | read, write, edit, bash | file system, shell | concurrent edits of one file through different names |
| **Harness reducer** (`agent/src/harness/reducer.ts`) | a record log per lane | `validateRecordLog`, `reduceLaneState` | storage | resume after a crash at any record |
| **AgentHarness** (`agent/src/harness/agent-harness.ts`) | - | mostly unimplemented stubs | - | - |
| **Protocol** (`protocol/src/`) | frame decoder buffer | frame, encode, decode | both ends | frames split at any byte |
| **Providers** (`ai/src/`) | request options, stream parsers | `stream`, `complete` | HTTP | third-party formats |
| **Extensions** (`coding-agent/src/core/extensions/`) | loaded extensions, handlers | load, emit, run commands | AgentSession | handlers that throw or change messages |
| **TUI and modes** (`tui/src/`, `coding-agent/src/modes/`) | component tree, terminal diff | render, input | terminal | layout; no concurrency of its own |
| **Telemetry, evals, package manager, settings, resource loading** | files, reports | - | - | I/O and configuration |

What makes each correct:

* Agent and loop: a submitted message is delivered once and in order, and is
  lost only if the run that took it fails; tool results stand where the calls
  stand; the model sees the transcript; every run settles.
* JSONL storage: an acknowledged mutation survives any crash; a load repairs a
  torn tail and nothing else; lanes point at entries that exist.
* SQLite backend: owners of a session never interleave; the cache shows the
  branches; a fork taken while others write can be used.
* Session memory: no source entry is summarised twice, and nothing is written on
  a branch the user has left.
* AgentSession: the session is idle exactly when it says so; tool results follow
  their calls; nothing queued is left behind; a prompt settles.
* Session manager: the file is the session; no message drops out of the context
  unless a compaction covers it; a fork is the path it was taken from.
* Session server and client: a session has one runtime, which is disposed of
  when nobody uses it and not before; clients are shown the last change; leases
  that are held are compatible and attached.
* Shared files: edits take effect one by one; credentials are not lost and a
  token is refreshed once; core memory is corroborated.

## 2. How the project is built

| Modules | Proofs in | Composed and checked in |
|---|---|---|
| `Agent` | `AgentProofs` | `MCAgent` |
| `SessionState`, `SessionFork`, `SessionStore` (abstract storage), `JsonlStorage` (the file that implements it) | `SessionStateProofs`, `SessionStorageProofs` | `MCJsonlStorage`, `MCSessionStorage` |
| `SessionMemory`, `AgentSession` | `AgentSessionProofs` (over `MCSessionMemory`) | `MCSessionMemory` |
| `LiveSessions`, `ServerSnapshots`, `ClientLeases` | `ServerProofs` (over `MCServer`) | `MCServer` |
| `SqliteStorage` (over `SessionState`) | `SqliteStorageProofs` | `MCSharedFiles` |
| `ProjectMemory`, `FileMutationQueue`, `SessionFile` | `SharedFilesProofs` | `MCSharedFiles` |
| `AuthStorage` | `AuthStorageProofs` | `MCSharedFiles` |

The modules of one MC module share no state in the code either: they are one
component seen at different interfaces, or neighbours that meet only through a
message.  Such an MC module has a variable `subject` that picks one of them in
the initial state, so that one TLC run explores each of them separately and a
property of one is not multiplied with the states of the others.  Where two
parts do interact, one module holds both: the agent with its loop, the prompt
loop with retries, compaction and memory updates, the server's manager with its
connections and its close, the client's leases with the server that answers.

Left of the plan: the reducer of lane records against a reference definition over bounded logs; framing against a
stream that is split anywhere; two storages over one JSONL file (`repo.ts` forks
and opens a file that a live storage appends to).

## 3. The modules

In every module a step ends where the code awaits, so that whatever other code
may run between two awaits is another step; code between two awaits is never
cut.  A module's header says what its steps are.

### 3.1 `Agent`

One run of the loop is a chain of awaits in a single-threaded runtime.  `pc`
names the await the run is suspended at; between two of them any action of
`Embedder` may happen, which is what an embedder calling `steer`, `abort` or
`reset` from another task does.  Consecutive awaited emits without a state
change in between are one step.  Every emit may instead throw (`Throw`), which
takes control to `handleRunFailure` (`FailMessage`, `FailTurnEnd`,
`FailAgentEnd`) and always to `finishRun` (`FinishRun`).

| Code | Model |
|---|---|
| `_state.messages`, `pendingToolCalls`, `errorMessage` | `messages`, `pendingToolCalls`, `errorMessage` |
| `PendingMessageQueue` (`drain`) | `steeringQueue`, `followUpQueue`, the modes; `Drained`, `Remaining` |
| `activeRun`, its signal | `activeRun`, `aborted` |
| `currentContext.messages`, `pendingMessages`, `hasMoreToolCalls` of `runLoop` | `context`, `pending`, `hasMoreToolCalls` |
| prompts and `continue` | `Prompt`, `ContinueFromSteering`, `ContinueFromFollowUp`, `ContinueFromTranscript` |
| `streamAssistantResponse` | `StreamAssistantResponse`: any stop reason, any number of calls |
| `executeToolCalls*`, `failToolCallsFromTruncatedMessage` | `batch`, `callState`; `StartCall` ... `ReportResult` |
| parallel tools behind `Promise.all` | `FinishCall`, `FailCall`; `FinishOrphan` once nobody awaits them |

Message contents, partial updates while streaming and token accounting are
abstracted.  `source`, `cleared`, `dropped`, `faults` and `ended` are history.

### 3.2 `SessionState`, `SessionFork`, `SessionStore`

`SessionState` translates `applyMutation` of `state.ts`: `Valid` is its checks
and `Apply` its changes.  `Accepts` is what a storage checks before it writes
and `MutationOf` what it writes.  `SessionFork` translates
`createForkMutations` and states what a fork has to be without mentioning
mutations (`ForkOf`).  `SessionStore` is the abstract storage: an accepted
operation takes effect at once.  It is also what `InMemorySessionStorage` does.

### 3.3 `JsonlStorage`

The file is a sequence of lines and a flag that says whether the last one ends
in a newline.  A line is a mutation, the header or `Garbage`, text that does
not parse.  `Written` is what `appendFile` leaves when it stops after nothing,
part of the line, the line without its newline, or all of it.  An append to a
file whose last line does not end runs on behind that line, and the two do not
parse together.

| Code | Model |
|---|---|
| `tail`, `enqueue` | `queue`; the head runs |
| `createLane` ... `setLabel` | `Reject` or `BeginAppend`, then `AppendDone` or `AppendFails` |
| `load` | `BeginLoad`, `ReplayLine` per line, `ReplayTornTail`, `ReplayRefuses`, `ReplayEnd`, `Terminate` |
| `publishFileAtomically` | `Stage`, `Publish`, `LoadFails` |
| the process dies | `Crash`: `CrashFile` says what reached the disk |

`versions` is a history variable: the states the file has stood for.  Its last
element, `Durable`, is the refinement mapping: `StoreView == INSTANCE
SessionStore WITH store <- Durable`.

### 3.4 `SqliteStorage`

One session of a database that several processes open.  The rows are a state of
`SessionState`; a transaction is one step and one that throws leaves no trace.
`Claim` is `claimWriterLease` with its fence, `Write` a mutation with the renewal
of the lease in its transaction (`Renews`), `FailedLease` a storage that finds
its lease gone.  `cache` is `branch_entries` and `branch_tips`: `AppendToCache`
extends the branch of the tip, or copies a prefix of another branch
(`CopyThroughSeq`) as `branch-cache.ts` does, and `Rebuilt` is the repair.  A
fork is a sequence of reads in separate statements (`ForkReadsEntries` ...
`ForkReadsFacts`) with everything else in between, and one commit.

### 3.5 `SessionMemory`

The session is a tree of entries; an entry carries the set of positions on its
branch.  A memory run is a record in `runs`, and each action of a run is what
happens from one answer of the model to the next request: `Authorized`,
`ObserverAnswers`, `ReflectorAnswers`, `DropperAnswers`, `Refresh`.  Each of
them starts with the check of the branch (`IsCurrentBranch`) where the code has
one.  `RunFails` is a request that throws.  Between them the user prompts, a
turn appends messages (`EmitMessage`, then `PersistMessage` once extensions were
told), the leaf moves (`Navigate`), the settled turn schedules a run
(`ScheduleMemory`), and a compaction waits for the run under way, starts a
forced one and appends its entry (`BeginCompaction`, `ForcedRun`,
`AppendCompaction`).

`_memoryRun` is a single variable, yet two runs can be under way: a forced run
does not look at it again after its wait.  That is why `runs` has slots.

Tokens are counts: one per message and per observation.  An answer of the model
holds at most one observation, one trace line and one reflection; it may
supersede and prune any set the code lets it.  Navigation with a summary,
extensions that replace a compaction, and the promotion of reflections into
project memory are left out (the last is in `ProjectMemory`).

### 3.6 `AgentSession`

The loop of `_runAgentPrompt` around the runs of the agent.  Each call of
`prompt` has a stage `pc` and a reason `why`; the run it has started has a phase
of its own, and what the agent does in it is a nondeterministic outcome.
`PostRun` is `_handlePostAgentRun`, with its retry (`PrepareRetry`,
`RetryElapsed`, `RetryCancelled`), recovery from overflow and threshold
compaction (`CompactionMemory`, `CompactionCancelled`, `CompactionAppended`,
`CompactionReported`) and queued continuation.  `manual` is a compaction or an
abort of the embedder.  `shown` is `agent.state.messages` and `saved` what the
session would restore, as sequences of roles: enough to say that a call is
followed by its result and that `agent.continue` accepts the transcript.
`MemoryUpdated` replaces `shown` by `saved`, which is how a dropped response
comes back (`restored`).  `overlap` remembers that two prompts were let in on
one stale check.

### 3.7 `SessionFile`

`SessionManager` and its file.  An entry is the child of the leaf it is appended
behind; the file gets its first line with the first answer of the model
(`Persist`), and each later entry at once.  A write may stop before its
first byte, inside a line or in front of the newline (`Ends`, `Cuts`).
`NavigateTree` moves the leaf, `Compact` takes the cut of `findCutPoint`
(`CutPoints`, `FirstKept`), `OpenAgain` reads the file (`Opened`), `Fork` is
`createBranchedSession`.  `ContextOf` is `buildContextEntries`.

### 3.8 `LiveSessions`

`LiveSessionManager` and `PiServer.close`.  A request is a record whose `pc` is
the await it is suspended at; one whose promise has settled (`Resumed`) goes on
before any other event, as node does.  `Acquire` joins the live session, waits
for its disposal or for an opening under way, or opens a runtime (`Opening`,
`OpenRuntime`, `OpenSnapshot`, `OpenEnds`), `Discard`s it on failure; `Attach`
is what follows in `attach`; `MaybeDispose` gives the runtime back once nobody
is attached, nothing runs and the phase is idle; `Close`, `CloseConnections`,
`CloseManager`, `CloseSessions`, `CloseEnds` take everything down.  The service
is the environment: runtimes open or fail, change (`RuntimeUpdate`), terminate
and are disposed of (`DisposeSettles`).  `create` with a fresh id and list
requests are abstracted.

### 3.9 `ServerSnapshots`

`ServerSnapshotPublisher` and `finishHandshake`: a revision per broadcast, a
queue of broadcasts run one after the other, a handshake that lists the
sessions, sends them and catches up, and the client that keeps the snapshot with
the highest revision.

### 3.10 `ClientLeases`

The leases of one session that `PiClient` hands out over its one attachment,
with the server as the client meets it.  A lease is suspended at the await its
`pc` names: a detachment, an attachment or a reconciliation under way, or its
own request.  `leaseCount`, `exclusiveLease`, `generation`, `cleanupRequired`
are the client's maps.  Requests fail, the connection is lost and comes back.

### 3.11 `ProjectMemory`, `FileMutationQueue`, `AuthStorage`

`ProjectMemory`: two agents record candidates in a table with a unique text
(`InsertOrIgnore`, then `CommitCandidate`), and the dialogs that promote, edit,
demote or forget a record hold what they read until the user answers.

`FileMutationQueue`: calls of edit and write on one file, by its path or an
alias.  A call waits to register (`ResolveKey`, `Register`), then behind the last
call of its key, and reads, truncates and writes in separate steps.  What the
file shows is the sequence of calls visible in it.

`AuthStorage`: a call waits for the lock file, reads, may ask the provider for a
new token while it holds the lock, writes and releases.  A lock file goes stale
and may be taken from a live process: `mishaps` remembers that, and the other
three things that can happen to a token or to the file.

## 4. Runs

| Run | Question | Bounds and why they are enough |
|---|---|---|
| `agent_queues` (2.0 M states) | Is every submitted message delivered in the order of its queue, follow-ups only where the run would stop? | Three messages, both modes, mode changes: two in one queue and one in the other, or all in one |
| `agent_faults` (0.7 M) | Are messages kept, results in place, requests the transcript, `pendingToolCalls` exact, `agent_end` last, and does every run end, when a listener throws? | Two messages, two calls, one exception: it reaches every catch and every orphaned tool |
| `session_storage` (0.2 M) | Is the state sound and every fork what it should be? Does what was acknowledged survive crashes, and does the file implement the abstract storage? | Five mutations over four ids and two lanes: a branch point, a lane on it and an open operation or a label.  Two crashes at any byte, the second inside the repair of the first; four mutations, two operations chained |
| `jsonl_faults` (0.4 M) | Is memory sound and does the chain move when a write fails? | One failed write and one crash |
| `jsonl_ack_lost` (violation) | Does the repair drop only what was not acknowledged? | One failed write, one acknowledged behind it, one crash |
| `session_memory` (0.2 M) | Is memory written on the branch it is about, once, with its provenance? Is the session idle when it says so, are its transcripts acceptable, does nothing strand, does all of it settle? | Two messages, so branches fork; a background and a forced run at once; a pool that overflows.  Two prompts, one retry, one event of each kind at any moment, failures while there are fewer than four messages |
| `memory_reflections_lost` (violation) | Are the reflections of a run written? | One message |
| `server_safety` (0.7 M) | Has a session one runtime, disposed of when unused and not before? Are clients shown the last change? Do leases, the client's maps and the server agree? | Two connections, three requests, two runtimes, one lost snapshot; two clients, two changes, one failure; three leases, two lost connections |
| `server_liveness` (67 K) | Is every request answered, does the close end, does the queue drain, does every lease settle? | The same with one client, two leases and one lost connection |
| `attach_race` (violation) | Is the session live for a client that is attached? | Two attaches and one runtime |
| `shared_files` (0.3 M) | Do owners never interleave, is the branch cache faithful, can forks be used? Is core memory sound, do edits serialize, are credentials sound, is the session file the session, and a fork its path? | Two processes with six claims, mutations, deletions, repairs and forks in all; two agents, two texts, two dialogs; three tool calls; two calls on `auth.json`, three tokens, one death; six entries of a session and two label changes, navigations, forks, opens or cuts |
| `fork_context` (violation) | Is the model sent the same after a clone? | A label and a compaction |

Deadlock is not checked: in every model the embedder, the callers or the user
may stop for good, and the bounds end every behaviour.  Ids, slots and
processes are interchangeable model values in the safety runs (`SYMMETRY`), not
in the runs with temporal properties except `ImplementsStore` and `ForkKeepsPath`,
which are about single steps and hold for every permutation alike.

**Fairness.** Everywhere it is weak fairness of what the runtime, the file
system, the provider or the transport owes, since a settled promise is resumed
and a call is answered or fails: the loop and each tool of `Agent`; the chain
and a load of `JsonlStorage`; each memory run and the awaits of a compaction of
`SessionMemory`; the agent, the prompt loop and manual compactions of
`AgentSession`; `Progress` of `LiveSessions`; `Publishing` of
`ServerSnapshots`; `Continue` and `Answer` of each lease and request of
`ClientLeases`.  Embedders, callers, users, crashes and reconnects owe nothing.

## 5. Where the code and its words differ

**Runs that find a violation.**

1. `jsonl_ack_lost`: `storage.ts:86` repairs a torn tail by dropping "the
   unacknowledged partial append".  An append that failed part-way is not undone,
   so the next one, acknowledged, continues on its line.  The load drops that
   line, and with it a mutation whose caller was told that it is stored.
2. `memory_reflections_lost`: `memory.ts:117` says that reflections and pruning
   decisions are persisted.  A run that appended an observation has moved the
   leaf itself, so the check behind the dropper (`memory.ts:221`) fails with
   nobody having moved, and the reflections are discarded.  Relaxing the check to
   "the leaf still descends from where the run began" would break
   `ObservedOnce`: that is the mutant `SameBranch`.
3. `attach_race`: `attach` (`sessions.ts:301`) adds the connection without
   looking again at what it awaited; a client may be attached to a runtime that
   has terminated or is being disposed of.
4. `fork_context`: `createBranchedSession` (`session-manager.ts:1542`) leaves out
   label entries but not the compactions that keep from one; the clone then sends
   none of the kept messages to the model.

**Seen while modelling, without a run of their own.**  The models follow the
code in all of these.

* `agent.ts:247` calls `agent_end` the final event of a run; a tool orphaned by
  a listener that throws ends after it (`FinishOrphan`, hence `faults > 0` in
  `AgentEndIsFinal`).
* `agent-session.ts:893` finalises a message before it is persisted; a memory run
  that ends between the two rebuilds `agent.state.messages` without it.
* `agent-session.ts:1065` documents `isIdle`; two prompts, or a prompt and
  `compact()`, let in on one stale check break it (`overlap`).  A continuation
  that `:2365` decides on is refused when a memory run brought the dropped
  response back (`restored`).
* `agent-session.ts:770` says that a failed memory run leaves its sources
  unprocessed; when the third request fails (`memory.ts:215`) the observations of
  the first are on the branch and mark them processed.
* `snapshots.ts:54`: a broadcast with no ready client is dropped, and a client
  whose handshake has listed the sessions before is not caught up (`skipped`).
* `server.ts`: requests chained on the handshake may run after later ones; in
  `client/src/connection.ts` the rest of an old chunk is handled on a re-opened
  connection; `transports/unix/listener.ts` lets start and close race.
* `sessions.ts`: a detach handled in the same chunk can dispose of a runtime that
  an attach has found and then joins.
* `auth-storage.ts:75`: the lock goes stale after 10 s for synchronous calls and
  after 30 s for others, while a refresh may take 15 s (`resolve.ts:120`): a
  constructor may take the lock of a process that refreshes (`mishaps`).  A
  rotated token is discarded when the call is aborted after the provider has
  answered; `auth.json` is written in place.
* `project-memory.ts:179`: approving brings a record back that was forgotten
  while the dialog was open.
* `session-manager.ts`: a torn tail is not repaired; a first flush that fails
  leaves a file that blocks the next with `EEXIST`; a cut in the header makes a
  file that is refused.
* `repo.ts:76`, `:707`: a fork reads, and an open claims, a file that another
  storage may be appending to.  Aliases of a file that does not exist yet have
  different keys in the mutation queue (`OneKey`).

## 6. Proofs

`tlapm` checks every proof; no bound is assumed to have a particular value, so
a theorem holds for any number of messages, calls, processes, clients, crashes
and failures.  Assumptions on constants are the named `ASSUME`s of the modules:
bounds are natural numbers, modes are among the two the code has, the main lane
exists, null values are no ids, what is counted is finite.  TLC evaluates them in
the runs.  The inductive invariants were checked by TLC on small
instances before they were proved, where it can evaluate them.

| Property | Run | Theorem |
|---|---|---|
| `MessagesKept`, `QueueOrder`, `ResultsFollowCalls`, `RequestsWellFormed`, `PendingToolCallsExact`, `AgentEndIsFinal` | `agent_*` | `AgentProofs`: `MessagesKeptAlways`, `QueueOrderAlways`, `ResultsFollowCallsAlways`, `RequestsAlwaysWellFormed`, `PendingToolCallsAlwaysExact`, `AgentEndAlwaysFinal` |
| `StoreSound`, `ForksFaithful`, `AckedSurvive`, `FileReadable`, `LiveIsDurable`, `LiveSound`, `ImplementsStore` | `session_storage`, `jsonl_faults` | `SessionStorageProofs`: `StoreAlwaysSound`, `ForksAlwaysFaithful`, `AckedSurviveAlways`, `FileAlwaysReadable`, `LiveIsDurableAlways`, `LiveAlwaysSound`, `JsonlImplementsStore` |
| `IdleMeansIdle`, `TranscriptAcceptable`, `NothingStranded`, `MemoryOnBranch`, `NothingUnsaved`, `SessionTypeOK` | `session_memory` | `AgentSessionProofs`: `IdleAlwaysMeansIdle`, `TranscriptAlwaysAcceptable`, `NothingIsStranded`, `MemoryAlwaysOnBranch`, `NothingEverUnsaved`, `SessionTypeCorrect` |
| `RuntimesExclusive`, `NothingLeftBehind`, `ClientsUpToDate`, `AttachmentsAgree`, `ServerTypeOK` | `server_safety` | `ServerProofs`: `RuntimesAlwaysExclusive`, `NothingIsLeftBehind`, `ClientsAlwaysUpToDate` (from `ViewsAlwaysConverge` and `ClientsAlwaysCaughtUp`), `AttachmentsAlwaysAgree`, `ServerTypeCorrect` |
| `OwnersDoNotInterleave`, `CacheFaithful`, `ForkResolves` | `shared_files` | `SqliteStorageProofs`: `OwnersNeverInterleave`, `CacheAlwaysFaithful`, `ForkAlwaysResolves` |
| `CoreIsSound`, `MutationsSerialize`, `FileIsSession`, `ContextComplete` | `shared_files` | `SharedFilesProofs`: `CoreAlwaysSound`, `MutationsAlwaysSerialize`, `FileAlwaysIsSession`, `ContextAlwaysComplete` |
| `CredentialsSound`, `SharedFilesTypeOK` | `shared_files` | `AuthStorageProofs`: `CredentialsAlwaysSound`, `SharedFilesTypeCorrect` |

**`AgentProofs`.** All of its invariants stand on `ControlInv`: the types, where
the run is and what its cursors point at.  `TypeOK` alone is not inductive,
because `batch.calls[batch.next]` is a call only while `batch.next` is in range.

* *Results.* The assistant message whose batch is executed ends the transcript,
  followed by the results reported so far (`BatchEndsTranscript`).
* *Messages.* `AccountInv`: every id below `nextMessage` is in exactly one place,
  and none at or above it is anywhere.
* *Calls.* `CallsInv`: which state a call may be in is decided by where control
  is in the batch (calls launched, being executed, finished in which order,
  reported), as long as nothing has thrown; a throw only ever leaves calls that
  run.  `PendingToolCallsExact` and `AgentEndIsFinal` follow.
* *Requests.* `ContextInv`: the loop's own context is the transcript, up to
  prompts that are not emitted yet and results that are reported but not yet in
  the context.  With `CallsInv` every call has its result when the model is
  asked next.
* *Order.* `OrderInv`: both queues, the list being injected and the delivered
  messages of each source rise; delivered comes before pending, and pending
  before queued.
* *Stops.* `StopInv`: between turns, when no tool call is left, the transcript
  ends where the agent would stop (`AtStop`), and what is injected comes from one
  queue.  This is what makes a follow-up wait.

**`SessionStateProofs`, `SessionStorageProofs`.** An accepted operation yields a
valid mutation, and a valid mutation of an accepted operation keeps `Sound`:
lanes and labels point at entries, a parent is older than its child, ids are not
shared, a lane has at most one open operation.  The theorems about the file are
about `CrashSpec`, in which a write that is not cut short by the death of the
process succeeds; with failed writes some are false, as `jsonl_ack_lost` shows.
`JsonlInv` says that the lines behind the header are a chain: `versions[k]` is
`versions[k-1]` after line `k`, followed at most by one torn line (`ChainInv`,
`ShapeInv`), that acknowledged mutations are on the chain (`AckedInv`), and where
a load stands on it (`PhaseInv`).  `JsonlImplementsStore` is the step simulation:
a step appends a state to `versions` only by a complete line, the mutation of an
operation accepted in `Durable`; every other step leaves `Durable` alone.

`LiveAlwaysSound` is about the specification in which writes fail as well, where
the file is no longer a chain and `JsonlInv` is false.  `FaultInv` asks less of
more: whatever a process holds, in use, while it appends and while it loads, is
the replay of some list of mutations of which each was valid where it was applied
(`IsReplay`), and such a replay is sound (`ReplaysSound`).

`ForksAlwaysFaithful` needs of a session that its state is sound, that main is
one of its lanes and that it has finitely many (`LanesInv`).  What a fork copies
is a list in which numbers rise and a parent is in front of its children
(`CopiesOf`): the entries in the order of their numbers (`InOrderLists`), or the
branch of the target, whose walk ends at a root because the number of its first
entry falls with every step (`BranchStands`) and which is in every set that has
the target and is closed under parents (`BranchClosed`).  `Forked` says what the
new session is after the first `k` mutations, and each kind of mutation is valid
there and leads to what `Forked` says of `k + 1` (`EntryStep`, `LaneStep`,
`NameStep`, `LabelStep`); after the last one that is `ForkOf` (`ForkedSound`).
Walks and replays are functions of a number, so what holds of all of them is
shown of the least number of which it does not hold (`LeastNumber`, `WalkEnds`).

**`SqliteStorageProofs`.** Owner numbers only grow, the row holds the last claim
or none, and a storage that passes `Renews` is the owner in the row.

`SqlInv` adds the cache and the forks.  `CacheInv`: a cached branch is closed
under parents and every entry in it has one child in it at most, up to the tip;
every entry is in one.  That such a branch is the path the recursive `RootPath`
walks is `ChainPath`; that the walk has a value at all is shown with the least
sets closed under it (`LeastClosed`), since the provers have no induction over
data, and induction over a sequence number is `LeastNumber`.  `ForkInv` says what
a fork that is being read has so far: entries and lanes of the source as it was
at the time of each read, which only grows (`Grows`) and keeps the path of every
old entry (`GrowthKeepsPath`); so later reads resolve in what earlier ones found,
as long as the source was not deleted (`fork.of = deletes`).

**`AgentSessionProofs`.** `LoopInv`: while prompts are let in one at a time
(`~overlap`), `active` is true exactly while one call is in its loop, that call
alone has the run, and a manual compaction excludes both.  `TextInv` adds the
transcripts: each is in order (a call, its result, nothing between), what a
retry or a continuation goes on from does not end in a completed answer, behind
a failed run both end in the failed response, and the shown transcript ends well
whenever the saved one does.  `TypesInv` bounds what is queued or held back by
the events so far, without which the bounds of the queues are not inductive.

`MemoryInv` is about session memory.  `TreeSound`: the entries form a tree, so a
branch is closed under the branches of its entries and appending changes none
that existed (`BranchStays`).  `RunsSound`: what a run holds (the messages it
shows to the observer, the reflections it replaces, the pool of the dropper) was
read at its `branchLeafId` and is still true there, whatever was appended
elsewhere.  A run writes only where the leaf is that of its beginning, so the
lists it appends fit that branch (`Listed`, `WrittenListed`): they cite messages
of the branch, the observation none that was observed, and a reflection is
superseded behind the one that cites its sources.  `MemoryOnBranch` is then kept
by every append, and `NothingUnsaved` because an appended entry other than a
compaction hides nothing and a compaction shows what it kept.

**`AuthStorageProofs`.** `AuthInv`: types; revisions that a process has in memory
were revisions of the file with the same content; and, while nothing was stolen,
at most one operation is behind the lock, it is the one whose lock file exists,
and what it has read is what the file holds.  `AuthBounded` adds what
`AuthTypeOK` says of bounds.  A revision is no more than one for each call that is
behind its commit and each process that died, so the calls in front of theirs are
counted (`RevisionsCounted`, with the set `Uncommitted`, which is finite).
`SharedFilesInv` puts the invariants of the files together as `MCSharedFiles`
does; this module therefore extends the other two about files.

**`SharedFilesProofs`.** `ProjectInv`: records have distinct ids and texts, evidence is about a record, a dialog that may promote one has seen
evidence of two sessions, which is never taken away.  `FilesInv`: the calls of a
key form a chain, each behind the one registered before; everything in front of
the call that runs has ended; the file shows in order the calls that survive.

`SessionFileInv` is stated for the records an operation passes from one append
to the next (`Ready`), since `NavigateTree` appends twice and the second append
depends on the first.  While nothing was cut short the file follows the session
(`FileFollows`, `LabelsFollow`).  After that only the loss is bounded, and the
bound is no invariant by itself: the line that is lost next depends on how the
last one ended.  `LossBounded` therefore counts what is at stake too (`AtStake`:
one entry behind a torn line, two behind a line without its newline), which the
cut has paid for; `FileSound` and `OlderThanNext` say that there is no header
without a file, that nothing was acknowledged without one, and that ids rise.
`TreeFollows` is what `ContextComplete` needs.  It is about the sequences that
are branches, not about the walk that finds them: every branch of the entries is
`Complete` (ids rise, a tool result is behind its call, a compaction keeps from a
place where a result still has its call, and what is in front of that place is
covered, as long as the compactions before it kept from entries of the branch).
A branch that is new has the appended entry at its end (`BranchOfAppended`), so
each operation only shows that its entry may follow the path to the leaf
(`MayFollow`: `MessageFollows`, `CompactFollows`, `OtherFollows`).  A fork is a
chain of what is left of a branch without its labels (`Thins`), and taking labels
out keeps a branch complete (`ThinsComplete`).  `Path` finds the one branch that
ends in the leaf (`PathIsBranch`, `BranchUnique`), and `CompleteShows` says what
the context made from it contains.

**`ServerProofs`.** `LeasesInv`: the count is the number of leases that hold one
(`Counted`, finite), a detachment is alone, requests under way are those that
leases wait for, and the server is attached when the client believes so unless
it `strayed`.  `SnapshotsInv`: the last revision given out shows all announced
changes, or a broadcast is still to come, and it is on its way to, or has
arrived at, every ready client.

`LiveInv` is about the live sessions.  `RuntimesSound` and `OpeningsSound` say who
answers for a runtime: the one request in `openingSessions` while it opens or is
discarded, the manager while it is open, and close, once close has emptied the
manager (`TakenDown`: no request can open that session any more).
`SingleRuntime` follows, since these exclude each other per session.
`UsesSound` says that a suspended request has an open runtime of its session in
hand, and `OperationsCounted` that `operationCount` is the number of operations
under way, without which `NoDisposeInUse` is not inductive.  `CloseSound` says
what close has found and waits for; `ViewsSound` that the last revision of a live
session is shown to, or on its way to, each of its ready clients (`Arrives`).
`ServerInvariant` puts the three parts together as `MCServer` does.

**Only model-checked, and why.**

* Liveness (`RunSettles`, `ChainMoves`, `CompactionEnds`, `PromptSettles`,
  `ServerSettles`, `LeasesSettle`): needs `ENABLED`.
* `ForkKeepsPath`: about selections from sequences (`SelectSeq`), which need
  induction over data.

## 7. Not modelled

Components without a module are in `PROJECT.json` with the reason: those left in
the plan of section 2, and those whose difficulty is not in the order of things
(providers' wire formats, the terminal interface, settings and packages,
telemetry), which are most of the repository's lines.  Within the modelled parts:
message payloads, timestamps and usage totals; read-only queries; what
extensions may override; file names and directories of sessions; migrations.
