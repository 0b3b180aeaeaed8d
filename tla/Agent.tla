------------------------------- MODULE Agent -------------------------------
(***************************************************************************)
(* The stateful agent of packages/agent/src/agent.ts and the loop it       *)
(* drives, packages/agent/src/agent-loop.ts.                               *)
(*                                                                         *)
(* One run is a chain of awaits: inject user messages, ask the model,      *)
(* execute its tool calls, poll the two queues, go round again.  Between   *)
(* two awaits the embedder may queue messages, abort, or clear the queues. *)
(* pc names the await the run is suspended at.  Consecutive events with no *)
(* state change between them are emitted in one step; each such step may   *)
(* instead be the one at which a listener or a hook throws.                *)
(***************************************************************************)
EXTENDS Integers, Sequences, FiniteSets

CONSTANTS
  Modes,         \* QueueModes the embedder selects
  MaxMessages,   \* user messages the embedder may submit        (bound)
  MaxCalls,      \* tool calls the model may issue in all         (bound)
  MaxBatch,      \* tool calls in one assistant message           (bound)
  MaxFaults      \* exceptions thrown by listeners and hooks      (bound)

QueueModes == {"all", "one-at-a-time"}

ASSUME ModesAssumption == Modes \subseteq QueueModes

ASSUME BoundsAssumption ==
  /\ MaxMessages \in Nat
  /\ MaxCalls \in Nat
  /\ MaxBatch \in Nat
  /\ MaxFaults \in Nat

VARIABLES
  messages,          \* AgentState.messages, the transcript
  pendingToolCalls,  \* AgentState.pendingToolCalls
  errorMessage,      \* AgentState.errorMessage is set
  steeringQueue,     \* PendingMessageQueue of steer()
  followUpQueue,     \* PendingMessageQueue of followUp()
  steeringMode,      \* QueueMode of the steering queue
  followUpMode,      \* QueueMode of the follow-up queue
  activeRun,         \* is there an ActiveRun
  aborted,           \* its AbortSignal
  pc,                \* the await the run is suspended at
  context,           \* currentContext.messages of runLoop
  pending,           \* prompts, then pendingMessages, still to inject
  skipPoll,          \* skipInitialSteeringPoll of the loop config
  hasMoreToolCalls,  \* the inner loop owes the model another request
  batch,             \* the tool calls of the last assistant message
  callState,         \* progress of every tool call issued so far
  terminating,       \* finished calls whose result has terminate === true
  nextMessage,       \* next fresh user-message id
  nextCall,          \* next fresh tool-call id
  source,            \* history: the operation that submitted each message
  cleared,           \* history: messages removed by clear*Queue or reset
  dropped,           \* history: messages a failed run had taken and lost
  faults,            \* history: exceptions thrown so far
  ended              \* history: agent_end was emitted in the current run

agentState == <<messages, pendingToolCalls, errorMessage>>
queues     == <<steeringQueue, followUpQueue>>
modes      == <<steeringMode, followUpMode>>
tools      == <<batch, callState, terminating>>
loopState  == <<pc, context, pending, skipPoll, hasMoreToolCalls, tools>>
supply     == <<nextMessage, nextCall, source>>
history    == <<cleared, dropped, ended>>
vars == <<agentState, queues, modes, activeRun, aborted, loopState, supply,
          history, faults>>

-----------------------------------------------------------------------------
(* Messages.  Every field is present in every record so that a transcript  *)
(* has one element type; stop and calls matter for assistant messages only.*)

Calls == 1..MaxCalls
Ids == 1..MaxMessages
StopReasons == {"none", "stop", "length", "error", "aborted"}

Message == [role : {"user", "assistant", "toolResult"},
            id : Nat, stop : StopReasons, calls : Seq(Calls)]

User(m) == [role |-> "user", id |-> m, stop |-> "none", calls |-> <<>>]
Assistant(stop, calls) ==
  [role |-> "assistant", id |-> 0, stop |-> stop, calls |-> calls]
ToolResult(c) ==
  [role |-> "toolResult", id |-> c, stop |-> "none", calls |-> <<>>]

CallStates == {"unused",     \* not issued yet
               "issued",     \* in an assistant message, nothing done for it
               "preparing",  \* tool_execution_start emitted
               "prepared",   \* a parallel call waiting for Promise.all
               "running",    \* tool.execute is pending
               "finished",   \* tool_execution_end emitted
               "reported",   \* its tool result is in the transcript
               "failed"}     \* its promise rejected: a listener threw

(* next: the call being prepared; reported: results already emitted.       *)
BatchModes == {"sequential", "parallel", "truncated"}
Batch(calls, mode) ==
  [calls |-> calls, mode |-> mode, next |-> 1, reported |-> 0]
NoBatch == Batch(<<>>, "sequential")

Control == {"idle", "prompts", "pollSteering", "turn", "llm", "startCall",
            "prepareCall", "nextCall", "await", "report", "turnEnd",
            "errorTurnEnd", "pollFollowUp", "agentEnd",
            "failMessage", "failTurnEnd", "failAgentEnd", "finish"}
Sources == {"none", "prompt", "steer", "followUp"}

TranscriptType ==
  /\ messages \in Seq(Message)
  /\ context \in Seq(Message)

QueueType ==
  /\ steeringQueue \in Seq(Ids)
  /\ followUpQueue \in Seq(Ids)
  /\ pending \in Seq(Ids)
  /\ steeringMode \in Modes
  /\ followUpMode \in Modes

ToolType ==
  /\ pendingToolCalls \in SUBSET Calls
  /\ batch \in [calls : Seq(Calls), mode : BatchModes, next : Nat, reported : Nat]
  /\ callState \in [Calls -> CallStates]
  /\ terminating \in SUBSET Calls
  /\ nextCall \in 1..(MaxCalls + 1)

FlagType ==
  /\ pc \in Control
  /\ errorMessage \in BOOLEAN
  /\ activeRun \in BOOLEAN
  /\ aborted \in BOOLEAN
  /\ skipPoll \in BOOLEAN
  /\ hasMoreToolCalls \in BOOLEAN
  /\ ended \in BOOLEAN

HistoryType ==
  /\ nextMessage \in 1..(MaxMessages + 1)
  /\ source \in [Ids -> Sources]
  /\ cleared \in SUBSET Nat
  /\ dropped \in SUBSET Ids
  /\ faults \in 0..MaxFaults

TypeOK ==
  /\ TranscriptType
  /\ QueueType
  /\ ToolType
  /\ FlagType
  /\ HistoryType

Init ==
  /\ messages = <<>>
  /\ pendingToolCalls = {}
  /\ errorMessage = FALSE
  /\ steeringQueue = <<>>
  /\ followUpQueue = <<>>
  /\ steeringMode \in Modes
  /\ followUpMode \in Modes
  /\ activeRun = FALSE
  /\ aborted = FALSE
  /\ pc = "idle"
  /\ context = <<>>
  /\ pending = <<>>
  /\ skipPoll = FALSE
  /\ hasMoreToolCalls = FALSE
  /\ batch = NoBatch
  /\ callState = [c \in Calls |-> "unused"]
  /\ terminating = {}
  /\ nextMessage = 1
  /\ nextCall = 1
  /\ source = [m \in Ids |-> "none"]
  /\ cleared = {}
  /\ dropped = {}
  /\ faults = 0
  /\ ended = FALSE

-----------------------------------------------------------------------------
(* PendingMessageQueue.drain: everything in mode "all", else the head.     *)

Drained(queue, mode) ==
  IF queue = <<>> \/ mode = "all" THEN queue ELSE <<Head(queue)>>

Remaining(queue, mode) ==
  IF queue = <<>> \/ mode = "all" THEN <<>> ELSE Tail(queue)

Elements(s) == {s[i] : i \in DOMAIN s}
UserMessages(ids) == [i \in 1..Len(ids) |-> User(ids[i])]

(* The user messages the transcript holds.                                 *)
Delivered ==
  {messages[i].id : i \in {j \in DOMAIN messages : messages[j].role = "user"}}

-----------------------------------------------------------------------------
(* Operations of the embedder.  They are synchronous and may fall between  *)
(* any two steps of a run.                                                 *)

(* A fresh message handed to the agent by operation op.                    *)
Submit(op) ==
  /\ nextMessage <= MaxMessages
  /\ source' = [source EXCEPT ![nextMessage] = op]
  /\ nextMessage' = nextMessage + 1

Steer ==
  /\ Submit("steer")
  /\ steeringQueue' = Append(steeringQueue, nextMessage)
  /\ UNCHANGED <<agentState, followUpQueue, modes, activeRun, aborted,
                 loopState, nextCall, history, faults>>

FollowUp ==
  /\ Submit("followUp")
  /\ followUpQueue' = Append(followUpQueue, nextMessage)
  /\ UNCHANGED <<agentState, steeringQueue, modes, activeRun, aborted,
                 loopState, nextCall, history, faults>>

ClearSteeringQueue ==
  /\ steeringQueue # <<>>
  /\ cleared' = cleared \cup Elements(steeringQueue)
  /\ steeringQueue' = <<>>
  /\ UNCHANGED <<agentState, followUpQueue, modes, activeRun, aborted,
                 loopState, supply, dropped, ended, faults>>

ClearFollowUpQueue ==
  /\ followUpQueue # <<>>
  /\ cleared' = cleared \cup Elements(followUpQueue)
  /\ followUpQueue' = <<>>
  /\ UNCHANGED <<agentState, steeringQueue, modes, activeRun, aborted,
                 loopState, supply, dropped, ended, faults>>

SetMode(steering, followUp) ==
  /\ steeringMode' = steering
  /\ followUpMode' = followUp
  /\ UNCHANGED <<agentState, queues, activeRun, aborted, loopState, supply,
                 history, faults>>

Abort ==
  /\ activeRun
  /\ aborted' = TRUE
  /\ UNCHANGED <<agentState, queues, modes, activeRun, loopState, supply,
                 history, faults>>

Reset ==
  /\ ~activeRun
  /\ messages # <<>> \/ steeringQueue # <<>> \/ followUpQueue # <<>>
  /\ messages' = <<>>
  /\ pendingToolCalls' = {}
  /\ errorMessage' = FALSE
  /\ cleared' = cleared \cup Delivered \cup Elements(steeringQueue)
                        \cup Elements(followUpQueue)
  /\ steeringQueue' = <<>>
  /\ followUpQueue' = <<>>
  /\ UNCHANGED <<modes, activeRun, aborted, loopState, supply, dropped, ended,
                 faults>>

(* runWithLifecycle up to its first await, then the start of runAgentLoop  *)
(* (context snapshot plus the prompts) or of runAgentLoopContinue.         *)
StartRun(prompts, skip) ==
  /\ ~activeRun
  /\ activeRun' = TRUE
  /\ aborted' = FALSE
  /\ errorMessage' = FALSE
  /\ pc' = "prompts"
  /\ pending' = prompts
  /\ context' = messages \o UserMessages(prompts)
  /\ skipPoll' = skip
  /\ hasMoreToolCalls' = TRUE
  /\ ended' = FALSE
  /\ UNCHANGED <<messages, pendingToolCalls, modes, tools, nextCall, cleared,
                 dropped, faults>>

Prompt ==
  /\ Submit("prompt")
  /\ StartRun(<<nextMessage>>, FALSE)
  /\ UNCHANGED queues

LastIsAssistant == messages[Len(messages)].role = "assistant"

(* continue(): queued steering first, then queued follow-ups, when the     *)
(* transcript ends with an assistant message; it throws if both are empty. *)
ContinueFromSteering ==
  /\ messages # <<>> /\ LastIsAssistant
  /\ steeringQueue # <<>>
  /\ StartRun(Drained(steeringQueue, steeringMode), TRUE)
  /\ steeringQueue' = Remaining(steeringQueue, steeringMode)
  /\ UNCHANGED <<followUpQueue, nextMessage, source>>

ContinueFromFollowUp ==
  /\ messages # <<>> /\ LastIsAssistant
  /\ steeringQueue = <<>> /\ followUpQueue # <<>>
  /\ StartRun(Drained(followUpQueue, followUpMode), FALSE)
  /\ followUpQueue' = Remaining(followUpQueue, followUpMode)
  /\ UNCHANGED <<steeringQueue, nextMessage, source>>

ContinueFromTranscript ==
  /\ messages # <<>> /\ ~LastIsAssistant
  /\ StartRun(<<>>, FALSE)
  /\ UNCHANGED <<queues, nextMessage, source>>

-----------------------------------------------------------------------------
(* Steps of a run.  Emit(next) is what follows an awaited emit: the        *)
(* listeners settle and the run goes on at next, or one of them throws and *)
(* the catch of runWithLifecycle takes over.  The reducer of processEvents *)
(* has already run in both cases.                                          *)

\* Mutant: the finally block of runWithLifecycle is missing.
ThrowWithoutFinally(handler) ==
  /\ faults < MaxFaults
  /\ faults' = faults + 1
  /\ pc' = "idle"

ThrowTo(handler) ==
  /\ faults < MaxFaults
  /\ faults' = faults + 1
  /\ pc' = handler

Throw == ThrowTo("failMessage")

Emit(next) ==
  \/ pc' = next /\ UNCHANGED faults
  \/ Throw

runUnchanged == <<queues, modes, activeRun, aborted, supply, cleared, dropped>>

\* Mutant: a prompt is taken off the list only after its listeners settled.
EmitPromptThenRemove ==
  /\ pc = "prompts" /\ pending # <<>>
  /\ messages' = Append(messages, User(Head(pending)))
  /\ \/ pc' = "prompts" /\ pending' = Tail(pending) /\ UNCHANGED faults
     \/ Throw /\ UNCHANGED pending
  /\ UNCHANGED <<runUnchanged, pendingToolCalls, errorMessage, context,
                 skipPoll, hasMoreToolCalls, tools, ended>>

(* agent_start, turn_start, then message_start and message_end per prompt. *)
(* A throw before message_end's reducer leaves the prompt out.             *)
EmitPrompt ==
  /\ pc = "prompts" /\ pending # <<>>
  /\ \/ /\ messages' = Append(messages, User(Head(pending)))
        /\ pending' = Tail(pending)
        /\ Emit("prompts")
     \/ Throw /\ UNCHANGED <<messages, pending>>
  /\ UNCHANGED <<runUnchanged, pendingToolCalls, errorMessage, context,
                 skipPoll, hasMoreToolCalls, tools, ended>>

EnterLoop ==
  /\ pc = "prompts" /\ pending = <<>>
  /\ Emit("pollSteering")
  /\ UNCHANGED <<runUnchanged, agentState, context, pending, skipPoll,
                 hasMoreToolCalls, tools, ended>>

\* Mutant: with no steering queued, follow-ups are taken in its place.
PollSteeringOrFollowUp ==
  /\ pc = "pollSteering"
  /\ skipPoll' = FALSE
  /\ IF steeringQueue = <<>>
     THEN /\ pending' = Drained(followUpQueue, followUpMode)
          /\ followUpQueue' = Remaining(followUpQueue, followUpMode)
          /\ UNCHANGED steeringQueue
     ELSE /\ pending' = Drained(steeringQueue, steeringMode)
          /\ steeringQueue' = Remaining(steeringQueue, steeringMode)
          /\ UNCHANGED followUpQueue
  /\ pc' = IF hasMoreToolCalls \/ pending' # <<>> THEN "turn" ELSE "pollFollowUp"
  /\ UNCHANGED <<agentState, modes, activeRun, aborted, context,
                 hasMoreToolCalls, tools, supply, history, faults>>

(* getSteeringMessages, before the first turn and after every turn, and    *)
(* the test of the inner loop that follows it.                             *)
PollSteering ==
  /\ pc = "pollSteering"
  /\ skipPoll' = FALSE
  /\ IF skipPoll
     THEN pending' = <<>> /\ UNCHANGED steeringQueue
     ELSE /\ pending' = Drained(steeringQueue, steeringMode)
          /\ steeringQueue' = Remaining(steeringQueue, steeringMode)
  /\ pc' = IF hasMoreToolCalls \/ pending' # <<>> THEN "turn" ELSE "pollFollowUp"
  /\ UNCHANGED <<agentState, followUpQueue, modes, activeRun, aborted, context,
                 hasMoreToolCalls, tools, supply, history, faults>>

(* turn_start, then message_start, message_end and the context push for    *)
(* every pending message.                                                  *)
InjectPending ==
  /\ pc = "turn" /\ pending # <<>>
  /\ \/ /\ messages' = Append(messages, User(Head(pending)))
        /\ context' = Append(context, User(Head(pending)))
        /\ pending' = Tail(pending)
        /\ Emit("turn")
     \/ Throw /\ UNCHANGED <<messages, context, pending>>
  /\ UNCHANGED <<runUnchanged, pendingToolCalls, errorMessage, skipPoll,
                 hasMoreToolCalls, tools, ended>>

TurnReady ==
  /\ pc = "turn" /\ pending = <<>>
  /\ Emit("llm")
  /\ UNCHANGED <<runUnchanged, agentState, context, pending, skipPoll,
                 hasMoreToolCalls, tools, ended>>

(* streamAssistantResponse.  The provider ends the stream with "aborted"   *)
(* when the signal is set; a stopped, truncated or failed response may     *)
(* carry tool calls.  A throw comes from a hook before the request or from *)
(* a listener after the message entered the transcript.                    *)
IssuedCalls(n) == [i \in 1..n |-> nextCall + i - 1]

Respond(stop, n, mode) ==
  /\ aborted <=> stop = "aborted"
  /\ nextCall + n <= MaxCalls + 1
  /\ messages' = Append(messages, Assistant(stop, IssuedCalls(n)))
  /\ context' = Append(context, Assistant(stop, IssuedCalls(n)))
  /\ nextCall' = nextCall + n
  /\ callState' = [c \in Calls |-> IF c \in nextCall..(nextCall + n - 1)
                                   THEN "issued" ELSE callState[c]]
  /\ batch' = Batch(IssuedCalls(n), IF stop = "length" THEN "truncated" ELSE mode)
  /\ hasMoreToolCalls' = FALSE
  /\ Emit(IF stop \in {"error", "aborted"} THEN "errorTurnEnd"
          ELSE IF n > 0 THEN "startCall" ELSE "turnEnd")

StreamAssistantResponse ==
  /\ pc = "llm"
  /\ \/ \E stop \in StopReasons \ {"none"}, n \in 0..MaxBatch,
           mode \in {"sequential", "parallel"} : Respond(stop, n, mode)
     \/ /\ Throw
        /\ UNCHANGED <<messages, context, nextCall, callState, batch,
                       hasMoreToolCalls>>
  /\ UNCHANGED <<pendingToolCalls, errorMessage, queues, modes, activeRun,
                 aborted, pending, skipPoll, terminating, nextMessage, source,
                 history>>

-----------------------------------------------------------------------------
(* A batch of tool calls.  Sequential and truncated batches take each call *)
(* from tool_execution_start to its result message before the next one; a  *)
(* parallel batch prepares every call, runs the prepared ones under        *)
(* Promise.all and emits the result messages in source order at the end.   *)

CurrentCall == batch.calls[batch.next]

(* tool_execution_start *)
StartCall ==
  /\ pc = "startCall"
  /\ pendingToolCalls' = pendingToolCalls \cup {CurrentCall}
  /\ callState' = [callState EXCEPT ![CurrentCall] = "preparing"]
  /\ Emit("prepareCall")
  /\ UNCHANGED <<runUnchanged, messages, errorMessage, context, pending,
                 skipPoll, hasMoreToolCalls, batch, terminating, ended>>

(* prepareToolCall answers at once: unknown tool, invalid arguments,       *)
(* blocked by beforeToolCall (the one that may terminate), aborted, or the *)
(* message was truncated.  tool_execution_end follows.                     *)
FinishImmediately ==
  /\ pc = "prepareCall"
  /\ pendingToolCalls' = pendingToolCalls \ {CurrentCall}
  /\ callState' = [callState EXCEPT ![CurrentCall] = "finished"]
  /\ \/ UNCHANGED terminating
     \/ /\ ~aborted /\ batch.mode # "truncated"
        /\ terminating' = terminating \cup {CurrentCall}
  /\ Emit(IF batch.mode = "parallel" THEN "nextCall" ELSE "report")
  /\ UNCHANGED <<runUnchanged, messages, errorMessage, context, pending,
                 skipPoll, hasMoreToolCalls, batch, ended>>

(* prepareToolCall returns "prepared": a sequential call starts executing, *)
(* a parallel one is kept for Promise.all.                                 *)
PrepareCall ==
  /\ pc = "prepareCall"
  /\ batch.mode # "truncated" /\ ~aborted
  /\ IF batch.mode = "sequential"
     THEN /\ callState' = [callState EXCEPT ![CurrentCall] = "running"]
          /\ pc' = "await"
     ELSE /\ callState' = [callState EXCEPT ![CurrentCall] = "prepared"]
          /\ pc' = "nextCall"
  /\ UNCHANGED <<runUnchanged, agentState, context, pending, skipPoll,
                 hasMoreToolCalls, batch, terminating, ended, faults>>

(* Return from the batch: results enter the context; the loop goes on      *)
(* unless every finalized result asked to terminate.                       *)
Finalized == {batch.calls[i] : i \in 1..batch.next}

ReturnFromBatch ==
  /\ context' = context \o [i \in 1..batch.next |-> ToolResult(batch.calls[i])]
  /\ hasMoreToolCalls' = (batch.mode = "truncated"
                          \/ ~(Finalized \subseteq terminating))

\* Mutant: the last call of a batch is skipped.
MoreCallsOffByOne ==
  /\ batch.next + 1 < Len(batch.calls)
  /\ batch.mode = "truncated" \/ ~aborted

(* The end of the for loop body: stop at the last call, or early when the  *)
(* signal is set.  The truncated batch does not look at the signal.        *)
MoreCalls ==
  /\ batch.next < Len(batch.calls)
  /\ batch.mode = "truncated" \/ ~aborted

NextCall ==
  LET launch == {c \in Elements(batch.calls) : callState[c] = "prepared"} IN
  /\ pc = "nextCall"
  /\ \/ /\ MoreCalls
        /\ batch' = [batch EXCEPT !.next = @ + 1]
        /\ pc' = "startCall"
        /\ UNCHANGED <<context, hasMoreToolCalls, callState>>
     \/ /\ ~MoreCalls /\ batch.mode = "parallel"
        /\ callState' = [c \in Calls |-> IF c \in launch THEN "running"
                                         ELSE callState[c]]
        /\ pc' = IF launch = {} THEN "report" ELSE "await"
        /\ UNCHANGED <<context, hasMoreToolCalls, batch>>
     \/ /\ ~MoreCalls /\ batch.mode # "parallel"
        /\ ReturnFromBatch
        /\ pc' = "turnEnd"
        /\ UNCHANGED <<batch, callState>>
  /\ UNCHANGED <<runUnchanged, agentState, pending, skipPoll, terminating,
                 ended, faults>>

(* A call the loop is waiting for.  A running call that is not awaited     *)
(* belongs to a batch whose Promise.all was rejected by another call.      *)
Running == {c \in Calls : callState[c] = "running"}
Awaited(c) == pc = "await" /\ c \in Elements(batch.calls)

\* Mutant: an aborted batch ends the run with the first tool that returns.
FinishFirstCall(c) ==
  /\ c \in Running /\ Awaited(c)
  /\ pendingToolCalls' = pendingToolCalls \ {c}
  /\ callState' = [callState EXCEPT ![c] = "finished"]
  /\ Emit(IF aborted THEN "agentEnd"
          ELSE IF Running \cap Elements(batch.calls) = {c} THEN "report" ELSE "await")
  /\ UNCHANGED <<runUnchanged, messages, errorMessage, context, pending,
                 skipPoll, hasMoreToolCalls, batch, terminating, ended>>

(* executePreparedToolCall, finalizeExecutedToolCall, tool_execution_end.  *)
FinishCall(c) ==
  LET others == (Running \cap Elements(batch.calls)) \ {c} IN
  /\ c \in Running /\ Awaited(c)
  /\ pendingToolCalls' = pendingToolCalls \ {c}
  /\ callState' = [callState EXCEPT ![c] = "finished"]
  /\ \/ UNCHANGED terminating
     \/ terminating' = terminating \cup {c}
  /\ Emit(IF others = {} THEN "report" ELSE "await")
  /\ UNCHANGED <<runUnchanged, messages, errorMessage, context, pending,
                 skipPoll, hasMoreToolCalls, batch, ended>>

(* A listener throws on tool_execution_update: the call's promise rejects  *)
(* without a tool_execution_end.                                           *)
FailCall(c) ==
  /\ c \in Running /\ Awaited(c)
  /\ callState' = [callState EXCEPT ![c] = "failed"]
  /\ Throw
  /\ UNCHANGED <<runUnchanged, agentState, context, pending, skipPoll,
                 hasMoreToolCalls, batch, terminating, ended>>

(* The same for a call nobody awaits: processEvents still removes it from  *)
(* pendingToolCalls; what it or its listeners throw is swallowed.          *)
FinishOrphan(c) ==
  /\ c \in Running /\ ~Awaited(c)
  /\ pendingToolCalls' = pendingToolCalls \ {c}
  /\ callState' = [callState EXCEPT ![c] = "finished"]
  /\ UNCHANGED <<runUnchanged, messages, errorMessage, pc, context, pending,
                 skipPoll, hasMoreToolCalls, batch, terminating, ended, faults>>

\* Mutant: results are emitted in any order the calls finished in.
ReportAnyFinished ==
  /\ pc = "report"
  /\ \E c \in {d \in Elements(batch.calls) : callState[d] = "finished"} :
       /\ messages' = Append(messages, ToolResult(c))
       /\ callState' = [callState EXCEPT ![c] = "reported"]
       /\ batch' = [batch EXCEPT !.reported = @ + 1]
       /\ IF batch.reported + 1 = batch.next /\ batch.mode = "parallel"
          THEN ReturnFromBatch /\ pc' = "turnEnd"
          ELSE /\ UNCHANGED <<context, hasMoreToolCalls>>
               /\ pc' = IF batch.mode = "parallel" THEN "report" ELSE "nextCall"
  /\ UNCHANGED <<runUnchanged, pendingToolCalls, errorMessage, pending,
                 skipPoll, terminating, ended, faults>>

(* emitToolResultMessage for the next finalized call in source order.      *)
ReportResult ==
  LET c == batch.calls[batch.reported + 1]
      last == batch.reported + 1 = batch.next
      parallel == batch.mode = "parallel"
  IN
  /\ pc = "report"
  /\ \/ /\ messages' = Append(messages, ToolResult(c))
        /\ callState' = [callState EXCEPT ![c] = "reported"]
        /\ batch' = [batch EXCEPT !.reported = @ + 1]
        /\ IF parallel /\ last THEN ReturnFromBatch
           ELSE UNCHANGED <<context, hasMoreToolCalls>>
        /\ Emit(IF ~parallel THEN "nextCall"
                ELSE IF last THEN "turnEnd" ELSE "report")
     \/ /\ Throw
        /\ UNCHANGED <<messages, callState, batch, context, hasMoreToolCalls>>
  /\ UNCHANGED <<runUnchanged, pendingToolCalls, errorMessage, pending,
                 skipPoll, terminating, ended>>

-----------------------------------------------------------------------------
(* The end of a turn and the end of a run.                                 *)

(* turn_end, prepareNextTurn and shouldStopAfterTurn.                      *)
TurnEnd ==
  /\ pc = "turnEnd"
  /\ \/ Emit("pollSteering")
     \/ Emit("agentEnd")
  /\ UNCHANGED <<runUnchanged, agentState, context, pending, skipPoll,
                 hasMoreToolCalls, tools, ended>>

(* turn_end of a failed or aborted response. *)
ErrorTurnEnd ==
  /\ pc = "errorTurnEnd"
  /\ errorMessage' = TRUE
  /\ Emit("agentEnd")
  /\ UNCHANGED <<runUnchanged, messages, pendingToolCalls, context, pending,
                 skipPoll, hasMoreToolCalls, tools, ended>>

(* getFollowUpMessages, when the inner loop is over.                       *)
PollFollowUp ==
  /\ pc = "pollFollowUp"
  /\ pending' = Drained(followUpQueue, followUpMode)
  /\ followUpQueue' = Remaining(followUpQueue, followUpMode)
  /\ pc' = IF pending' # <<>> THEN "turn" ELSE "agentEnd"
  /\ hasMoreToolCalls' = TRUE
  /\ UNCHANGED <<agentState, steeringQueue, modes, activeRun, aborted, context,
                 skipPoll, tools, supply, history, faults>>

AgentEnd ==
  /\ pc = "agentEnd"
  /\ ended' = TRUE
  /\ Emit("finish")
  /\ UNCHANGED <<runUnchanged, agentState, context, pending, skipPoll,
                 hasMoreToolCalls, tools>>

(* handleRunFailure.  A listener that throws here ends the run at once.    *)
FailMessage ==
  /\ pc = "failMessage"
  /\ \/ /\ messages' = Append(messages,
              Assistant(IF aborted THEN "aborted" ELSE "error", <<>>))
        /\ \/ pc' = "failTurnEnd" /\ UNCHANGED faults
           \/ ThrowTo("finish")
     \/ ThrowTo("finish") /\ UNCHANGED messages
  /\ UNCHANGED <<runUnchanged, pendingToolCalls, errorMessage, context, pending,
                 skipPoll, hasMoreToolCalls, tools, ended>>

FailTurnEnd ==
  /\ pc = "failTurnEnd"
  /\ errorMessage' = TRUE
  /\ \/ pc' = "failAgentEnd" /\ UNCHANGED faults
     \/ ThrowTo("finish")
  /\ UNCHANGED <<runUnchanged, messages, pendingToolCalls, context, pending,
                 skipPoll, hasMoreToolCalls, tools, ended>>

FailAgentEnd ==
  /\ pc = "failAgentEnd"
  /\ ended' = TRUE
  /\ pc' = "finish"        \* whether or not an agent_end listener throws
  /\ UNCHANGED <<runUnchanged, agentState, context, pending, skipPoll,
                 hasMoreToolCalls, tools, faults>>

\* Mutant: finishRun leaves the calls of a failed run in pendingToolCalls.
FinishRunKeepsCalls ==
  /\ pc = "finish"
  /\ activeRun' = FALSE
  /\ aborted' = FALSE
  /\ pc' = "idle"
  /\ dropped' = dropped \cup Elements(pending)
  /\ pending' = <<>>
  /\ context' = <<>>
  /\ batch' = NoBatch
  /\ hasMoreToolCalls' = FALSE
  /\ skipPoll' = FALSE
  /\ UNCHANGED <<messages, pendingToolCalls, errorMessage, queues, modes,
                 callState, terminating, supply, cleared, ended, faults>>

(* finishRun; the loop's locals, and what they still held, go with it.     *)
FinishRun ==
  /\ pc = "finish"
  /\ activeRun' = FALSE
  /\ aborted' = FALSE
  /\ pendingToolCalls' = {}
  /\ pc' = "idle"
  /\ dropped' = dropped \cup Elements(pending)
  /\ pending' = <<>>
  /\ context' = <<>>
  /\ batch' = NoBatch
  /\ hasMoreToolCalls' = FALSE
  /\ skipPoll' = FALSE
  /\ UNCHANGED <<messages, errorMessage, queues, modes, callState, terminating,
                 supply, cleared, ended, faults>>

-----------------------------------------------------------------------------
Embedder ==
  \/ Steer
  \/ FollowUp
  \/ ClearSteeringQueue
  \/ ClearFollowUpQueue
  \/ \E s, f \in Modes : SetMode(s, f)
  \/ Abort
  \/ Reset
  \/ Prompt
  \/ ContinueFromSteering
  \/ ContinueFromFollowUp
  \/ ContinueFromTranscript

Loop ==
  \/ EmitPrompt
  \/ EnterLoop
  \/ PollSteering
  \/ InjectPending
  \/ TurnReady
  \/ StreamAssistantResponse
  \/ StartCall
  \/ FinishImmediately
  \/ PrepareCall
  \/ NextCall
  \/ ReportResult
  \/ TurnEnd
  \/ ErrorTurnEnd
  \/ PollFollowUp
  \/ AgentEnd
  \/ FailMessage
  \/ FailTurnEnd
  \/ FailAgentEnd
  \/ FinishRun

Tool(c) ==
  \/ FinishCall(c)
  \/ FailCall(c)
  \/ FinishOrphan(c)

Next ==
  \/ Embedder
  \/ \E c \in Calls : Tool(c)
  \/ Loop

Spec == Init /\ [][Next]_vars

(* The runtime resumes a resolved await, listeners, hooks and the provider *)
(* settle, and a tool returns.  The embedder owes nothing.                 *)
FairSpec ==
  /\ Spec
  /\ WF_vars(Loop)
  /\ \A c \in Calls : WF_vars(Tool(c))

-----------------------------------------------------------------------------
(* Where the run is, and what its locals hold there: a run is active       *)
(* exactly when control is inside it, undelivered messages survive only    *)
(* between a poll and the turn it opens or in a run that failed, and the   *)
(* cursors of a batch point at calls of the assistant message that ends    *)
(* the transcript.                                                         *)

Injecting == {"prompts", "turn"}
Failing   == {"failMessage", "failTurnEnd", "failAgentEnd", "finish"}
InCall    == {"startCall", "prepareCall", "await"}
InBatch   == InCall \cup {"nextCall", "report"}

RunInv ==
  /\ activeRun <=> pc # "idle"
  /\ pending # <<>> => pc \in Injecting \/ (pc \in Failing /\ faults > 0)

(* Every message in a queue, in the run or in the transcript was submitted.*)
SupplyInv ==
  \A m \in Elements(steeringQueue) \cup Elements(followUpQueue)
           \cup Elements(pending) \cup Delivered : m < nextMessage

BatchInv ==
  pc \in InBatch =>
    /\ batch.next \in 1..Len(batch.calls)
    /\ batch.mode = "parallel" =>
         IF pc = "report" THEN batch.reported < batch.next ELSE batch.reported = 0
    /\ batch.mode # "parallel" =>
         batch.reported = IF pc = "nextCall" THEN batch.next ELSE batch.next - 1

BatchEndsTranscript ==
  pc \in InBatch =>
    LET i == Len(messages) - batch.reported IN
    /\ i >= 1
    /\ messages[i].role = "assistant"
    /\ messages[i].stop \in {"stop", "length"}
    /\ messages[i].calls = batch.calls

-----------------------------------------------------------------------------
(* Properties.                                                             *)

Distinct(s) == \A i, j \in DOMAIN s : s[i] = s[j] => i = j

UsersDistinct ==
  \A i, j \in DOMAIN messages :
    /\ messages[i].role = "user" /\ messages[j].role = "user"
    /\ messages[i].id = messages[j].id
    => i = j

(* A submitted message is in at most one place: drain() hands a message    *)
(* over exactly once and no path of the loop injects one twice, whatever   *)
(* the interleaving of steer, clear, continue, reset and failed runs.      *)
MessagesAtMostOnce ==
  /\ Distinct(steeringQueue) /\ Distinct(followUpQueue) /\ Distinct(pending)
  /\ UsersDistinct
  /\ Elements(steeringQueue) \cap Elements(followUpQueue) = {}
  /\ Elements(pending) \cap Elements(steeringQueue) = {}
  /\ Elements(pending) \cap Elements(followUpQueue) = {}
  /\ Delivered \cap Elements(steeringQueue) = {}
  /\ Delivered \cap Elements(followUpQueue) = {}
  /\ Delivered \cap Elements(pending) = {}

(* No message vanishes: it is queued, taken by the run, in the transcript, *)
(* or was cleared by the embedder.  Only a run that failed by an exception *)
(* loses what it had drained and not yet injected.                         *)
NoMessageLost ==
  /\ 1..(nextMessage - 1) \subseteq
       Elements(steeringQueue) \cup Elements(followUpQueue)
         \cup Elements(pending) \cup Delivered \cup cleared \cup dropped
  /\ dropped # {} => faults > 0

(* Every message that was submitted is delivered or dropped at most once   *)
(* and is never out of sight, whatever drain, continue, reset and failing   *)
(* listeners do.                                                           *)
MessagesKept == MessagesAtMostOnce /\ NoMessageLost

(* Messages of one queue reach the transcript in the order they were       *)
(* submitted, in both drain modes and across changes of mode.              *)
DeliveryInOrder ==
  \A i, j \in DOMAIN messages :
    /\ i < j
    /\ messages[i].role = "user" /\ messages[j].role = "user"
    /\ source[messages[i].id] = source[messages[j].id]
    => messages[i].id < messages[j].id

(* A follow-up is injected only where the agent would otherwise stop: not  *)
(* behind a prompt or a steering message still waiting for its answer, and *)
(* not behind a tool result the model has to see.                          *)
FollowUpsWaitForStop ==
  \A i \in DOMAIN messages :
    /\ i > 1 /\ messages[i].role = "user"
    /\ source[messages[i].id] = "followUp"
    => LET before == messages[i - 1] IN
       /\ before.role = "user" => source[before.id] = "followUp"
       /\ before.role = "toolResult" => before.id \in terminating

(* The order in which the loop promises to inject queued messages: that of *)
(* the queue, and follow-ups only at a stop.                               *)
QueueOrder == DeliveryInOrder /\ FollowUpsWaitForStop

(* The k-th tool result after an assistant message answers its k-th call:  *)
(* source order, contiguous, whatever order parallel tools finish in, and  *)
(* no call of a failed or aborted response is answered.                    *)
ResultsFollowCalls ==
  \A j \in DOMAIN messages :
    messages[j].role = "toolResult" =>
      \E i \in 1..(j - 1) :
        /\ messages[i].role = "assistant"
        /\ messages[i].stop \in {"stop", "length"}
        /\ j - i \in DOMAIN messages[i].calls
        /\ messages[i].calls[j - i] = messages[j].id

(* Unless the run is aborted, the model is asked again only when every     *)
(* tool call of its last message has a result in the transcript.           *)
CallsAnsweredBeforeRequest ==
  pc = "llm" /\ ~aborted =>
    \A c \in Elements(batch.calls) : callState[c] = "reported"

(* The context sent to the model is the transcript: the loop's private     *)
(* copy and AgentState.messages, updated at different points of a turn,    *)
(* agree at every request.                                                 *)
ContextIsTranscript == pc = "llm" => context = messages

(* Every request to the model is one a provider accepts: the transcript as  *)
(* embedders see it, with a result behind each tool call.                  *)
RequestsWellFormed == CallsAnsweredBeforeRequest /\ ContextIsTranscript

(* pendingToolCalls shows the calls in progress: exactly those between     *)
(* tool_execution_start and tool_execution_end, nothing when idle, and     *)
(* after an exception never a call whose result was reported.              *)
PendingToolCallsExact ==
  /\ ~activeRun => pendingToolCalls = {}
  /\ \A c \in pendingToolCalls :
       callState[c] \in {"preparing", "prepared", "running", "failed"}
  /\ faults = 0 =>
       pendingToolCalls = {c \in Calls : callState[c] \in
                             {"preparing", "prepared", "running"}}

(* "agent_end is the final emitted event for a run": no tool of the run    *)
(* emits its tool_execution_end afterwards, however a batch is aborted, as  *)
(* long as no listener threw.  One that throws in a parallel batch leaves   *)
(* the other tools of the batch running past agent_end.                     *)
AgentEndIsFinal ==
  [][\A c \in Calls :
       callState[c] = "running" /\ callState'[c] = "finished" => faults > 0 \/ ~ended]_vars

(* Every run ends: whatever listeners throw, however often it is aborted,  *)
(* finishRun is reached and waitForIdle resolves.                          *)
RunSettles == activeRun ~> ~activeRun

=============================================================================
