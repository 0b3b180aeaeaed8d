---------------------------- MODULE AgentSession ----------------------------
(***************************************************************************)
(* What agent-session.ts puts around the runs of the agent: prompt with    *)
(* its awaits before the first run, _runAgentPrompt with retries,          *)
(* compactions and continuations behind a run, manual compaction, abort    *)
(* and waitForIdle, bash results held back until the run is over.          *)
(*                                                                         *)
(* A step is what happens between two awaits.  Of a run of the agent (see  *)
(* module Agent) there is what reaches the session: the responses, the     *)
(* batches of tool results, the polls of the queues and the end.  A        *)
(* message is known by its role; the failed responses are told apart.      *)
(* Retries and compaction are enabled, and the model stays the same.       *)
(***************************************************************************)
EXTENDS Integers, Sequences, SequencesExt

CONSTANTS
  MaxPrompts,     \* calls of prompt                              (bound)
  MaxRetries,     \* settings.maxRetries
  MaxTranscript,  \* messages behind which no response fails      (bound)
  MaxEvents       \* queued messages, bash results, threshold compactions,
                  \* stops and clears together                    (bound)

ASSUME AgentSessionAssumption ==
  {MaxPrompts, MaxRetries, MaxTranscript, MaxEvents} \subseteq Nat

VARIABLES
  active,       \* _isAgentRunActive
  pc,           \* where each call of prompt is
  why,          \* what the compaction of a call is for
  run,          \* the call whose agent.activeRun is set, 0 for none
  phase,        \* where that run is
  stopping,     \* its signal is aborted
  steering,     \* messages in agent.steeringQueue
  followUps,    \* messages in agent.followUpQueue
  last,         \* _lastAssistantMessage
  retryAttempt, \* _retryAttempt
  retryAborted, \* the signal of _retryAbortController
  overflowRecoveryAttempted,
  shown,        \* agent.state.messages
  saved,        \* what buildSessionContext returns
  since,        \* what was saved since the last compaction
  pendingBash,  \* _pendingBashMessages
  updating,     \* a background memory run (_memoryRun)
  manual,       \* abort() or compact() of the embedder
  refused,      \* history: agent.continue() has thrown since the last prompt
  restored,     \* history: a dropped response came back into shown since then
  overlap,      \* history: a prompt or compact() went past a check that was stale
  events        \* history: events so far

loopVars == <<active, pc, why>>
runVars == <<run, phase, stopping>>
queueVars == <<steering, followUps>>
retryVars == <<last, retryAttempt, retryAborted, overflowRecoveryAttempted>>
textVars == <<shown, saved, since, pendingBash>>
historyVars == <<refused, restored, overlap, events>>
agentSessionVars == <<loopVars, runVars, queueVars, retryVars, textVars, updating,
                      manual, historyVars>>

Calls == 1..MaxPrompts

(* prompt: input, preflight and start are its awaits before the run.  The  *)
(* compaction stages are those of _runAutoCompaction.                      *)
CompactionStages == {"memory", "hook", "report"}
CallStages == {"idle", "input", "preflight", "start", "run", "post", "retry", "settled",
           "done"} \cup CompactionStages

(* A response that stopped for its length and one that overflows are both  *)
(* "overflow": the compact-and-retry path treats them alike.               *)
Failures == {"error", "overflow"}
Assistants == {"calls", "answer"} \cup Failures
Roles == {"user", "result", "bash", "summary"} \cup Assistants

Outcomes == {"none", "good", "aborted", "error", "fatal", "overflow", "length"}

AgentSessionTypeOK ==
  /\ active \in BOOLEAN
  /\ pc \in [Calls -> CallStages]
  /\ why \in [Calls -> {"prompt", "retry", "threshold"}]
  /\ run \in 0..MaxPrompts
  /\ phase \in {"none", "poll", "turn", "tools", "stopped", "ending"}
  /\ stopping \in BOOLEAN
  /\ {steering, followUps, pendingBash, events} \subseteq 0..MaxEvents
  /\ last \in Outcomes
  /\ retryAttempt \in 0..MaxRetries
  /\ retryAborted \in BOOLEAN
  /\ overflowRecoveryAttempted \in BOOLEAN
  /\ shown \in Seq(Roles) /\ saved \in Seq(Roles)
  /\ since \in {"nothing", "entries", "response"}
  /\ updating \in BOOLEAN
  /\ manual \in {"none", "abort", "compact"} \cup CompactionStages
  /\ {refused, restored, overlap} \subseteq BOOLEAN

AgentSessionInit ==
  /\ active = FALSE
  /\ pc = [c \in Calls |-> "idle"]
  /\ why = [c \in Calls |-> "prompt"]
  /\ run = 0 /\ phase = "none" /\ stopping = FALSE
  /\ steering = 0 /\ followUps = 0
  /\ last = "none" /\ retryAttempt = 0 /\ retryAborted = FALSE
  /\ overflowRecoveryAttempted = FALSE
  /\ shown = <<>> /\ saved = <<>> /\ since = "nothing" /\ pendingBash = 0
  /\ updating = FALSE
  /\ manual = "none"
  /\ refused = FALSE /\ restored = FALSE /\ overlap = FALSE
  /\ events = 0

-----------------------------------------------------------------------------
(* Messages.                                                               *)

EndsWith(s, roles) == s # <<>> /\ Last(s) \in roles
Dropped(s, roles) == IF EndsWith(s, roles) THEN Front(s) ELSE s

(* A message is added to the agent and saved (SessionMemory has the two     *)
(* apart).                                                                 *)
RecordMessage(role) ==
  /\ shown' = Append(shown, role)
  /\ saved' = Append(saved, role)
  /\ since' = IF role \in Assistants \/ since = "response" THEN "response"
              ELSE "entries"

(* _flushPendingBashMessages                                               *)
Flush(messages) ==
  LET bash == [i \in 1..pendingBash |-> "bash"] IN
  /\ shown' = messages \o bash /\ saved' = saved \o bash
  /\ pendingBash' = 0
  /\ since' = IF pendingBash > 0 /\ since = "nothing" THEN "entries" ELSE since

(* message_start of a user message.                                        *)
UserStarts == overflowRecoveryAttempted' = FALSE

(* A rebuilt transcript that brings a failed response back.                *)
Restores(s) == restored' = (restored \/ (EndsWith(s, Failures) /\ s # shown))

Event == events < MaxEvents /\ events' = events + 1

Goes(c, stage) ==
  /\ pc' = [pc EXCEPT ![c] = stage]
  /\ why' = IF stage \in CompactionStages THEN why ELSE [why EXCEPT ![c] = "prompt"]

BeginsCompaction(c, reason) ==
  pc' = [pc EXCEPT ![c] = "memory"] /\ why' = [why EXCEPT ![c] = reason]

(* Calls in the loop of _runAgentPrompt: isIdle is about them.             *)
InLoop(c) ==
  \/ pc[c] \in {"run", "post", "retry"}
  \/ pc[c] \in CompactionStages /\ why[c] # "prompt"

(* Calls that found the session idle and await something before their run.  *)
Admitted(c) ==
  \/ pc[c] \in {"preflight", "start"}
  \/ pc[c] \in CompactionStages /\ why[c] = "prompt"

-----------------------------------------------------------------------------
(* agent.prompt and agent.continue, up to their first await.               *)

StartsRun(c, stage) ==
  /\ run' = c /\ phase' = stage /\ stopping' = FALSE
  /\ Goes(c, "run")

(* The finally of _runAgentPrompt, up to its await.                        *)
Settles(c, messages) ==
  /\ active' = FALSE
  /\ Goes(c, "settled")
  /\ Flush(messages)

(* agent.continue with the given agent.state.messages: from an assistant it *)
(* needs a queued message.                                                 *)
Continues(c, messages) ==
  LET fromAssistant == EndsWith(messages, Assistants) IN
  \/ /\ run = 0 /\ ~fromAssistant
     /\ StartsRun(c, "poll")
     /\ shown' = messages
     /\ UNCHANGED <<active, queueVars, saved, since, pendingBash,
                    overflowRecoveryAttempted, refused>>
  \/ /\ run = 0 /\ fromAssistant /\ steering + followUps > 0
     /\ StartsRun(c, IF steering > 0 THEN "turn" ELSE "poll")
     /\ steering' = IF steering > 0 THEN steering - 1 ELSE 0
     /\ followUps' = IF steering > 0 THEN followUps ELSE followUps - 1
     /\ shown' = Append(messages, "user") /\ saved' = Append(saved, "user")
     /\ since' = IF since = "nothing" THEN "entries" ELSE since
     /\ UserStarts
     /\ UNCHANGED <<active, pendingBash, refused>>
  \/ /\ run # 0 \/ (fromAssistant /\ steering + followUps = 0)
     /\ refused' = (refused \/ run = 0)
     /\ Settles(c, messages)
     /\ UNCHANGED <<runVars, queueVars, overflowRecoveryAttempted>>

\* Mutant: what was queued meanwhile is not looked at.
ReturnsOnlyRetry(c, messages, again) ==
  IF again THEN Continues(c, messages)
  ELSE /\ Settles(c, messages)
       /\ UNCHANGED <<runVars, queueVars, overflowRecoveryAttempted, refused>>

(* _handlePostAgentRun returns: again, or because messages are queued.     *)
Returns(c, messages, again) ==
  IF again \/ steering + followUps > 0 THEN Continues(c, messages)
  ELSE /\ Settles(c, messages)
       /\ UNCHANGED <<runVars, queueVars, overflowRecoveryAttempted, refused>>

-----------------------------------------------------------------------------
(* The embedder.                                                           *)

(* prompt; an input hook is awaited behind the check of the manual          *)
(* compaction.                                                             *)
Submit(c) ==
  /\ pc[c] = "idle" /\ \A d \in 1..(c - 1) : pc[d] # "idle"
  /\ manual \notin CompactionStages
  /\ Goes(c, "input")
  /\ UNCHANGED <<active, runVars, queueVars, retryVars, textVars, updating, manual,
                 historyVars>>

(* While a run is active the message is queued, or refused.                *)
Queue(c) ==
  /\ pc[c] = "input" /\ active
  /\ Goes(c, "done")
  /\ \/ steering' = steering + 1 /\ UNCHANGED followUps
     \/ followUps' = followUps + 1 /\ UNCHANGED steering
     \/ UNCHANGED queueVars
  /\ Event
  /\ UNCHANGED <<active, runVars, retryVars, textVars, updating, manual, refused,
                 restored, overlap>>

(* Otherwise pending bash messages are flushed; then the credentials are   *)
(* awaited.                                                                *)
Admit(c) ==
  /\ pc[c] = "input" /\ ~active
  /\ Goes(c, "preflight")
  /\ Flush(shown)
  /\ UNCHANGED <<active, runVars, queueVars, retryVars, updating, manual,
                 historyVars>>

(* No model or no credentials.                                             *)
Reject(c) ==
  /\ pc[c] = "preflight"
  /\ Goes(c, "done")
  /\ UNCHANGED <<active, runVars, queueVars, retryVars, textVars, updating, manual,
                 historyVars>>

(* _checkCompaction of the last assistant message in agent.state.messages, *)
(* unless a compaction came after it.                                      *)
LastShown(roles) ==
  \E i \in DOMAIN shown :
    shown[i] \in roles /\ \A j \in DOMAIN shown : j > i => shown[j] \notin Assistants

CheckBeforePrompt(c) ==
  /\ pc[c] = "preflight"
  /\ \/ /\ Goes(c, "start")
        /\ UNCHANGED <<shown, overflowRecoveryAttempted, events>>
     \/ /\ LastShown(Assistants) /\ since = "response"
        /\ BeginsCompaction(c, "prompt")
        /\ IF LastShown({"overflow"})
           THEN /\ ~overflowRecoveryAttempted
                /\ overflowRecoveryAttempted' = TRUE
                /\ shown' = Dropped(shown, Assistants)
                /\ UNCHANGED events
           ELSE Event /\ UNCHANGED <<shown, overflowRecoveryAttempted>>
  /\ UNCHANGED <<active, runVars, queueVars, last, retryAttempt, retryAborted, saved, since,
                 pendingBash, updating, manual, refused, restored, overlap>>

(* _runAgentPrompt.  agent.prompt throws when a run is active already, and *)
(* the finally of this call settles all the same.                          *)
RunAgentPrompt(c) ==
  /\ pc[c] = "start"
  /\ overlap' = (overlap \/ manual \in CompactionStages \/
                 \E d \in Calls \ {c} : InLoop(d) \/ Admitted(d))
  /\ \/ /\ run = 0
        /\ active' = TRUE
        /\ StartsRun(c, "poll")
        /\ RecordMessage("user")
        /\ UserStarts
        /\ refused' = FALSE /\ restored' = FALSE
        /\ UNCHANGED pendingBash
     \/ /\ run # 0
        /\ Settles(c, shown)
        /\ UNCHANGED <<runVars, overflowRecoveryAttempted, refused, restored>>
  /\ UNCHANGED <<queueVars, last, retryAttempt, retryAborted, updating, manual, events>>

(* steer and followUp, whether or not a run is active.                     *)
Steer ==
  /\ Event
  /\ \/ steering' = steering + 1 /\ UNCHANGED followUps
     \/ followUps' = followUps + 1 /\ UNCHANGED steering
  /\ UNCHANGED <<loopVars, runVars, retryVars, textVars, updating, manual, refused,
                 restored, overlap>>

ClearQueue ==
  /\ steering + followUps > 0 /\ Event
  /\ steering' = 0 /\ followUps' = 0
  /\ UNCHANGED <<loopVars, runVars, retryVars, textVars, updating, manual, refused,
                 restored, overlap>>

\* Mutant: the result is added at once.
RecordBashAtOnce ==
  /\ Event
  /\ RecordMessage("bash") /\ UNCHANGED pendingBash
  /\ UNCHANGED <<loopVars, runVars, queueVars, retryVars, updating, manual, refused,
                 restored, overlap>>

(* recordBashResult: held back while a run is active.                      *)
RecordBashResult ==
  /\ Event
  /\ IF active THEN pendingBash' = pendingBash + 1 /\ UNCHANGED <<shown, saved, since>>
     ELSE RecordMessage("bash") /\ UNCHANGED pendingBash
  /\ UNCHANGED <<loopVars, runVars, queueVars, retryVars, updating, manual, refused,
                 restored, overlap>>

(* What a caller of abort or compact does once the session is idle.        *)
AfterIdle(kind) == IF kind = "compact" THEN "memory" ELSE "none"

\* Mutant: compact does not wait for idle.
AbortWithoutWaiting(kind) ==
  /\ manual = "none" /\ Event
  /\ retryAborted' = (\E c \in Calls : pc[c] = "retry")
  /\ stopping' = (run # 0)
  /\ manual' = AfterIdle(kind)
  /\ UNCHANGED <<loopVars, run, phase, queueVars, last, retryAttempt,
                 overflowRecoveryAttempted, textVars, updating, refused, restored, overlap>>

(* abort, and compact up to its wait for idle.                             *)
Abort(kind) ==
  /\ manual = "none" /\ Event
  /\ retryAborted' = (\E c \in Calls : pc[c] = "retry")
  /\ stopping' = (run # 0)
  /\ manual' = IF active THEN kind ELSE AfterIdle(kind)
  /\ UNCHANGED <<loopVars, run, phase, queueVars, last, retryAttempt,
                 overflowRecoveryAttempted, textVars, updating, refused, restored, overlap>>

-----------------------------------------------------------------------------
(* A run of the agent, and _handleAgentEvent.                              *)

AgentRest == <<loopVars, updating, manual, refused, restored, overlap>>

(* The queues are polled before the first turn, after a batch and, both,   *)
(* when the run would stop; one message is taken.                          *)
Take(stage) ==
  \/ /\ steering > 0
     /\ steering' = steering - 1 /\ UNCHANGED followUps
     /\ RecordMessage("user") /\ UserStarts /\ phase' = "turn"
  \/ /\ steering = 0 /\ phase = "stopped" /\ followUps > 0
     /\ followUps' = followUps - 1 /\ UNCHANGED steering
     /\ RecordMessage("user") /\ UserStarts /\ phase' = "turn"
  \/ /\ steering = 0 /\ (phase = "stopped" => followUps = 0)
     /\ phase' = stage
     /\ UNCHANGED <<queueVars, shown, saved, since, overflowRecoveryAttempted>>

AgentPolls ==
  /\ \/ phase = "poll" /\ Take("turn")
     \/ phase = "stopped" /\ Take("ending")
  /\ UNCHANGED <<AgentRest, run, stopping, last, retryAttempt, retryAborted, pendingBash,
                 events>>

(* message_end of a response: the counters of retry and overflow recovery. *)
Responds(role, outcome, stage) ==
  /\ phase = "turn" /\ phase' = stage
  /\ RecordMessage(role)
  /\ last' = outcome
  /\ retryAttempt' = IF outcome \in {"good", "aborted", "length"} THEN 0 ELSE retryAttempt
  /\ UNCHANGED <<AgentRest, run, stopping, queueVars, retryAborted, pendingBash>>

(* A good response, without tool calls or, to a user, with them.           *)
AgentAnswers ==
  /\ \/ Responds("calls", "good", "tools") /\ ~stopping /\ EndsWith(shown, {"user"})
     \/ Responds("answer", "good", "stopped")
  /\ UNCHANGED events
  /\ overflowRecoveryAttempted' = FALSE

AgentAborted ==
  /\ stopping
  /\ Responds("answer", "aborted", "ending")
  /\ overflowRecoveryAttempted' = FALSE
  /\ UNCHANGED events

(* A response that stopped for its length does not end the run at once and *)
(* is no error to the retry counter.                                       *)
AgentFails ==
  /\ ~stopping /\ Len(saved) < MaxTranscript
  /\ \/ Responds("error", "error", "ending")
     \/ Responds("error", "fatal", "ending")
     \/ Responds("overflow", "overflow", "ending")
     \/ Responds("overflow", "length", "stopped")
  /\ UNCHANGED <<overflowRecoveryAttempted, events>>

ToolResults ==
  /\ phase = "tools" /\ phase' = "poll"
  /\ RecordMessage("result")
  /\ UNCHANGED <<AgentRest, run, stopping, queueVars, retryVars, pendingBash, events>>

(* The listeners of agent_end are done and agent.prompt or continue        *)
(* returns.                                                                *)
AgentEnds ==
  /\ phase = "ending"
  /\ run' = 0 /\ phase' = "none" /\ stopping' = FALSE
  /\ Goes(run, "post")
  /\ UNCHANGED <<active, queueVars, retryVars, textVars, updating, manual, historyVars>>

-----------------------------------------------------------------------------
(* _handlePostAgentRun.                                                    *)

PostRest == <<retryAborted, updating, manual, restored, overlap>>

(* _prepareRetry: the failed response is dropped, then a delay.            *)
PrepareRetry(c) ==
  /\ last = "error" /\ retryAttempt < MaxRetries
  /\ retryAttempt' = retryAttempt + 1
  /\ Goes(c, "retry")
  /\ shown' = Dropped(shown, Assistants)
  /\ UNCHANGED <<active, runVars, queueVars, overflowRecoveryAttempted, saved, since,
                 pendingBash, refused, events>>

\* Mutant: the attempt is not remembered.
BeginOverflowRecoveryAgain(c) ==
  /\ BeginsCompaction(c, "retry")
  /\ shown' = Dropped(shown, Assistants)
  /\ UNCHANGED <<overflowRecoveryAttempted, events>>

(* _checkCompaction: a response that overflowed is dropped, once.          *)
BeginOverflowRecovery(c) ==
  /\ ~overflowRecoveryAttempted /\ overflowRecoveryAttempted' = TRUE
  /\ BeginsCompaction(c, "retry")
  /\ shown' = Dropped(shown, Assistants)
  /\ UNCHANGED events

(* _checkCompaction: the context is over the threshold.                    *)
BeginThresholdCompaction(c) ==
  /\ BeginsCompaction(c, "threshold")
  /\ Event
  /\ UNCHANGED <<shown, overflowRecoveryAttempted>>

BeginCompactionOf(c, outcome) ==
  /\ since = "response"
  /\ \/ outcome \in {"overflow", "length"} /\ BeginOverflowRecovery(c)
     \/ outcome \in {"good", "error", "fatal"} /\ BeginThresholdCompaction(c)
  /\ UNCHANGED <<active, runVars, queueVars, saved, since, pendingBash, refused>>

(* No response was recorded; a retry; a compaction; or nothing to do.      *)
PostRun(c) ==
  /\ pc[c] = "post" /\ last' = "none"
  /\ \/ PrepareRetry(c)
     \/ /\ last # "error" \/ retryAttempt = MaxRetries
        /\ retryAttempt' = IF last \in {"error", "fatal", "overflow"} THEN 0 ELSE retryAttempt
        /\ \/ BeginCompactionOf(c, last)
           \/ /\ last = "none"
              /\ Settles(c, shown)
              /\ UNCHANGED <<runVars, queueVars, overflowRecoveryAttempted, refused, events>>
           \/ /\ last # "none"
              /\ last \in {"overflow", "length"} =>
                   overflowRecoveryAttempted \/ since # "response"
              /\ Returns(c, shown, FALSE)
              /\ UNCHANGED <<events>>
  /\ UNCHANGED PostRest

(* The delay is over.                                                      *)
RetryElapsed(c) ==
  /\ pc[c] = "retry" /\ ~retryAborted
  /\ Continues(c, shown)
  /\ UNCHANGED <<last, retryAttempt, PostRest, events>>

(* abortRetry: the error may still call for a compaction.                  *)
RetryCancelled(c) ==
  /\ pc[c] = "retry" /\ retryAborted
  /\ retryAttempt' = 0 /\ retryAborted' = FALSE
  /\ \/ BeginCompactionOf(c, "error")
     \/ Returns(c, shown, FALSE) /\ UNCHANGED <<events>>
  /\ UNCHANGED <<last, updating, manual, restored, overlap>>

-----------------------------------------------------------------------------
(* _runAutoCompaction and compact.                                         *)

(* prepareCompaction: something has been saved since the last compaction   *)
(* and something comes before what is kept.  A tool result is not cut off. *)
CutPoints ==
  {k \in 2..Len(saved) : saved[k] # "result" /\ SubSeq(saved, 1, k - 1) # <<"summary">>}
Preparable == since # "nothing" /\ CutPoints # {}

Compacted(k) == <<"summary">> \o SubSeq(saved, k, Len(saved))

(* A compaction that is given up: prompt goes on, _handlePostAgentRun       *)
(* returns.                                                                *)
GivesUp(c, messages) ==
  \/ /\ why[c] = "prompt"
     /\ Goes(c, "start")
     /\ shown' = messages
     /\ UNCHANGED <<active, runVars, queueVars, overflowRecoveryAttempted, saved, since,
                    pendingBash, refused>>
  \/ /\ why[c] # "prompt"
     /\ Returns(c, messages, FALSE)

CompactionRest == <<last, retryAttempt, retryAborted, manual, overlap, events>>

(* A memory run that changed the session, or did not.  Its own entries are *)
(* those of SessionMemory: here they do not count as saved.                *)
MemoryRuns(messages) == messages \in {shown, saved} /\ Restores(messages)

(* The forced memory run, behind the one that is under way.                *)
CompactionMemory(c) ==
  /\ pc[c] = "memory" /\ ~updating
  /\ \E messages \in {shown, saved} :
       /\ Restores(messages)
       /\ \/ ~Preparable /\ GivesUp(c, messages)
          \/ /\ Preparable
             /\ Goes(c, "hook")
             /\ shown' = messages
             /\ UNCHANGED <<active, runVars, queueVars, overflowRecoveryAttempted, saved,
                            since, pendingBash, refused>>
  /\ UNCHANGED <<CompactionRest, updating>>

(* session_before_compact cancels, the compaction is aborted or it throws. *)
CompactionCancelled(c) ==
  /\ pc[c] = "hook"
  /\ GivesUp(c, shown)
  /\ UNCHANGED <<CompactionRest, updating, restored>>

AppendCompactionEntry ==
  \E k \in CutPoints :
    /\ saved' = Compacted(k) /\ shown' = Compacted(k)
    /\ since' = "nothing"

(* appendCompaction; the context is rebuilt from what is kept.             *)
CompactionAppended(c) ==
  /\ pc[c] = "hook" /\ Preparable
  /\ Goes(c, "report")
  /\ AppendCompactionEntry
  /\ UNCHANGED <<active, runVars, queueVars, retryVars, pendingBash, updating, manual, historyVars>>

\* Mutant: the response that is to be retried stays where it was kept.
RetryableStays(messages) == messages

(* What a compaction with a retry continues from.                          *)
WithoutRetryable(messages) == Dropped(messages, Failures)

(* session_compact has been handled: for a retry the failed response, that *)
(* may have been kept, is dropped again.                                   *)
CompactionReported(c) ==
  /\ pc[c] = "report"
  /\ \/ /\ why[c] = "retry"
        /\ LET messages == WithoutRetryable(shown) IN
           /\ restored' = (restored \/ EndsWith(Dropped(shown, Failures), Failures))
           /\ Continues(c, messages)
     \/ /\ why[c] # "retry"
        /\ GivesUp(c, shown)
        /\ UNCHANGED restored
  /\ UNCHANGED <<CompactionRest, updating>>

(* compact, stage by stage; its errors are the caller's.                   *)
ManualRest == <<loopVars, runVars, queueVars, retryVars, pendingBash, refused, overlap, events>>

ManualMemory ==
  /\ manual = "memory" /\ ~updating
  /\ manual' = IF Preparable THEN "hook" ELSE "none"
  /\ MemoryRuns(shown')
  /\ UNCHANGED <<ManualRest, saved, since, updating>>

ManualCompaction ==
  /\ manual = "hook"
  /\ \/ Preparable /\ manual' = "report" /\ AppendCompactionEntry
     \/ manual' = "none" /\ UNCHANGED <<shown, saved, since>>
  /\ UNCHANGED <<ManualRest, updating, restored>>

ManualReported ==
  /\ manual = "report" /\ manual' = "none"
  /\ UNCHANGED <<ManualRest, shown, saved, since, updating, restored>>

-----------------------------------------------------------------------------
(* The rest of _emitAgentSettled and _scheduleSessionMemory: callers of     *)
(* waitForIdle go on unless another prompt has started.                    *)
AgentSettled(c) ==
  /\ pc[c] = "settled"
  /\ Goes(c, "done")
  /\ manual' = IF ~active /\ manual \in {"abort", "compact"} THEN AfterIdle(manual)
               ELSE manual
  /\ updating' = TRUE
  /\ UNCHANGED <<active, runVars, queueVars, retryVars, textVars, historyVars>>

(* A memory run that changed the session replaces agent.state.messages.    *)
MemoryUpdated ==
  /\ updating /\ updating' = FALSE
  /\ MemoryRuns(shown')
  /\ UNCHANGED <<loopVars, runVars, queueVars, retryVars, saved, since, pendingBash, manual,
                 refused, overlap, events>>

-----------------------------------------------------------------------------
AgentStep == AgentPolls \/ AgentAnswers \/ AgentAborted \/ AgentFails \/ ToolResults
             \/ AgentEnds

LoopStep(c) ==
  \/ Queue(c) \/ Admit(c) \/ Reject(c) \/ CheckBeforePrompt(c) \/ RunAgentPrompt(c)
  \/ PostRun(c) \/ RetryElapsed(c) \/ RetryCancelled(c)
  \/ CompactionMemory(c) \/ CompactionCancelled(c) \/ CompactionAppended(c)
  \/ CompactionReported(c) \/ AgentSettled(c)

ManualStep == ManualMemory \/ ManualCompaction \/ ManualReported

AgentSessionNext ==
  \/ AgentStep
  \/ \E c \in Calls : Submit(c) \/ LoopStep(c)
  \/ ManualStep \/ MemoryUpdated
  \/ Steer \/ ClearQueue \/ RecordBashResult
  \/ \E kind \in {"abort", "compact"} : Abort(kind)

AgentSessionSpec == AgentSessionInit /\ [][AgentSessionNext]_agentSessionVars

(* Requests, tools, hooks and timers come to an end, and a promise that has *)
(* settled is taken up; the embedder need not do anything.                 *)
AgentSessionFairness ==
  /\ WF_agentSessionVars(AgentStep)
  /\ \A c \in Calls : WF_agentSessionVars(LoopStep(c))
  /\ WF_agentSessionVars(ManualStep)
  /\ WF_agentSessionVars(MemoryUpdated)

-----------------------------------------------------------------------------
(* Properties.                                                             *)

(* isIdle: "no active agent run, retry, auto-compaction, or queued          *)
(* continuation" while it is true, and none of them is cut off from it      *)
(* while it is false; a manual compaction has the session to itself.  Not   *)
(* so when two prompts, or a prompt and compact(), were let in together     *)
(* because they looked before an await and acted after it.                 *)
IdleMeansIdle ==
  ~overlap =>
    /\ active <=> \E c \in Calls : InLoop(c)
    /\ run # 0 => pc[run] = "run"
    /\ manual \in CompactionStages => ~active

(* Bash results are held back "to avoid breaking tool_use/tool_result       *)
(* ordering": what follows a tool call in the agent or in the session is    *)
(* its result, whatever was queued, recorded, retried or compacted since.  *)
ToolBatchUnbroken ==
  ~overlap =>
    \A s \in {shown, saved} : \A i \in 1..(Len(s) - 1) :
      s[i] = "calls" <=> s[i + 1] = "result"

(* A retry or a continuation the session decided on is one that            *)
(* agent.continue accepts, unless a memory run brought the dropped         *)
(* response back or another failed one was kept behind it.                 *)
ContinueAccepted == refused => restored \/ overlap

(* So the messages are always ones a provider takes.                       *)
TranscriptAcceptable == ToolBatchUnbroken /\ ContinueAccepted

(* Messages that were queued by the time the session settles have been     *)
(* delivered, also when they came during a retry, a compaction or the       *)
(* listeners of agent_end.                                                 *)
NothingStranded ==
  [][active /\ ~active' /\ ~overlap' /\ steering' + followUps' > 0 => refused']_agentSessionVars

(* Every run settles: retries, recoveries from overflow and continuations   *)
(* do not keep each other going however long the provider fails.           *)
PromptSettles == \A c \in Calls : pc[c] = "run" ~> pc[c] = "done"

=============================================================================
