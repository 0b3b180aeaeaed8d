---------------------------- MODULE AgentProofs ----------------------------
(***************************************************************************)
(* Proofs about the agent of module Agent, for every bound.                *)
(***************************************************************************)
EXTENDS Agent, SequenceTheorems, TLAPS

USE BoundsAssumption, ModesAssumption

-----------------------------------------------------------------------------
(* Sequences and messages.                                                 *)

LEMMA HeadTailType ==
  ASSUME NEW S, NEW s \in Seq(S), s # <<>>
  PROVE  Head(s) \in S /\ Tail(s) \in Seq(S)
  OBVIOUS

LEMMA AppendType ==
  ASSUME NEW S, NEW s \in Seq(S), NEW x \in S
  PROVE  Append(s, x) \in Seq(S)
  OBVIOUS

LEMMA ConcatType ==
  ASSUME NEW S, NEW s \in Seq(S), NEW t \in Seq(S)
  PROVE  s \o t \in Seq(S)
  OBVIOUS

LEMMA ElementsType ==
  ASSUME NEW S, NEW s \in Seq(S)
  PROVE  Elements(s) \in SUBSET S
  BY DEF Elements

LEMMA IdsAreNumbers ==
  ASSUME NEW s \in Seq(Ids)
  PROVE  Elements(s) \in SUBSET Nat
  BY ElementsType DEF Ids

(* What the drain of PendingMessageQueue returns and leaves.               *)
LEMMA DrainType ==
  ASSUME NEW queue \in Seq(Ids), NEW mode
  PROVE  /\ Drained(queue, mode) \in Seq(Ids)
         /\ Remaining(queue, mode) \in Seq(Ids)
  BY DEF Drained, Remaining

LEMMA MessageTypes ==
  /\ \A m \in Nat : User(m) \in Message
  /\ \A c \in Calls : ToolResult(c) \in Message
  /\ \A stop \in StopReasons : \A calls \in Seq(Calls) :
       Assistant(stop, calls) \in Message
  BY DEF User, ToolResult, Assistant, Message, StopReasons, Calls

LEMMA UserMessagesType ==
  ASSUME NEW ids \in Seq(Ids)
  PROVE  UserMessages(ids) \in Seq(Message)
<1>1. \A i \in 1..Len(ids) : User(ids[i]) \in Message
  BY MessageTypes DEF Ids
<1> QED
  BY <1>1 DEF UserMessages

-----------------------------------------------------------------------------
(* Type correctness, one lemma per group of variables.                     *)

LEMMA DeliveredType ==
  ASSUME TranscriptType
  PROVE  Delivered \in SUBSET Nat
<1>1. ASSUME NEW i \in DOMAIN messages PROVE messages[i].id \in Nat
  <2>1. messages[i] \in Message
    BY DEF TranscriptType
  <2> QED
    BY <2>1 DEF Message
<1> QED
  BY <1>1 DEF Delivered

(* A submission keeps the message supply and its sources well typed.       *)
LEMMA SubmitType ==
  ASSUME HistoryType, NEW op \in Sources, Submit(op)
  PROVE  /\ nextMessage \in Ids
         /\ nextMessage' \in 1..(MaxMessages + 1)
         /\ source' \in [Ids -> Sources]
  BY DEF HistoryType, Submit, Ids

(* Queues hold submitted messages only. *)
LEMMA QueueTypeStep == QueueType /\ HistoryType /\ [Next]_vars => QueueType'
<1> SUFFICES ASSUME QueueType /\ HistoryType, [Next]_vars PROVE QueueType'
  OBVIOUS
<1> USE DEF QueueType, HistoryType, agentState, queues, modes, loopState, tools, supply, history, runUnchanged
<1>1. CASE Steer
  BY <1>1 DEF Steer, Submit, Ids
<1>2. CASE FollowUp
  BY <1>2 DEF FollowUp, Submit, Ids
<1>3. CASE ClearSteeringQueue
  BY <1>3 DEF ClearSteeringQueue
<1>4. CASE ClearFollowUpQueue
  BY <1>4 DEF ClearFollowUpQueue
<1>5. CASE \E s, f \in Modes : SetMode(s, f)
  BY <1>5 DEF SetMode
<1>6. CASE Abort
  BY <1>6 DEF Abort
<1>7. CASE Reset
  BY <1>7 DEF Reset
<1>8. CASE Prompt
  BY <1>8 DEF Prompt, StartRun, Submit, Ids
<1>9. CASE ContinueFromSteering
  BY <1>9, DrainType DEF ContinueFromSteering, StartRun
<1>10. CASE ContinueFromFollowUp
  BY <1>10, DrainType DEF ContinueFromFollowUp, StartRun
<1>11. CASE ContinueFromTranscript
  BY <1>11 DEF ContinueFromTranscript, StartRun
<1>12. CASE EmitPrompt
  BY <1>12, HeadTailType DEF EmitPrompt
<1>13. CASE EnterLoop
  BY <1>13 DEF EnterLoop
<1>14. CASE PollSteering
  <2>1. CASE skipPoll
    BY <1>14, <2>1 DEF PollSteering
  <2>2. CASE ~skipPoll
    BY <1>14, <2>2, DrainType DEF PollSteering
  <2> QED
    BY <2>1, <2>2
<1>15. CASE InjectPending
  BY <1>15, HeadTailType DEF InjectPending
<1>16. CASE TurnReady
  BY <1>16 DEF TurnReady
<1>17. CASE StreamAssistantResponse
  BY <1>17 DEF StreamAssistantResponse
<1>18. CASE StartCall
  BY <1>18 DEF StartCall
<1>19. CASE FinishImmediately
  BY <1>19 DEF FinishImmediately
<1>20. CASE PrepareCall
  BY <1>20 DEF PrepareCall
<1>21. CASE NextCall
  BY <1>21 DEF NextCall
<1>22. CASE ReportResult
  BY <1>22 DEF ReportResult
<1>23. CASE TurnEnd
  BY <1>23 DEF TurnEnd
<1>24. CASE ErrorTurnEnd
  BY <1>24 DEF ErrorTurnEnd
<1>25. CASE PollFollowUp
  BY <1>25, DrainType DEF PollFollowUp
<1>26. CASE AgentEnd
  BY <1>26 DEF AgentEnd
<1>27. CASE FailMessage
  BY <1>27 DEF FailMessage
<1>28. CASE FailTurnEnd
  BY <1>28 DEF FailTurnEnd
<1>29. CASE FailAgentEnd
  BY <1>29 DEF FailAgentEnd
<1>30. CASE FinishRun
  BY <1>30 DEF FinishRun
<1>31. CASE \E c \in Calls : FinishCall(c)
  BY <1>31 DEF FinishCall
<1>32. CASE \E c \in Calls : FailCall(c)
  BY <1>32 DEF FailCall
<1>33. CASE \E c \in Calls : FinishOrphan(c)
  BY <1>33 DEF FinishOrphan
<1>34. CASE UNCHANGED vars
  BY <1>34 DEF vars
<1> QED
  BY <1>1, <1>2, <1>3, <1>4, <1>5, <1>6, <1>7, <1>8, <1>9, <1>10, <1>11,
     <1>12, <1>13, <1>14, <1>15, <1>16, <1>17, <1>18, <1>19, <1>20, <1>21,
     <1>22, <1>23, <1>24, <1>25, <1>26, <1>27, <1>28, <1>29, <1>30, <1>31,
     <1>32, <1>33, <1>34
     DEF Next, Embedder, Loop, Tool

(* Control and the flags of the run. *)
LEMMA FlagTypeStep == FlagType /\ [Next]_vars => FlagType'
<1> SUFFICES ASSUME FlagType, [Next]_vars PROVE FlagType'
  OBVIOUS
<1> USE DEF FlagType, Control, agentState, queues, modes, loopState, tools, supply, history, runUnchanged
<1>1. CASE Steer
  BY <1>1 DEF Steer
<1>2. CASE FollowUp
  BY <1>2 DEF FollowUp
<1>3. CASE ClearSteeringQueue
  BY <1>3 DEF ClearSteeringQueue
<1>4. CASE ClearFollowUpQueue
  BY <1>4 DEF ClearFollowUpQueue
<1>5. CASE \E s, f \in Modes : SetMode(s, f)
  BY <1>5 DEF SetMode
<1>6. CASE Abort
  BY <1>6 DEF Abort
<1>7. CASE Reset
  BY <1>7 DEF Reset
<1>8. CASE Prompt
  BY <1>8 DEF Prompt, StartRun, Submit
<1>9. CASE ContinueFromSteering
  BY <1>9 DEF ContinueFromSteering, StartRun
<1>10. CASE ContinueFromFollowUp
  BY <1>10 DEF ContinueFromFollowUp, StartRun
<1>11. CASE ContinueFromTranscript
  BY <1>11 DEF ContinueFromTranscript, StartRun
<1>12. CASE EmitPrompt
  BY <1>12 DEF EmitPrompt, Emit, Throw, ThrowTo
<1>13. CASE EnterLoop
  BY <1>13 DEF EnterLoop, Emit, Throw, ThrowTo
<1>14. CASE PollSteering
  BY <1>14 DEF PollSteering
<1>15. CASE InjectPending
  BY <1>15 DEF InjectPending, Emit, Throw, ThrowTo
<1>16. CASE TurnReady
  BY <1>16 DEF TurnReady, Emit, Throw, ThrowTo
<1>17. CASE StreamAssistantResponse
  BY <1>17, ZenonT(60) DEF StreamAssistantResponse, Emit, Throw, ThrowTo, Respond
<1>18. CASE StartCall
  BY <1>18 DEF StartCall, Emit, Throw, ThrowTo
<1>19. CASE FinishImmediately
  BY <1>19 DEF FinishImmediately, Emit, Throw, ThrowTo
<1>20. CASE PrepareCall
  BY <1>20 DEF PrepareCall
<1>21. CASE NextCall
  BY <1>21 DEF NextCall, ReturnFromBatch
<1>22. CASE ReportResult
  BY <1>22 DEF ReportResult, Emit, Throw, ThrowTo, ReturnFromBatch
<1>23. CASE TurnEnd
  BY <1>23 DEF TurnEnd, Emit, Throw, ThrowTo
<1>24. CASE ErrorTurnEnd
  BY <1>24 DEF ErrorTurnEnd, Emit, Throw, ThrowTo
<1>25. CASE PollFollowUp
  BY <1>25 DEF PollFollowUp
<1>26. CASE AgentEnd
  BY <1>26 DEF AgentEnd, Emit, Throw, ThrowTo
<1>27. CASE FailMessage
  BY <1>27 DEF FailMessage, Emit, Throw, ThrowTo
<1>28. CASE FailTurnEnd
  BY <1>28 DEF FailTurnEnd, Emit, Throw, ThrowTo
<1>29. CASE FailAgentEnd
  BY <1>29 DEF FailAgentEnd
<1>30. CASE FinishRun
  BY <1>30 DEF FinishRun
<1>31. CASE \E c \in Calls : FinishCall(c)
  BY <1>31 DEF FinishCall, Emit, Throw, ThrowTo
<1>32. CASE \E c \in Calls : FailCall(c)
  BY <1>32 DEF FailCall, Emit, Throw, ThrowTo
<1>33. CASE \E c \in Calls : FinishOrphan(c)
  BY <1>33 DEF FinishOrphan
<1>34. CASE UNCHANGED vars
  BY <1>34 DEF vars
<1> QED
  BY <1>1, <1>2, <1>3, <1>4, <1>5, <1>6, <1>7, <1>8, <1>9, <1>10, <1>11,
     <1>12, <1>13, <1>14, <1>15, <1>16, <1>17, <1>18, <1>19, <1>20, <1>21,
     <1>22, <1>23, <1>24, <1>25, <1>26, <1>27, <1>28, <1>29, <1>30, <1>31,
     <1>32, <1>33, <1>34
     DEF Next, Embedder, Loop, Tool

(* Supply and history variables. *)
LEMMA HistoryTypeStep == QueueType /\ TranscriptType /\ HistoryType /\ [Next]_vars => HistoryType'
<1> SUFFICES ASSUME QueueType /\ TranscriptType /\ HistoryType, [Next]_vars PROVE HistoryType'
  OBVIOUS
<1> USE DEF QueueType, TranscriptType, HistoryType, agentState, queues, modes, loopState, tools, supply, history, runUnchanged
<1>1. CASE Steer
  BY <1>1, SubmitType DEF Steer, Sources
<1>2. CASE FollowUp
  BY <1>2, SubmitType DEF FollowUp, Sources
<1>3. CASE ClearSteeringQueue
  BY <1>3, IdsAreNumbers DEF ClearSteeringQueue
<1>4. CASE ClearFollowUpQueue
  BY <1>4, IdsAreNumbers DEF ClearFollowUpQueue
<1>5. CASE \E s, f \in Modes : SetMode(s, f)
  BY <1>5 DEF SetMode
<1>6. CASE Abort
  BY <1>6 DEF Abort
<1>7. CASE Reset
  BY <1>7, IdsAreNumbers, DeliveredType DEF Reset
<1>8. CASE Prompt
  BY <1>8, SubmitType DEF Prompt, StartRun, Sources
<1>9. CASE ContinueFromSteering
  BY <1>9 DEF ContinueFromSteering, StartRun
<1>10. CASE ContinueFromFollowUp
  BY <1>10 DEF ContinueFromFollowUp, StartRun
<1>11. CASE ContinueFromTranscript
  BY <1>11 DEF ContinueFromTranscript, StartRun
<1>12. CASE EmitPrompt
  BY <1>12 DEF EmitPrompt, Emit, Throw, ThrowTo
<1>13. CASE EnterLoop
  BY <1>13 DEF EnterLoop, Emit, Throw, ThrowTo
<1>14. CASE PollSteering
  BY <1>14 DEF PollSteering
<1>15. CASE InjectPending
  BY <1>15, SMTT(30) DEF InjectPending, Emit, Throw, ThrowTo
<1>16. CASE TurnReady
  BY <1>16 DEF TurnReady, Emit, Throw, ThrowTo
<1>17. CASE StreamAssistantResponse
  <2>1. UNCHANGED <<nextMessage, source, cleared, dropped>>
    BY <1>17 DEF StreamAssistantResponse
  <2>2. \/ faults' = faults
        \/ faults < MaxFaults /\ faults' = faults + 1
    BY <1>17 DEF StreamAssistantResponse, Respond, Emit, Throw, ThrowTo
  <2> QED
    BY <2>1, <2>2
<1>18. CASE StartCall
  BY <1>18 DEF StartCall, Emit, Throw, ThrowTo
<1>19. CASE FinishImmediately
  BY <1>19 DEF FinishImmediately, Emit, Throw, ThrowTo
<1>20. CASE PrepareCall
  BY <1>20 DEF PrepareCall
<1>21. CASE NextCall
  BY <1>21 DEF NextCall
<1>22. CASE ReportResult
  <2>1. UNCHANGED <<nextMessage, source, cleared, dropped>>
    BY <1>22 DEF ReportResult
  <2>2. \/ faults' = faults
        \/ faults < MaxFaults /\ faults' = faults + 1
    BY <1>22 DEF ReportResult, Emit, Throw, ThrowTo
  <2> QED
    BY <2>1, <2>2
<1>23. CASE TurnEnd
  BY <1>23 DEF TurnEnd, Emit, Throw, ThrowTo
<1>24. CASE ErrorTurnEnd
  BY <1>24 DEF ErrorTurnEnd, Emit, Throw, ThrowTo
<1>25. CASE PollFollowUp
  BY <1>25 DEF PollFollowUp
<1>26. CASE AgentEnd
  BY <1>26 DEF AgentEnd, Emit, Throw, ThrowTo
<1>27. CASE FailMessage
  BY <1>27 DEF FailMessage, Emit, Throw, ThrowTo
<1>28. CASE FailTurnEnd
  BY <1>28 DEF FailTurnEnd, Emit, Throw, ThrowTo
<1>29. CASE FailAgentEnd
  BY <1>29 DEF FailAgentEnd
<1>30. CASE FinishRun
  BY <1>30, ElementsType DEF FinishRun
<1>31. CASE \E c \in Calls : FinishCall(c)
  BY <1>31 DEF FinishCall, Emit, Throw, ThrowTo
<1>32. CASE \E c \in Calls : FailCall(c)
  BY <1>32 DEF FailCall, Emit, Throw, ThrowTo
<1>33. CASE \E c \in Calls : FinishOrphan(c)
  BY <1>33 DEF FinishOrphan
<1>34. CASE UNCHANGED vars
  BY <1>34 DEF vars
<1> QED
  BY <1>1, <1>2, <1>3, <1>4, <1>5, <1>6, <1>7, <1>8, <1>9, <1>10, <1>11,
     <1>12, <1>13, <1>14, <1>15, <1>16, <1>17, <1>18, <1>19, <1>20, <1>21,
     <1>22, <1>23, <1>24, <1>25, <1>26, <1>27, <1>28, <1>29, <1>30, <1>31,
     <1>32, <1>33, <1>34
     DEF Next, Embedder, Loop, Tool

LEMMA IssuedCallsType ==
  ASSUME ToolType, NEW n \in 0..MaxBatch, nextCall + n <= MaxCalls + 1
  PROVE  IssuedCalls(n) \in Seq(Calls)
  BY DEF ToolType, IssuedCalls, Calls

LEMMA CurrentCallType ==
  ASSUME ToolType, BatchInv, pc \in InBatch
  PROVE  CurrentCall \in Calls
  BY DEF ToolType, BatchInv, CurrentCall

(* The tool batch and the calls in progress. *)
LEMMA ToolTypeStep == ToolType /\ BatchInv /\ [Next]_vars => ToolType'
<1> SUFFICES ASSUME ToolType /\ BatchInv, [Next]_vars PROVE ToolType'
  OBVIOUS
<1> USE DEF ToolType, InBatch, InCall, agentState, queues, modes, loopState, tools, supply, history, runUnchanged
<1>1. CASE Steer
  BY <1>1 DEF Steer
<1>2. CASE FollowUp
  BY <1>2 DEF FollowUp
<1>3. CASE ClearSteeringQueue
  BY <1>3 DEF ClearSteeringQueue
<1>4. CASE ClearFollowUpQueue
  BY <1>4 DEF ClearFollowUpQueue
<1>5. CASE \E s, f \in Modes : SetMode(s, f)
  BY <1>5 DEF SetMode
<1>6. CASE Abort
  BY <1>6 DEF Abort
<1>7. CASE Reset
  BY <1>7 DEF Reset
<1>8. CASE Prompt
  BY <1>8 DEF Prompt, StartRun
<1>9. CASE ContinueFromSteering
  BY <1>9 DEF ContinueFromSteering, StartRun
<1>10. CASE ContinueFromFollowUp
  BY <1>10 DEF ContinueFromFollowUp, StartRun
<1>11. CASE ContinueFromTranscript
  BY <1>11 DEF ContinueFromTranscript, StartRun
<1>12. CASE EmitPrompt
  BY <1>12 DEF EmitPrompt
<1>13. CASE EnterLoop
  BY <1>13 DEF EnterLoop
<1>14. CASE PollSteering
  BY <1>14 DEF PollSteering
<1>15. CASE InjectPending
  BY <1>15 DEF InjectPending
<1>16. CASE TurnReady
  BY <1>16 DEF TurnReady
<1>17. CASE StreamAssistantResponse
  <2>1. ASSUME NEW stop, NEW n \in 0..MaxBatch,
               NEW mode \in {"sequential", "parallel"}, Respond(stop, n, mode)
        PROVE  ToolType'
    <3>1. IssuedCalls(n) \in Seq(Calls)
      BY <2>1, IssuedCallsType DEF Respond
    <3>2. nextCall' \in 1..(MaxCalls + 1)
      BY <2>1 DEF Respond
    <3>3. callState' \in [Calls -> CallStates]
      BY <2>1 DEF Respond, CallStates
    <3>4. batch' \in [calls : Seq(Calls), mode : BatchModes, next : Nat, reported : Nat]
      BY <2>1, <3>1 DEF Respond, Batch, BatchModes
    <3> QED
      BY <1>17, <3>2, <3>3, <3>4 DEF StreamAssistantResponse
  <2> QED
    BY <1>17, <2>1 DEF StreamAssistantResponse
<1>18. CASE StartCall
  BY <1>18, CurrentCallType DEF StartCall, CallStates
<1>19. CASE FinishImmediately
  BY <1>19, CurrentCallType DEF FinishImmediately, CallStates
<1>20. CASE PrepareCall
  BY <1>20 DEF PrepareCall, CallStates
<1>21. CASE NextCall
  BY <1>21 DEF NextCall, MoreCalls, CallStates
<1>22. CASE ReportResult
  <2>1. callState' \in [Calls -> CallStates]
    BY <1>22 DEF ReportResult, CallStates
  <2>2. batch' \in [calls : Seq(Calls), mode : BatchModes, next : Nat, reported : Nat]
    BY <1>22, SMTT(30) DEF ReportResult
  <2> QED
    BY <1>22, <2>1, <2>2 DEF ReportResult
<1>23. CASE TurnEnd
  BY <1>23 DEF TurnEnd
<1>24. CASE ErrorTurnEnd
  BY <1>24 DEF ErrorTurnEnd
<1>25. CASE PollFollowUp
  BY <1>25 DEF PollFollowUp
<1>26. CASE AgentEnd
  BY <1>26 DEF AgentEnd
<1>27. CASE FailMessage
  BY <1>27 DEF FailMessage
<1>28. CASE FailTurnEnd
  BY <1>28 DEF FailTurnEnd
<1>29. CASE FailAgentEnd
  BY <1>29 DEF FailAgentEnd
<1>30. CASE FinishRun
  BY <1>30 DEF FinishRun, NoBatch, Batch, BatchModes
<1>31. CASE \E c \in Calls : FinishCall(c)
  BY <1>31 DEF FinishCall, CallStates
<1>32. CASE \E c \in Calls : FailCall(c)
  BY <1>32 DEF FailCall, CallStates
<1>33. CASE \E c \in Calls : FinishOrphan(c)
  BY <1>33 DEF FinishOrphan, CallStates
<1>34. CASE UNCHANGED vars
  BY <1>34 DEF vars
<1> QED
  BY <1>1, <1>2, <1>3, <1>4, <1>5, <1>6, <1>7, <1>8, <1>9, <1>10, <1>11,
     <1>12, <1>13, <1>14, <1>15, <1>16, <1>17, <1>18, <1>19, <1>20, <1>21,
     <1>22, <1>23, <1>24, <1>25, <1>26, <1>27, <1>28, <1>29, <1>30, <1>31,
     <1>32, <1>33, <1>34
     DEF Next, Embedder, Loop, Tool

LEMMA StartRunType ==
  ASSUME TranscriptType, NEW prompts \in Seq(Ids), NEW skip,
         StartRun(prompts, skip)
  PROVE  TranscriptType'
<1>1. UserMessages(prompts) \in Seq(Message)
  BY UserMessagesType
<1>2. messages' = messages /\ context' = messages \o UserMessages(prompts)
  BY DEF StartRun
<1> QED
  BY <1>1, <1>2 DEF TranscriptType

LEMMA ResponseType ==
  ASSUME ToolType, NEW stop \in StopReasons, NEW n \in 0..MaxBatch,
         nextCall + n <= MaxCalls + 1
  PROVE  Assistant(stop, IssuedCalls(n)) \in Message
  BY IssuedCallsType, MessageTypes

LEMMA BatchResultsType ==
  ASSUME ToolType, BatchInv, pc \in InBatch
  PROVE  [i \in 1..batch.next |-> ToolResult(batch.calls[i])] \in Seq(Message)
<1>1. \A i \in 1..batch.next : batch.calls[i] \in Calls
  BY DEF ToolType, BatchInv
<1> QED
  BY <1>1, MessageTypes DEF ToolType

(* Transcript and context. *)
LEMMA TranscriptTypeStep == TypeOK /\ BatchInv /\ [Next]_vars => TranscriptType'
<1> SUFFICES ASSUME TypeOK /\ BatchInv, [Next]_vars PROVE TranscriptType'
  OBVIOUS
<1> USE DEF TypeOK, TranscriptType, agentState, queues, modes, loopState, tools, supply, history, runUnchanged
<1>1. CASE Steer
  BY <1>1 DEF Steer
<1>2. CASE FollowUp
  BY <1>2 DEF FollowUp
<1>3. CASE ClearSteeringQueue
  BY <1>3 DEF ClearSteeringQueue
<1>4. CASE ClearFollowUpQueue
  BY <1>4 DEF ClearFollowUpQueue
<1>5. CASE \E s, f \in Modes : SetMode(s, f)
  BY <1>5 DEF SetMode
<1>6. CASE Abort
  BY <1>6 DEF Abort
<1>7. CASE Reset
  BY <1>7 DEF Reset
<1>8. CASE Prompt
  <2>1. <<nextMessage>> \in Seq(Ids)
    BY <1>8, SubmitType DEF Prompt, Sources
  <2> QED
    BY <1>8, <2>1, StartRunType DEF Prompt
<1>9. CASE ContinueFromSteering
  BY <1>9, StartRunType, DrainType DEF ContinueFromSteering, QueueType
<1>10. CASE ContinueFromFollowUp
  BY <1>10, StartRunType, DrainType DEF ContinueFromFollowUp, QueueType
<1>11. CASE ContinueFromTranscript
  <2>1. <<>> \in Seq(Ids)
    OBVIOUS
  <2> QED
    BY <1>11, <2>1, StartRunType DEF ContinueFromTranscript
<1>12. CASE EmitPrompt
  <2>1. pending # <<>> => User(Head(pending)) \in Message
    BY HeadTailType, MessageTypes DEF Ids, QueueType
  <2> QED
    BY <1>12, <2>1, AppendType DEF EmitPrompt
<1>13. CASE EnterLoop
  BY <1>13 DEF EnterLoop
<1>14. CASE PollSteering
  BY <1>14 DEF PollSteering
<1>15. CASE InjectPending
  <2>1. pending # <<>> => User(Head(pending)) \in Message
    BY HeadTailType, MessageTypes DEF Ids, QueueType
  <2> QED
    BY <1>15, <2>1, AppendType DEF InjectPending
<1>16. CASE TurnReady
  BY <1>16 DEF TurnReady
<1>17. CASE StreamAssistantResponse
  <2>1. \/ messages' = messages /\ context' = context
        \/ \E m \in Message : /\ messages' = Append(messages, m)
                            /\ context' = Append(context, m)
    BY <1>17, ResponseType DEF StreamAssistantResponse, Respond
  <2> QED
    BY <2>1, AppendType
<1>18. CASE StartCall
  BY <1>18 DEF StartCall
<1>19. CASE FinishImmediately
  BY <1>19 DEF FinishImmediately
<1>20. CASE PrepareCall
  BY <1>20 DEF PrepareCall
<1>21. CASE NextCall
  <2>1. messages' = messages
    BY <1>21 DEF NextCall
  <2>2. context' = context \/ ReturnFromBatch
    BY <1>21 DEF NextCall
  <2>3. context' \in Seq(Message)
    BY <1>21, <2>2, BatchResultsType, ConcatType DEF NextCall, ReturnFromBatch, InBatch
  <2> QED
    BY <2>1, <2>3
<1>22. CASE ReportResult
  <2>1. batch.calls[batch.reported + 1] \in Calls
    BY <1>22 DEF ReportResult, BatchInv, ToolType, InBatch
  <2>2. \/ messages' = messages
        \/ messages' = Append(messages, ToolResult(batch.calls[batch.reported + 1]))
    BY <1>22 DEF ReportResult
  <2>3. messages' \in Seq(Message)
    BY <2>1, <2>2, MessageTypes, AppendType
  <2>4. context' = context \/ ReturnFromBatch
    BY <1>22 DEF ReportResult
  <2>5. pc \in InBatch
    BY <1>22 DEF ReportResult, InBatch
  <2>6. context' \in Seq(Message)
    BY <2>4, <2>5, BatchResultsType, ConcatType DEF ReturnFromBatch
  <2> QED
    BY <2>3, <2>6
<1>23. CASE TurnEnd
  BY <1>23 DEF TurnEnd
<1>24. CASE ErrorTurnEnd
  BY <1>24 DEF ErrorTurnEnd
<1>25. CASE PollFollowUp
  BY <1>25 DEF PollFollowUp
<1>26. CASE AgentEnd
  BY <1>26 DEF AgentEnd
<1>27. CASE FailMessage
  <2>1. <<>> \in Seq(Calls)
    OBVIOUS
  <2>2. Assistant(IF aborted THEN "aborted" ELSE "error", <<>>) \in Message
    BY <2>1, MessageTypes DEF StopReasons
  <2> QED
    BY <1>27, <2>2, AppendType DEF FailMessage
<1>28. CASE FailTurnEnd
  BY <1>28 DEF FailTurnEnd
<1>29. CASE FailAgentEnd
  BY <1>29 DEF FailAgentEnd
<1>30. CASE FinishRun
  BY <1>30 DEF FinishRun
<1>31. CASE \E c \in Calls : FinishCall(c)
  BY <1>31 DEF FinishCall
<1>32. CASE \E c \in Calls : FailCall(c)
  BY <1>32 DEF FailCall
<1>33. CASE \E c \in Calls : FinishOrphan(c)
  BY <1>33 DEF FinishOrphan
<1>34. CASE UNCHANGED vars
  BY <1>34 DEF vars
<1> QED
  BY <1>1, <1>2, <1>3, <1>4, <1>5, <1>6, <1>7, <1>8, <1>9, <1>10, <1>11,
     <1>12, <1>13, <1>14, <1>15, <1>16, <1>17, <1>18, <1>19, <1>20, <1>21,
     <1>22, <1>23, <1>24, <1>25, <1>26, <1>27, <1>28, <1>29, <1>30, <1>31,
     <1>32, <1>33, <1>34
     DEF Next, Embedder, Loop, Tool

-----------------------------------------------------------------------------
(* The inductive invariants about control.                                 *)

LEMMA RunInvStep == TypeOK /\ RunInv /\ [Next]_vars => RunInv'
<1> SUFFICES ASSUME TypeOK /\ RunInv, [Next]_vars PROVE RunInv'
  OBVIOUS
<1> USE DEF RunInv, TypeOK, FlagType, HistoryType, Control, Injecting, Failing, agentState, queues, modes, loopState, tools, supply, history, runUnchanged
<1>1. CASE Steer
  BY <1>1 DEF Steer
<1>2. CASE FollowUp
  BY <1>2 DEF FollowUp
<1>3. CASE ClearSteeringQueue
  BY <1>3 DEF ClearSteeringQueue
<1>4. CASE ClearFollowUpQueue
  BY <1>4 DEF ClearFollowUpQueue
<1>5. CASE \E s, f \in Modes : SetMode(s, f)
  BY <1>5 DEF SetMode
<1>6. CASE Abort
  BY <1>6 DEF Abort
<1>7. CASE Reset
  BY <1>7 DEF Reset
<1>8. CASE Prompt
  BY <1>8 DEF Prompt, StartRun, Submit
<1>9. CASE ContinueFromSteering
  BY <1>9 DEF ContinueFromSteering, StartRun, Submit
<1>10. CASE ContinueFromFollowUp
  BY <1>10 DEF ContinueFromFollowUp, StartRun, Submit
<1>11. CASE ContinueFromTranscript
  BY <1>11 DEF ContinueFromTranscript, StartRun, Submit
<1>12. CASE EmitPrompt
  BY <1>12 DEF EmitPrompt, Emit, Throw, ThrowTo
<1>13. CASE EnterLoop
  BY <1>13 DEF EnterLoop, Emit, Throw, ThrowTo
<1>14. CASE PollSteering
  BY <1>14 DEF PollSteering, Drained
<1>15. CASE InjectPending
  BY <1>15 DEF InjectPending, Emit, Throw, ThrowTo
<1>16. CASE TurnReady
  BY <1>16 DEF TurnReady, Emit, Throw, ThrowTo
<1>17. CASE StreamAssistantResponse
  BY <1>17 DEF StreamAssistantResponse, Emit, Throw, ThrowTo, Respond
<1>18. CASE StartCall
  BY <1>18 DEF StartCall, Emit, Throw, ThrowTo
<1>19. CASE FinishImmediately
  BY <1>19 DEF FinishImmediately, Emit, Throw, ThrowTo
<1>20. CASE PrepareCall
  BY <1>20 DEF PrepareCall
<1>21. CASE NextCall
  BY <1>21 DEF NextCall, ReturnFromBatch
<1>22. CASE ReportResult
  BY <1>22 DEF ReportResult, Emit, Throw, ThrowTo, ReturnFromBatch
<1>23. CASE TurnEnd
  BY <1>23 DEF TurnEnd, Emit, Throw, ThrowTo
<1>24. CASE ErrorTurnEnd
  BY <1>24 DEF ErrorTurnEnd, Emit, Throw, ThrowTo
<1>25. CASE PollFollowUp
  BY <1>25 DEF PollFollowUp
<1>26. CASE AgentEnd
  BY <1>26 DEF AgentEnd, Emit, Throw, ThrowTo
<1>27. CASE FailMessage
  BY <1>27 DEF FailMessage, Emit, Throw, ThrowTo
<1>28. CASE FailTurnEnd
  BY <1>28 DEF FailTurnEnd, Emit, Throw, ThrowTo
<1>29. CASE FailAgentEnd
  BY <1>29 DEF FailAgentEnd
<1>30. CASE FinishRun
  BY <1>30 DEF FinishRun
<1>31. CASE \E c \in Calls : FinishCall(c)
  BY <1>31 DEF FinishCall, Emit, Throw, ThrowTo, Awaited
<1>32. CASE \E c \in Calls : FailCall(c)
  BY <1>32 DEF FailCall, Emit, Throw, ThrowTo, Awaited
<1>33. CASE \E c \in Calls : FinishOrphan(c)
  BY <1>33 DEF FinishOrphan
<1>34. CASE UNCHANGED vars
  BY <1>34 DEF vars
<1> QED
  BY <1>1, <1>2, <1>3, <1>4, <1>5, <1>6, <1>7, <1>8, <1>9, <1>10, <1>11,
     <1>12, <1>13, <1>14, <1>15, <1>16, <1>17, <1>18, <1>19, <1>20, <1>21,
     <1>22, <1>23, <1>24, <1>25, <1>26, <1>27, <1>28, <1>29, <1>30, <1>31,
     <1>32, <1>33, <1>34
     DEF Next, Embedder, Loop, Tool

LEMMA BatchInvStep == TypeOK /\ BatchInv /\ [Next]_vars => BatchInv'
<1> SUFFICES ASSUME TypeOK /\ BatchInv, [Next]_vars PROVE BatchInv'
  OBVIOUS
<1> USE DEF BatchInv, TypeOK, FlagType, ToolType, BatchModes, InBatch, InCall, agentState, queues, modes, loopState, tools, supply, history, runUnchanged
<1>1. CASE Steer
  BY <1>1 DEF Steer
<1>2. CASE FollowUp
  BY <1>2 DEF FollowUp
<1>3. CASE ClearSteeringQueue
  BY <1>3 DEF ClearSteeringQueue
<1>4. CASE ClearFollowUpQueue
  BY <1>4 DEF ClearFollowUpQueue
<1>5. CASE \E s, f \in Modes : SetMode(s, f)
  BY <1>5 DEF SetMode
<1>6. CASE Abort
  BY <1>6 DEF Abort
<1>7. CASE Reset
  BY <1>7 DEF Reset
<1>8. CASE Prompt
  BY <1>8 DEF Prompt, StartRun, Submit
<1>9. CASE ContinueFromSteering
  BY <1>9 DEF ContinueFromSteering, StartRun, Submit
<1>10. CASE ContinueFromFollowUp
  BY <1>10 DEF ContinueFromFollowUp, StartRun, Submit
<1>11. CASE ContinueFromTranscript
  BY <1>11 DEF ContinueFromTranscript, StartRun, Submit
<1>12. CASE EmitPrompt
  BY <1>12 DEF EmitPrompt, Emit, Throw, ThrowTo
<1>13. CASE EnterLoop
  BY <1>13 DEF EnterLoop, Emit, Throw, ThrowTo
<1>14. CASE PollSteering
  BY <1>14 DEF PollSteering
<1>15. CASE InjectPending
  BY <1>15 DEF InjectPending, Emit, Throw, ThrowTo
<1>16. CASE TurnReady
  BY <1>16 DEF TurnReady, Emit, Throw, ThrowTo
<1>17. CASE StreamAssistantResponse
  <2>1. ASSUME NEW stop, NEW n \in 0..MaxBatch,
               NEW mode \in {"sequential", "parallel"}, Respond(stop, n, mode)
        PROVE  BatchInv'
    BY <2>1 DEF Respond, Emit, Throw, ThrowTo, Batch, IssuedCalls
  <2> QED
    BY <1>17, <2>1 DEF StreamAssistantResponse, Throw, ThrowTo
<1>18. CASE StartCall
  BY <1>18 DEF StartCall, Emit, Throw, ThrowTo
<1>19. CASE FinishImmediately
  BY <1>19 DEF FinishImmediately, Emit, Throw, ThrowTo
<1>20. CASE PrepareCall
  BY <1>20 DEF PrepareCall
<1>21. CASE NextCall
  BY <1>21, SMTT(30) DEF NextCall, MoreCalls
<1>22. CASE ReportResult
  <2>1. pc' = "failMessage" => BatchInv'
    OBVIOUS
  <2>2. ASSUME pc' # "failMessage" PROVE BatchInv'
    <3>1. batch' = [batch EXCEPT !.reported = batch.reported + 1]
      BY <1>22, <2>2 DEF ReportResult, Throw, ThrowTo
    <3>2. CASE batch.mode = "parallel"
      <4>1. \/ batch.reported + 1 = batch.next /\ pc' = "turnEnd"
            \/ batch.reported + 1 # batch.next /\ pc' = "report"
        BY <1>22, <2>2, <3>2 DEF ReportResult, Emit, Throw, ThrowTo
      <4> QED
        BY <1>22, <3>1, <3>2, <4>1 DEF ReportResult
    <3>3. CASE batch.mode # "parallel"
      <4>1. pc' = "nextCall"
        BY <1>22, <2>2, <3>3 DEF ReportResult, Emit, Throw, ThrowTo
      <4> QED
        BY <1>22, <3>1, <3>3, <4>1 DEF ReportResult
    <3> QED
      BY <3>2, <3>3
  <2> QED
    BY <2>1, <2>2
<1>23. CASE TurnEnd
  BY <1>23 DEF TurnEnd, Emit, Throw, ThrowTo
<1>24. CASE ErrorTurnEnd
  BY <1>24 DEF ErrorTurnEnd, Emit, Throw, ThrowTo
<1>25. CASE PollFollowUp
  BY <1>25 DEF PollFollowUp
<1>26. CASE AgentEnd
  BY <1>26 DEF AgentEnd, Emit, Throw, ThrowTo
<1>27. CASE FailMessage
  BY <1>27 DEF FailMessage, Emit, Throw, ThrowTo
<1>28. CASE FailTurnEnd
  BY <1>28 DEF FailTurnEnd, Emit, Throw, ThrowTo
<1>29. CASE FailAgentEnd
  BY <1>29 DEF FailAgentEnd
<1>30. CASE FinishRun
  BY <1>30 DEF FinishRun
<1>31. CASE \E c \in Calls : FinishCall(c)
  BY <1>31 DEF FinishCall, Emit, Throw, ThrowTo, Awaited
<1>32. CASE \E c \in Calls : FailCall(c)
  BY <1>32 DEF FailCall, Emit, Throw, ThrowTo, Awaited
<1>33. CASE \E c \in Calls : FinishOrphan(c)
  BY <1>33 DEF FinishOrphan
<1>34. CASE UNCHANGED vars
  BY <1>34 DEF vars
<1> QED
  BY <1>1, <1>2, <1>3, <1>4, <1>5, <1>6, <1>7, <1>8, <1>9, <1>10, <1>11,
     <1>12, <1>13, <1>14, <1>15, <1>16, <1>17, <1>18, <1>19, <1>20, <1>21,
     <1>22, <1>23, <1>24, <1>25, <1>26, <1>27, <1>28, <1>29, <1>30, <1>31,
     <1>32, <1>33, <1>34
     DEF Next, Embedder, Loop, Tool

-----------------------------------------------------------------------------
ControlInv == TypeOK /\ RunInv /\ BatchInv

LEMMA InitControl == Init => ControlInv
<1> SUFFICES ASSUME Init PROVE ControlInv
  OBVIOUS
<1>1. TranscriptType /\ QueueType
  BY DEF Init, TranscriptType, QueueType
<1>2. ToolType
  BY DEF Init, ToolType, NoBatch, Batch, BatchModes, CallStates
<1>3. FlagType
  BY DEF Init, FlagType, Control
<1>4. HistoryType
  <2>1. [m \in Ids |-> "none"] \in [Ids -> Sources]
    BY DEF Sources
  <2> QED
    BY <2>1 DEF Init, HistoryType
<1>5. RunInv /\ BatchInv
  BY DEF Init, RunInv, BatchInv, InBatch, InCall
<1> QED
  BY <1>1, <1>2, <1>3, <1>4, <1>5 DEF ControlInv, TypeOK

LEMMA ControlStep == ControlInv /\ [Next]_vars => ControlInv'
<1> SUFFICES ASSUME ControlInv, [Next]_vars PROVE ControlInv'
  OBVIOUS
<1>1. /\ TypeOK /\ RunInv /\ BatchInv
      /\ TranscriptType /\ QueueType /\ ToolType /\ FlagType /\ HistoryType
  BY DEF ControlInv, TypeOK
<1>2. TranscriptType' /\ QueueType' /\ ToolType' /\ FlagType' /\ HistoryType'
  BY <1>1, TranscriptTypeStep, QueueTypeStep, ToolTypeStep, FlagTypeStep,
     HistoryTypeStep
<1>3. RunInv' /\ BatchInv'
  BY <1>1, RunInvStep, BatchInvStep
<1> QED
  BY <1>2, <1>3 DEF ControlInv, TypeOK

THEOREM ControlInvariant == Spec => []ControlInv
  BY InitControl, ControlStep, PTL DEF Spec

(* Every variable of the agent keeps its type, for every bound.            *)
THEOREM TypeCorrect == Spec => []TypeOK
<1>1. ControlInv => TypeOK
  BY DEF ControlInv
<1> QED
  BY <1>1, ControlInvariant, PTL

-----------------------------------------------------------------------------
(* Tool results answer the calls of the assistant message before them.     *)

ResultsInv == ResultsFollowCalls /\ BatchEndsTranscript

(* The message at j answers the right call of the assistant message at i.  *)
Answers(transcript, i, j) ==
  /\ transcript[i].role = "assistant"
  /\ transcript[i].stop \in {"stop", "length"}
  /\ j - i \in DOMAIN transcript[i].calls
  /\ transcript[i].calls[j - i] = transcript[j].id

(* Appending anything but a tool result keeps ResultsFollowCalls.          *)
LEMMA AppendKeepsResults ==
  ASSUME NEW m, TypeOK, ResultsFollowCalls, m.role # "toolResult",
         messages' = Append(messages, m)
  PROVE  ResultsFollowCalls'
<1>1. /\ DOMAIN messages' = 1..(Len(messages) + 1) /\ Len(messages) \in Nat
      /\ \A j \in 1..Len(messages) : messages'[j] = messages[j]
      /\ messages'[Len(messages) + 1] = m
      /\ DOMAIN messages = 1..Len(messages)
  BY DEF TypeOK, TranscriptType
<1>2. SUFFICES ASSUME NEW j \in DOMAIN messages', messages'[j].role = "toolResult"
               PROVE  \E i \in 1..(j - 1) : Answers(messages', i, j)
  BY DEF ResultsFollowCalls, Answers
<1>3. j \in 1..Len(messages) /\ messages[j].role = "toolResult"
  BY <1>1, <1>2
<1>4. PICK i \in 1..(j - 1) : Answers(messages, i, j)
  BY <1>1, <1>3 DEF ResultsFollowCalls, Answers
<1>5. messages'[i] = messages[i] /\ messages'[j] = messages[j]
  BY <1>1, <1>3
<1> QED
  BY <1>4, <1>5 DEF Answers

LEMMA SameTranscript ==
  ASSUME ResultsFollowCalls, messages' = messages
  PROVE  ResultsFollowCalls'
  BY DEF ResultsFollowCalls

(* Appending the next result of the batch keeps both parts.                *)
LEMMA ReportKeepsResults ==
  ASSUME ControlInv, ResultsInv, pc = "report",
         messages' = Append(messages, ToolResult(batch.calls[batch.reported + 1])),
         batch' = [batch EXCEPT !.reported = @ + 1]
  PROVE  ResultsInv'
<1> DEFINE i == Len(messages) - batch.reported
           k == batch.reported + 1
<1>1. /\ messages \in Seq(Message) /\ batch.calls \in Seq(Calls)
      /\ batch.reported \in Nat /\ batch.next \in 1..Len(batch.calls)
      /\ batch.reported < batch.next
  BY DEF ControlInv, TypeOK, TranscriptType, ToolType, BatchInv, InBatch, BatchModes
<1>2. /\ i \in 1..Len(messages)
      /\ messages[i].role = "assistant"
      /\ messages[i].stop \in {"stop", "length"}
      /\ messages[i].calls = batch.calls
  BY <1>1 DEF ResultsInv, BatchEndsTranscript, InBatch
<1>3. /\ Len(messages') = Len(messages) + 1 /\ Len(messages) \in Nat
      /\ DOMAIN messages = 1..Len(messages)
      /\ DOMAIN messages' = 1..(Len(messages) + 1)
      /\ \A j \in 1..Len(messages) : messages'[j] = messages[j]
      /\ messages'[Len(messages) + 1] = ToolResult(batch.calls[k])
  BY <1>1
<1>4. /\ messages'[Len(messages) + 1].id = batch.calls[k]
      /\ Len(messages) + 1 - i = k
      /\ k \in DOMAIN batch.calls
  BY <1>1, <1>3 DEF ToolResult
<1>5. ResultsFollowCalls'
  <2>1. SUFFICES ASSUME NEW j \in 1..(Len(messages) + 1),
                        messages'[j].role = "toolResult"
                 PROVE  \E h \in 1..(j - 1) : Answers(messages', h, j)
    BY <1>3 DEF ResultsFollowCalls, Answers
  <2>2. CASE j = Len(messages) + 1
    <3>1. i \in 1..(j - 1) /\ messages'[i] = messages[i]
      BY <1>1, <1>2, <1>3, <2>2
    <3>2. Answers(messages', i, j)
      BY <1>2, <1>4, <2>2, <3>1 DEF Answers
    <3> QED
      BY <3>1, <3>2
  <2>3. CASE j \in 1..Len(messages)
    <3>1. PICK h \in 1..(j - 1) : Answers(messages, h, j)
      BY <1>1, <1>3, <2>1, <2>3 DEF ResultsInv, ResultsFollowCalls, Answers
    <3>2. messages'[h] = messages[h] /\ messages'[j] = messages[j]
      BY <1>1, <1>3, <2>3
    <3> QED
      BY <3>1, <3>2 DEF Answers
  <2> QED
    BY <1>1, <2>2, <2>3
<1>6. batch'.calls = batch.calls /\ batch'.reported = batch.reported + 1
  BY <1>1 DEF ControlInv, TypeOK, ToolType
<1>7. BatchEndsTranscript'
  <2>1. Len(messages') - batch'.reported = i
    <3>1. (Len(messages) + 1) - (batch.reported + 1) = i
      <4>1. Len(messages) \in Nat /\ batch.reported \in Nat
        BY <1>1, <1>3
      <4>2. \A a, b \in Nat : (a + 1) - (b + 1) = a - b
        OBVIOUS
      <4> QED
        BY <4>1, <4>2
    <3> QED
      BY <1>3, <1>6, <3>1
  <2> QED
    BY <1>2, <1>3, <1>6, <2>1 DEF BatchEndsTranscript
<1> QED
  BY <1>5, <1>7 DEF ResultsInv

LEMMA ResultsInvStep == ControlInv /\ ResultsInv /\ [Next]_vars => ResultsInv'
<1> SUFFICES ASSUME ControlInv /\ ResultsInv, [Next]_vars PROVE ResultsInv'
  OBVIOUS
<1> USE DEF ControlInv, ResultsInv, BatchEndsTranscript, TypeOK, TranscriptType, InBatch, InCall, agentState, queues, modes, loopState, tools, supply, history, runUnchanged
<1>1. CASE Steer
  BY <1>1, SameTranscript DEF Steer
<1>2. CASE FollowUp
  BY <1>2, SameTranscript DEF FollowUp
<1>3. CASE ClearSteeringQueue
  BY <1>3, SameTranscript DEF ClearSteeringQueue
<1>4. CASE ClearFollowUpQueue
  BY <1>4, SameTranscript DEF ClearFollowUpQueue
<1>5. CASE \E s, f \in Modes : SetMode(s, f)
  BY <1>5, SameTranscript DEF SetMode
<1>6. CASE Abort
  BY <1>6, SameTranscript DEF Abort
<1>7. CASE Reset
  BY <1>7 DEF Reset, ResultsFollowCalls, RunInv
<1>8. CASE Prompt
  BY <1>8, SameTranscript DEF Prompt, StartRun, Submit
<1>9. CASE ContinueFromSteering
  BY <1>9, SameTranscript DEF ContinueFromSteering, StartRun, Submit
<1>10. CASE ContinueFromFollowUp
  BY <1>10, SameTranscript DEF ContinueFromFollowUp, StartRun, Submit
<1>11. CASE ContinueFromTranscript
  BY <1>11, SameTranscript DEF ContinueFromTranscript, StartRun, Submit
<1>12. CASE EmitPrompt
  BY <1>12, AppendKeepsResults, SameTranscript DEF EmitPrompt, Emit, Throw, ThrowTo, User
<1>13. CASE EnterLoop
  BY <1>13, SameTranscript DEF EnterLoop, Emit, Throw, ThrowTo
<1>14. CASE PollSteering
  BY <1>14, SameTranscript DEF PollSteering
<1>15. CASE InjectPending
  BY <1>15, AppendKeepsResults, SameTranscript DEF InjectPending, Emit, Throw, ThrowTo, User
<1>16. CASE TurnReady
  BY <1>16, SameTranscript DEF TurnReady, Emit, Throw, ThrowTo
<1>17. CASE StreamAssistantResponse
  <2>1. ASSUME NEW stop \in StopReasons \ {"none"}, NEW n \in 0..MaxBatch,
               NEW mode \in {"sequential", "parallel"}, Respond(stop, n, mode)
        PROVE  ResultsInv'
    <3>1. messages' = Append(messages, Assistant(stop, IssuedCalls(n)))
      BY <2>1 DEF Respond
    <3>2. ResultsFollowCalls'
      BY <3>1, AppendKeepsResults DEF Assistant
    <3>3. batch'.calls = IssuedCalls(n) /\ batch'.reported = 0
      BY <2>1 DEF Respond, Batch
    <3>4. pc' \in InBatch => stop \in {"stop", "length"}
      BY <2>1 DEF Respond, Emit, Throw, ThrowTo, StopReasons
    <3>5. messages'[Len(messages')] = Assistant(stop, IssuedCalls(n))
      BY <3>1 DEF TranscriptType
    <3>6. Len(messages') >= 1 /\ Len(messages') - 0 = Len(messages')
      BY <3>1 DEF TranscriptType
    <3>7. BatchEndsTranscript'
      BY <3>3, <3>4, <3>5, <3>6 DEF Assistant
    <3> QED
      BY <3>2, <3>7
  <2> QED
    BY <1>17, <2>1, SameTranscript DEF StreamAssistantResponse, Throw, ThrowTo
<1>18. CASE StartCall
  BY <1>18, SameTranscript DEF StartCall, Emit, Throw, ThrowTo
<1>19. CASE FinishImmediately
  BY <1>19, SameTranscript DEF FinishImmediately, Emit, Throw, ThrowTo
<1>20. CASE PrepareCall
  BY <1>20, SameTranscript DEF PrepareCall
<1>21. CASE NextCall
  <2>1. /\ messages' = messages /\ pc = "nextCall"
        /\ batch'.calls = batch.calls /\ batch'.reported = batch.reported
    BY <1>21 DEF NextCall, ToolType
  <2> QED
    BY <2>1, SameTranscript
<1>22. CASE ReportResult
  <2>1. CASE messages' = messages
    BY <1>22, <2>1, SameTranscript DEF ReportResult, Throw, ThrowTo, TranscriptType
  <2>2. CASE messages' # messages
    BY <1>22, <2>2, ReportKeepsResults DEF ReportResult
  <2> QED
    BY <2>1, <2>2
<1>23. CASE TurnEnd
  BY <1>23, SameTranscript DEF TurnEnd, Emit, Throw, ThrowTo
<1>24. CASE ErrorTurnEnd
  BY <1>24, SameTranscript DEF ErrorTurnEnd, Emit, Throw, ThrowTo
<1>25. CASE PollFollowUp
  BY <1>25, SameTranscript DEF PollFollowUp
<1>26. CASE AgentEnd
  BY <1>26, SameTranscript DEF AgentEnd, Emit, Throw, ThrowTo
<1>27. CASE FailMessage
  BY <1>27, AppendKeepsResults, SameTranscript DEF FailMessage, Emit, Throw, ThrowTo, Assistant
<1>28. CASE FailTurnEnd
  BY <1>28, SameTranscript DEF FailTurnEnd, Emit, Throw, ThrowTo
<1>29. CASE FailAgentEnd
  BY <1>29, SameTranscript DEF FailAgentEnd
<1>30. CASE FinishRun
  BY <1>30, SameTranscript DEF FinishRun
<1>31. CASE \E c \in Calls : FinishCall(c)
  BY <1>31, SameTranscript DEF FinishCall, Emit, Throw, ThrowTo, Awaited
<1>32. CASE \E c \in Calls : FailCall(c)
  BY <1>32, SameTranscript DEF FailCall, Emit, Throw, ThrowTo, Awaited
<1>33. CASE \E c \in Calls : FinishOrphan(c)
  BY <1>33, SameTranscript DEF FinishOrphan, Emit, Throw, ThrowTo
<1>34. CASE UNCHANGED vars
  BY <1>34, SameTranscript DEF vars
<1> QED
  BY <1>1, <1>2, <1>3, <1>4, <1>5, <1>6, <1>7, <1>8, <1>9, <1>10, <1>11,
     <1>12, <1>13, <1>14, <1>15, <1>16, <1>17, <1>18, <1>19, <1>20, <1>21,
     <1>22, <1>23, <1>24, <1>25, <1>26, <1>27, <1>28, <1>29, <1>30, <1>31,
     <1>32, <1>33, <1>34
     DEF Next, Embedder, Loop, Tool

(* Results are in source order behind the message that issued the calls.   *)
THEOREM ResultsFollowCallsAlways == Spec => []ResultsFollowCalls
<1>1. Init => ResultsInv
  BY DEF Init, ResultsInv, ResultsFollowCalls, BatchEndsTranscript, InBatch, InCall
<1>2. ResultsInv => ResultsFollowCalls
  BY DEF ResultsInv
<1> QED
  BY <1>1, <1>2, ResultsInvStep, ControlInvariant, PTL DEF Spec

-----------------------------------------------------------------------------
(* Every submitted message is accounted for, once.                         *)

AccountInv == MessagesAtMostOnce /\ NoMessageLost /\ SupplyInv

LEMMA EmptySequence == Elements(<<>>) = {} /\ Distinct(<<>>)
  BY DEF Elements, Distinct

LEMMA SingletonSequence ==
  ASSUME NEW x
  PROVE  Elements(<<x>>) = {x} /\ Distinct(<<x>>)
  BY DEF Elements, Distinct

LEMMA AppendElements ==
  ASSUME NEW S, NEW s \in Seq(S), NEW x \in S, x \notin Elements(s), Distinct(s)
  PROVE  Elements(Append(s, x)) = Elements(s) \cup {x} /\ Distinct(Append(s, x))
  BY SMTT(30) DEF Elements, Distinct

LEMMA TailElements ==
  ASSUME NEW S, NEW s \in Seq(S), s # <<>>, Distinct(s)
  PROVE  /\ Elements(s) = Elements(Tail(s)) \cup {Head(s)}
         /\ Head(s) \notin Elements(Tail(s))
         /\ Distinct(Tail(s))
<1>1. /\ Len(s) \in Nat \ {0} /\ DOMAIN s = 1..Len(s)
      /\ DOMAIN Tail(s) = 1..(Len(s) - 1)
      /\ \A i \in 1..(Len(s) - 1) : Tail(s)[i] = s[i + 1]
      /\ Head(s) = s[1]
  OBVIOUS
<1>2. \A i \in DOMAIN s : i = 1 \/ (i - 1 \in DOMAIN Tail(s) /\ s[i] = Tail(s)[i - 1])
  BY <1>1
<1>3. Elements(s) = Elements(Tail(s)) \cup {Head(s)}
  BY <1>1, <1>2 DEF Elements
<1>4. Head(s) \notin Elements(Tail(s))
  BY <1>1 DEF Elements, Distinct
<1>5. Distinct(Tail(s))
  BY <1>1 DEF Distinct
<1> QED
  BY <1>3, <1>4, <1>5

(* drain() splits the queue: every message is handed over or kept.         *)
LEMMA DrainElements ==
  ASSUME NEW queue \in Seq(Ids), NEW mode, Distinct(queue)
  PROVE  /\ Elements(queue) = Elements(Drained(queue, mode))
                                \cup Elements(Remaining(queue, mode))
         /\ Elements(Drained(queue, mode)) \cap Elements(Remaining(queue, mode)) = {}
         /\ Distinct(Drained(queue, mode)) /\ Distinct(Remaining(queue, mode))
<1>1. CASE queue = <<>> \/ mode = "all"
  BY <1>1, EmptySequence DEF Drained, Remaining
<1>2. CASE queue # <<>> /\ mode # "all"
  BY <1>2, TailElements, SingletonSequence DEF Drained, Remaining
<1> QED
  BY <1>1, <1>2

LEMMA AppendUser ==
  ASSUME TranscriptType, UsersDistinct, NEW m \in Ids, m \notin Delivered,
         messages' = Append(messages, User(m))
  PROVE  UsersDistinct' /\ Delivered' = Delivered \cup {m}
<1>1. /\ DOMAIN messages' = 1..(Len(messages) + 1) /\ Len(messages) \in Nat
      /\ DOMAIN messages = 1..Len(messages)
      /\ \A j \in 1..Len(messages) : messages'[j] = messages[j]
      /\ messages'[Len(messages) + 1] = User(m)
  BY DEF TranscriptType
<1>2. User(m).role = "user" /\ User(m).id = m
  BY DEF User
<1>3. \A j \in 1..Len(messages) : messages[j].role = "user" => messages[j].id # m
  BY <1>1 DEF Delivered
<1>4. UsersDistinct'
  BY <1>1, <1>2, <1>3 DEF UsersDistinct
<1>5. Delivered' = Delivered \cup {m}
  BY <1>1, <1>2 DEF Delivered
<1> QED
  BY <1>4, <1>5

LEMMA AppendOther ==
  ASSUME TranscriptType, UsersDistinct, NEW x, x.role # "user",
         messages' = Append(messages, x)
  PROVE  UsersDistinct' /\ Delivered' = Delivered
<1>1. /\ DOMAIN messages' = 1..(Len(messages) + 1) /\ Len(messages) \in Nat
      /\ DOMAIN messages = 1..Len(messages)
      /\ \A j \in 1..Len(messages) : messages'[j] = messages[j]
      /\ messages'[Len(messages) + 1] = x
  BY DEF TranscriptType
<1>2. UsersDistinct'
  BY <1>1 DEF UsersDistinct
<1>3. Delivered' = Delivered
  BY <1>1 DEF Delivered
<1> QED
  BY <1>2, <1>3

LEMMA SameUsers ==
  ASSUME messages' = messages
  PROVE  UsersDistinct' = UsersDistinct /\ Delivered' = Delivered
  BY DEF UsersDistinct, Delivered

(* A step that moves no message, or only appends a message of the model or *)
(* of a tool to the transcript, keeps the account.                         *)
LEMMA AccountFrame ==
  ASSUME TypeOK, AccountInv,
         UNCHANGED <<steeringQueue, followUpQueue, pending, nextMessage, cleared,
                     dropped>>,
         \/ messages' = messages
         \/ \E x : x.role # "user" /\ messages' = Append(messages, x),
         faults' \in {faults, faults + 1}
  PROVE  AccountInv'
<1>1. UsersDistinct' /\ Delivered' = Delivered
  BY SameUsers, AppendOther DEF TypeOK, AccountInv, MessagesAtMostOnce
<1>2. faults \in Nat /\ (faults > 0 => faults' > 0)
  BY DEF TypeOK, HistoryType
<1> QED
  BY <1>1, <1>2 DEF AccountInv, MessagesAtMostOnce, NoMessageLost, SupplyInv

(* Injecting the head of pending moves it into the transcript.             *)
LEMMA AccountInject ==
  ASSUME TypeOK, AccountInv, pending # <<>>,
         UNCHANGED <<steeringQueue, followUpQueue, nextMessage, cleared, dropped>>,
         messages' = Append(messages, User(Head(pending))),
         pending' = Tail(pending),
         faults' \in {faults, faults + 1}
  PROVE  AccountInv'
<1>1. pending \in Seq(Ids) /\ Head(pending) \in Ids
  BY HeadTailType DEF TypeOK, QueueType
<1>2. /\ Elements(pending) = Elements(pending') \cup {Head(pending)}
      /\ Head(pending) \notin Elements(pending')
      /\ Distinct(pending')
  BY <1>1, TailElements DEF AccountInv, MessagesAtMostOnce
<1>3. Head(pending) \notin Delivered
  BY <1>2 DEF AccountInv, MessagesAtMostOnce
<1>4. UsersDistinct' /\ Delivered' = Delivered \cup {Head(pending)}
  BY <1>1, <1>3, AppendUser DEF TypeOK, AccountInv, MessagesAtMostOnce
<1>5. faults \in Nat /\ (faults > 0 => faults' > 0)
  BY DEF TypeOK, HistoryType
<1>6. MessagesAtMostOnce'
  BY <1>2, <1>4 DEF AccountInv, MessagesAtMostOnce
<1>7. NoMessageLost' /\ SupplyInv'
  BY <1>2, <1>4, <1>5 DEF AccountInv, NoMessageLost, SupplyInv
<1> QED
  BY <1>6, <1>7 DEF AccountInv

(* Draining the steering queue into an empty pending list.                 *)
LEMMA AccountDrainSteering ==
  ASSUME TypeOK, AccountInv, pending = <<>>,
         UNCHANGED <<messages, followUpQueue, nextMessage, cleared, dropped, faults>>,
         pending' = Drained(steeringQueue, steeringMode),
         steeringQueue' = Remaining(steeringQueue, steeringMode)
  PROVE  AccountInv'
<1>1. /\ Elements(steeringQueue) = Elements(pending') \cup Elements(steeringQueue')
      /\ Elements(pending') \cap Elements(steeringQueue') = {}
      /\ Distinct(pending') /\ Distinct(steeringQueue')
  BY DrainElements DEF TypeOK, QueueType, AccountInv, MessagesAtMostOnce
<1>2. UsersDistinct' = UsersDistinct /\ Delivered' = Delivered
  BY SameUsers
<1>3. Elements(pending) = {}
  BY EmptySequence
<1>4. MessagesAtMostOnce'
  BY <1>1, <1>2, <1>3 DEF AccountInv, MessagesAtMostOnce
<1>5. NoMessageLost' /\ SupplyInv'
  BY <1>1, <1>2, <1>3 DEF AccountInv, NoMessageLost, SupplyInv
<1> QED
  BY <1>4, <1>5 DEF AccountInv

LEMMA AccountDrainFollowUp ==
  ASSUME TypeOK, AccountInv, pending = <<>>,
         UNCHANGED <<messages, steeringQueue, nextMessage, cleared, dropped, faults>>,
         pending' = Drained(followUpQueue, followUpMode),
         followUpQueue' = Remaining(followUpQueue, followUpMode)
  PROVE  AccountInv'
<1>1. /\ Elements(followUpQueue) = Elements(pending') \cup Elements(followUpQueue')
      /\ Elements(pending') \cap Elements(followUpQueue') = {}
      /\ Distinct(pending') /\ Distinct(followUpQueue')
  BY DrainElements DEF TypeOK, QueueType, AccountInv, MessagesAtMostOnce
<1>2. UsersDistinct' = UsersDistinct /\ Delivered' = Delivered
  BY SameUsers
<1>3. Elements(pending) = {}
  BY EmptySequence
<1>4. MessagesAtMostOnce'
  BY <1>1, <1>2, <1>3 DEF AccountInv, MessagesAtMostOnce
<1>5. NoMessageLost' /\ SupplyInv'
  BY <1>1, <1>2, <1>3 DEF AccountInv, NoMessageLost, SupplyInv
<1> QED
  BY <1>4, <1>5 DEF AccountInv

(* The messages the account ranges over are numbers.                       *)
LEMMA AccountTypes ==
  ASSUME TypeOK
  PROVE  Elements(steeringQueue) \cup Elements(followUpQueue)
           \cup Elements(pending) \cup Delivered \subseteq Nat
<1>1. steeringQueue \in Seq(Nat) /\ followUpQueue \in Seq(Nat) /\ pending \in Seq(Nat)
  BY DEF TypeOK, QueueType, Ids
<1>2. Elements(steeringQueue) \subseteq Nat /\ Elements(followUpQueue) \subseteq Nat
      /\ Elements(pending) \subseteq Nat
  BY <1>1 DEF Elements
<1>3. Delivered \subseteq Nat
  BY DeliveredType DEF TypeOK
<1> QED
  BY <1>2, <1>3

LEMMA AccountStep == ControlInv /\ AccountInv /\ [Next]_vars => AccountInv'
<1> SUFFICES ASSUME ControlInv /\ AccountInv, [Next]_vars PROVE AccountInv'
  OBVIOUS
<1> USE DEF ControlInv, TypeOK, HistoryType, agentState, queues, modes, loopState, tools, supply, history, runUnchanged
<1>1. CASE Steer
  <2>1. /\ nextMessage \in Ids /\ nextMessage' = nextMessage + 1
        /\ nextMessage \notin Elements(steeringQueue)
    BY <1>1, SubmitType DEF Steer, Submit, Sources, AccountInv, SupplyInv
  <2>2. Elements(steeringQueue') = Elements(steeringQueue) \cup {nextMessage} /\ Distinct(steeringQueue')
    BY <1>1, <2>1, AppendElements DEF Steer, QueueType, AccountInv, MessagesAtMostOnce
  <2>3. UsersDistinct' = UsersDistinct /\ Delivered' = Delivered
    BY <1>1, SameUsers DEF Steer
  <2>4. UNCHANGED <<followUpQueue, pending, cleared, dropped, faults>>
    BY <1>1 DEF Steer
  <2>5. MessagesAtMostOnce'
    BY <2>1, <2>2, <2>3, <2>4 DEF AccountInv, MessagesAtMostOnce, SupplyInv
  <2>6. 1..(nextMessage' - 1) = 1..(nextMessage - 1) \cup {nextMessage} /\ nextMessage \in Nat
    BY <2>1 DEF Ids
  <2>7. NoMessageLost'
    BY <2>2, <2>3, <2>4, <2>6 DEF AccountInv, NoMessageLost
  <2>8. Elements(steeringQueue) \cup Elements(followUpQueue)
          \cup Elements(pending) \cup Delivered \subseteq Nat
    BY AccountTypes
  <2>9. SupplyInv'
    BY <2>1, <2>2, <2>3, <2>4, <2>6, <2>8 DEF AccountInv, SupplyInv
  <2> QED
    BY <2>5, <2>7, <2>9 DEF AccountInv
<1>2. CASE FollowUp
  <2>1. /\ nextMessage \in Ids /\ nextMessage' = nextMessage + 1
        /\ nextMessage \notin Elements(followUpQueue)
    BY <1>2, SubmitType DEF FollowUp, Submit, Sources, AccountInv, SupplyInv
  <2>2. Elements(followUpQueue') = Elements(followUpQueue) \cup {nextMessage} /\ Distinct(followUpQueue')
    BY <1>2, <2>1, AppendElements DEF FollowUp, QueueType, AccountInv, MessagesAtMostOnce
  <2>3. UsersDistinct' = UsersDistinct /\ Delivered' = Delivered
    BY <1>2, SameUsers DEF FollowUp
  <2>4. UNCHANGED <<steeringQueue, pending, cleared, dropped, faults>>
    BY <1>2 DEF FollowUp
  <2>5. MessagesAtMostOnce'
    BY <2>1, <2>2, <2>3, <2>4 DEF AccountInv, MessagesAtMostOnce, SupplyInv
  <2>6. 1..(nextMessage' - 1) = 1..(nextMessage - 1) \cup {nextMessage} /\ nextMessage \in Nat
    BY <2>1 DEF Ids
  <2>7. NoMessageLost'
    BY <2>2, <2>3, <2>4, <2>6 DEF AccountInv, NoMessageLost
  <2>8. Elements(steeringQueue) \cup Elements(followUpQueue)
          \cup Elements(pending) \cup Delivered \subseteq Nat
    BY AccountTypes
  <2>9. SupplyInv'
    BY <2>1, <2>2, <2>3, <2>4, <2>6, <2>8 DEF AccountInv, SupplyInv
  <2> QED
    BY <2>5, <2>7, <2>9 DEF AccountInv
<1>3. CASE ClearSteeringQueue
  <2>1. Elements(steeringQueue') = {} /\ Distinct(steeringQueue')
    BY <1>3, EmptySequence DEF ClearSteeringQueue
  <2>2. UsersDistinct' = UsersDistinct /\ Delivered' = Delivered
    BY <1>3, SameUsers DEF ClearSteeringQueue
  <2> QED
    BY <1>3, <2>1, <2>2 DEF ClearSteeringQueue, AccountInv, MessagesAtMostOnce, NoMessageLost, SupplyInv
<1>4. CASE ClearFollowUpQueue
  <2>1. Elements(followUpQueue') = {} /\ Distinct(followUpQueue')
    BY <1>4, EmptySequence DEF ClearFollowUpQueue
  <2>2. UsersDistinct' = UsersDistinct /\ Delivered' = Delivered
    BY <1>4, SameUsers DEF ClearFollowUpQueue
  <2> QED
    BY <1>4, <2>1, <2>2 DEF ClearFollowUpQueue, AccountInv, MessagesAtMostOnce, NoMessageLost, SupplyInv
<1>5. CASE \E s, f \in Modes : SetMode(s, f)
  <2>1. UNCHANGED <<steeringQueue, followUpQueue, pending, messages, nextMessage,
                    cleared, dropped>>
    BY <1>5 DEF SetMode
  <2>2. faults' \in {faults, faults + 1}
    BY <1>5 DEF SetMode
  <2> QED
    BY <2>1, <2>2, AccountFrame
<1>6. CASE Abort
  <2>1. UNCHANGED <<steeringQueue, followUpQueue, pending, messages, nextMessage,
                    cleared, dropped>>
    BY <1>6 DEF Abort
  <2>2. faults' \in {faults, faults + 1}
    BY <1>6 DEF Abort
  <2> QED
    BY <2>1, <2>2, AccountFrame
<1>7. CASE Reset
  <2>1. /\ Elements(steeringQueue') = {} /\ Distinct(steeringQueue')
        /\ Elements(followUpQueue') = {} /\ Distinct(followUpQueue')
    BY <1>7, EmptySequence DEF Reset
  <2>2. UsersDistinct' /\ Delivered' = {}
    BY <1>7 DEF Reset, UsersDistinct, Delivered
  <2> QED
    BY <1>7, <2>1, <2>2 DEF Reset, AccountInv, MessagesAtMostOnce, NoMessageLost, SupplyInv
<1>8. CASE Prompt
  <2>1. /\ nextMessage \in Ids /\ nextMessage' = nextMessage + 1
        /\ pending = <<>>
    BY <1>8, SubmitType DEF Prompt, StartRun, Submit, Sources, RunInv, Injecting, Failing
  <2>2. Elements(pending) = {} /\ Elements(pending') = {nextMessage} /\ Distinct(pending')
    BY <1>8, <2>1, EmptySequence, SingletonSequence DEF Prompt, StartRun
  <2>3. UsersDistinct' = UsersDistinct /\ Delivered' = Delivered
    BY <1>8, SameUsers DEF Prompt, StartRun
  <2>4. UNCHANGED <<steeringQueue, followUpQueue, cleared, dropped, faults>>
    BY <1>8 DEF Prompt, StartRun
  <2>5. MessagesAtMostOnce'
    BY <2>1, <2>2, <2>3, <2>4 DEF AccountInv, MessagesAtMostOnce, SupplyInv
  <2>6. 1..(nextMessage' - 1) = 1..(nextMessage - 1) \cup {nextMessage} /\ nextMessage \in Nat
    BY <2>1 DEF Ids
  <2>7. NoMessageLost'
    BY <2>2, <2>3, <2>4, <2>6 DEF AccountInv, NoMessageLost
  <2>8. Elements(steeringQueue) \cup Elements(followUpQueue)
          \cup Elements(pending) \cup Delivered \subseteq Nat
    BY AccountTypes
  <2>9. SupplyInv'
    BY <2>1, <2>2, <2>3, <2>4, <2>6, <2>8 DEF AccountInv, SupplyInv
  <2> QED
    BY <2>5, <2>7, <2>9 DEF AccountInv
<1>9. CASE ContinueFromSteering
  <2>1. pending = <<>>
    BY <1>9 DEF ContinueFromSteering, StartRun, RunInv, Injecting, Failing
  <2> QED
    BY <1>9, <2>1, AccountDrainSteering DEF ContinueFromSteering, StartRun
<1>10. CASE ContinueFromFollowUp
  <2>1. pending = <<>>
    BY <1>10 DEF ContinueFromFollowUp, StartRun, RunInv, Injecting, Failing
  <2> QED
    BY <1>10, <2>1, AccountDrainFollowUp DEF ContinueFromFollowUp, StartRun
<1>11. CASE ContinueFromTranscript
  <2>1. pending = <<>>
    BY <1>11 DEF ContinueFromTranscript, StartRun, RunInv, Injecting, Failing
  <2> QED
    BY <1>11, <2>1, AccountFrame DEF ContinueFromTranscript, StartRun
<1>12. CASE EmitPrompt
  <2>1. UNCHANGED <<steeringQueue, followUpQueue, nextMessage, cleared, dropped>>
    BY <1>12 DEF EmitPrompt
  <2>2. faults' \in {faults, faults + 1}
    BY <1>12 DEF EmitPrompt, Emit, Throw, ThrowTo
  <2>3. CASE messages' = messages /\ pending' = pending
    BY <2>1, <2>2, <2>3, AccountFrame
  <2>4. CASE messages' = Append(messages, User(Head(pending))) /\ pending' = Tail(pending)
    BY <1>12, <2>1, <2>2, <2>4, AccountInject DEF EmitPrompt
  <2> QED
    BY <1>12, <2>3, <2>4 DEF EmitPrompt
<1>13. CASE EnterLoop
  <2>1. UNCHANGED <<steeringQueue, followUpQueue, pending, messages, nextMessage,
                    cleared, dropped>>
    BY <1>13 DEF EnterLoop
  <2>2. faults' \in {faults, faults + 1}
    BY <1>13 DEF EnterLoop, Emit, Throw, ThrowTo
  <2> QED
    BY <2>1, <2>2, AccountFrame
<1>14. CASE PollSteering
  <2>1. pending = <<>>
    BY <1>14 DEF PollSteering, RunInv, Injecting, Failing
  <2>2. CASE skipPoll
    BY <1>14, <2>1, <2>2, AccountFrame DEF PollSteering
  <2>3. CASE ~skipPoll
    BY <1>14, <2>1, <2>3, AccountDrainSteering DEF PollSteering
  <2> QED
    BY <2>2, <2>3
<1>15. CASE InjectPending
  <2>1. UNCHANGED <<steeringQueue, followUpQueue, nextMessage, cleared, dropped>>
    BY <1>15 DEF InjectPending
  <2>2. faults' \in {faults, faults + 1}
    BY <1>15 DEF InjectPending, Emit, Throw, ThrowTo
  <2>3. CASE messages' = messages /\ pending' = pending
    BY <2>1, <2>2, <2>3, AccountFrame
  <2>4. CASE messages' = Append(messages, User(Head(pending))) /\ pending' = Tail(pending)
    BY <1>15, <2>1, <2>2, <2>4, AccountInject DEF InjectPending
  <2> QED
    BY <1>15, <2>3, <2>4 DEF InjectPending
<1>16. CASE TurnReady
  <2>1. UNCHANGED <<steeringQueue, followUpQueue, pending, messages, nextMessage,
                    cleared, dropped>>
    BY <1>16 DEF TurnReady
  <2>2. faults' \in {faults, faults + 1}
    BY <1>16 DEF TurnReady, Emit, Throw, ThrowTo
  <2> QED
    BY <2>1, <2>2, AccountFrame
<1>17. CASE StreamAssistantResponse
  <2>1. UNCHANGED <<steeringQueue, followUpQueue, pending, nextMessage, cleared,
                    dropped>>
    BY <1>17 DEF StreamAssistantResponse
  <2>2. faults' \in {faults, faults + 1}
    BY <1>17 DEF StreamAssistantResponse, Respond, Emit, Throw, ThrowTo
  <2>3. \/ messages' = messages
        \/ \E x : x.role # "user" /\ messages' = Append(messages, x)
    BY <1>17 DEF StreamAssistantResponse, Respond, Assistant
  <2> QED
    BY <2>1, <2>2, <2>3, AccountFrame
<1>18. CASE StartCall
  <2>1. UNCHANGED <<steeringQueue, followUpQueue, pending, messages, nextMessage,
                    cleared, dropped>>
    BY <1>18 DEF StartCall
  <2>2. faults' \in {faults, faults + 1}
    BY <1>18 DEF StartCall, Emit, Throw, ThrowTo
  <2> QED
    BY <2>1, <2>2, AccountFrame
<1>19. CASE FinishImmediately
  <2>1. UNCHANGED <<steeringQueue, followUpQueue, pending, messages, nextMessage,
                    cleared, dropped>>
    BY <1>19 DEF FinishImmediately
  <2>2. faults' \in {faults, faults + 1}
    BY <1>19 DEF FinishImmediately, Emit, Throw, ThrowTo
  <2> QED
    BY <2>1, <2>2, AccountFrame
<1>20. CASE PrepareCall
  <2>1. UNCHANGED <<steeringQueue, followUpQueue, pending, messages, nextMessage,
                    cleared, dropped>>
    BY <1>20 DEF PrepareCall
  <2>2. faults' \in {faults, faults + 1}
    BY <1>20 DEF PrepareCall
  <2> QED
    BY <2>1, <2>2, AccountFrame
<1>21. CASE NextCall
  <2>1. UNCHANGED <<steeringQueue, followUpQueue, pending, messages, nextMessage,
                    cleared, dropped>>
    BY <1>21 DEF NextCall
  <2>2. faults' \in {faults, faults + 1}
    BY <1>21 DEF NextCall
  <2> QED
    BY <2>1, <2>2, AccountFrame
<1>22. CASE ReportResult
  <2>1. UNCHANGED <<steeringQueue, followUpQueue, pending, nextMessage, cleared,
                    dropped>>
    BY <1>22 DEF ReportResult
  <2>2. faults' \in {faults, faults + 1}
    BY <1>22 DEF ReportResult, Emit, Throw, ThrowTo
  <2>3. \/ messages' = messages
        \/ \E x : x.role # "user" /\ messages' = Append(messages, x)
    BY <1>22 DEF ReportResult, ToolResult
  <2> QED
    BY <2>1, <2>2, <2>3, AccountFrame
<1>23. CASE TurnEnd
  <2>1. UNCHANGED <<steeringQueue, followUpQueue, pending, messages, nextMessage,
                    cleared, dropped>>
    BY <1>23 DEF TurnEnd
  <2>2. faults' \in {faults, faults + 1}
    BY <1>23 DEF TurnEnd, Emit, Throw, ThrowTo
  <2> QED
    BY <2>1, <2>2, AccountFrame
<1>24. CASE ErrorTurnEnd
  <2>1. UNCHANGED <<steeringQueue, followUpQueue, pending, messages, nextMessage,
                    cleared, dropped>>
    BY <1>24 DEF ErrorTurnEnd
  <2>2. faults' \in {faults, faults + 1}
    BY <1>24 DEF ErrorTurnEnd, Emit, Throw, ThrowTo
  <2> QED
    BY <2>1, <2>2, AccountFrame
<1>25. CASE PollFollowUp
  <2>1. pending = <<>>
    BY <1>25 DEF PollFollowUp, RunInv, Injecting, Failing
  <2> QED
    BY <1>25, <2>1, AccountDrainFollowUp DEF PollFollowUp
<1>26. CASE AgentEnd
  <2>1. UNCHANGED <<steeringQueue, followUpQueue, pending, messages, nextMessage,
                    cleared, dropped>>
    BY <1>26 DEF AgentEnd
  <2>2. faults' \in {faults, faults + 1}
    BY <1>26 DEF AgentEnd, Emit, Throw, ThrowTo
  <2> QED
    BY <2>1, <2>2, AccountFrame
<1>27. CASE FailMessage
  <2>1. UNCHANGED <<steeringQueue, followUpQueue, pending, nextMessage, cleared,
                    dropped>>
    BY <1>27 DEF FailMessage
  <2>2. faults' \in {faults, faults + 1}
    BY <1>27 DEF FailMessage, Emit, Throw, ThrowTo
  <2>3. \/ messages' = messages
        \/ \E x : x.role # "user" /\ messages' = Append(messages, x)
    BY <1>27 DEF FailMessage, Assistant
  <2> QED
    BY <2>1, <2>2, <2>3, AccountFrame
<1>28. CASE FailTurnEnd
  <2>1. UNCHANGED <<steeringQueue, followUpQueue, pending, messages, nextMessage,
                    cleared, dropped>>
    BY <1>28 DEF FailTurnEnd
  <2>2. faults' \in {faults, faults + 1}
    BY <1>28 DEF FailTurnEnd, Emit, Throw, ThrowTo
  <2> QED
    BY <2>1, <2>2, AccountFrame
<1>29. CASE FailAgentEnd
  <2>1. UNCHANGED <<steeringQueue, followUpQueue, pending, messages, nextMessage,
                    cleared, dropped>>
    BY <1>29 DEF FailAgentEnd
  <2>2. faults' \in {faults, faults + 1}
    BY <1>29 DEF FailAgentEnd
  <2> QED
    BY <2>1, <2>2, AccountFrame
<1>30. CASE FinishRun
  <2>1. Elements(pending') = {} /\ Distinct(pending')
    BY <1>30, EmptySequence DEF FinishRun
  <2>2. UsersDistinct' = UsersDistinct /\ Delivered' = Delivered
    BY <1>30, SameUsers DEF FinishRun
  <2>3. Elements(pending) # {} => faults > 0
    BY <1>30, EmptySequence DEF FinishRun, RunInv, Injecting, Failing
  <2> QED
    BY <1>30, <2>1, <2>2, <2>3
       DEF FinishRun, AccountInv, MessagesAtMostOnce, NoMessageLost, SupplyInv
<1>31. CASE \E c \in Calls : FinishCall(c)
  <2>1. UNCHANGED <<steeringQueue, followUpQueue, pending, messages, nextMessage,
                    cleared, dropped>>
    BY <1>31 DEF FinishCall
  <2>2. faults' \in {faults, faults + 1}
    BY <1>31 DEF FinishCall, Emit, Throw, ThrowTo
  <2> QED
    BY <2>1, <2>2, AccountFrame
<1>32. CASE \E c \in Calls : FailCall(c)
  <2>1. UNCHANGED <<steeringQueue, followUpQueue, pending, messages, nextMessage,
                    cleared, dropped>>
    BY <1>32 DEF FailCall
  <2>2. faults' \in {faults, faults + 1}
    BY <1>32 DEF FailCall, Emit, Throw, ThrowTo
  <2> QED
    BY <2>1, <2>2, AccountFrame
<1>33. CASE \E c \in Calls : FinishOrphan(c)
  <2>1. UNCHANGED <<steeringQueue, followUpQueue, pending, messages, nextMessage,
                    cleared, dropped>>
    BY <1>33 DEF FinishOrphan
  <2>2. faults' \in {faults, faults + 1}
    BY <1>33 DEF FinishOrphan
  <2> QED
    BY <2>1, <2>2, AccountFrame
<1>34. CASE UNCHANGED vars
  BY <1>34, AccountFrame DEF vars
<1> QED
  BY <1>1, <1>2, <1>3, <1>4, <1>5, <1>6, <1>7, <1>8, <1>9, <1>10, <1>11,
     <1>12, <1>13, <1>14, <1>15, <1>16, <1>17, <1>18, <1>19, <1>20, <1>21,
     <1>22, <1>23, <1>24, <1>25, <1>26, <1>27, <1>28, <1>29, <1>30, <1>31,
     <1>32, <1>33, <1>34
     DEF Next, Embedder, Loop, Tool

LEMMA InitAccount == Init => AccountInv
<1> SUFFICES ASSUME Init PROVE AccountInv
  OBVIOUS
<1>1. Delivered = {} /\ UsersDistinct
  BY DEF Init, Delivered, UsersDistinct
<1> QED
  BY <1>1, EmptySequence
     DEF Init, AccountInv, MessagesAtMostOnce, NoMessageLost, SupplyInv

(* No message is delivered twice or held in two places, for every number   *)
(* of messages, calls and exceptions.                                      *)
THEOREM MessagesAtMostOnceAlways == Spec => []MessagesAtMostOnce
<1>1. AccountInv => MessagesAtMostOnce
  BY DEF AccountInv
<1> QED
  BY <1>1, InitAccount, AccountStep, ControlInvariant, PTL DEF Spec

(* No message disappears, except what a run that failed had drained.       *)
THEOREM NoMessageLostEver == Spec => []NoMessageLost
<1>1. AccountInv => NoMessageLost
  BY DEF AccountInv
<1> QED
  BY <1>1, InitAccount, AccountStep, ControlInvariant, PTL DEF Spec

(* Both together: what is submitted to the queues is delivered at most once *)
(* and is accounted for until then, whatever throws.                       *)
THEOREM MessagesKeptAlways == Spec => []MessagesKept
  BY MessagesAtMostOnceAlways, NoMessageLostEver, PTL DEF MessagesKept

-----------------------------------------------------------------------------
(* The tool calls.  CallsBase holds however a run ends; CallsStaged says    *)
(* what the place of control tells about the calls of the batch and, until *)
(* something has thrown, about all calls.                                  *)

InProgress == {c \in Calls : callState[c] \in {"preparing", "prepared", "running"}}

(* Between two responses, on the way to the next request.                  *)
Asking == {"pollSteering", "turn", "llm", "turnEnd", "pollFollowUp"}

FreshUnused == \A c \in Calls : c >= nextCall => callState[c] = "unused"

PendingLive ==
  \A c \in pendingToolCalls : callState[c] \in {"preparing", "prepared", "running", "failed"}

CallsBase == FreshUnused /\ Distinct(batch.calls) /\ PendingLive

(* The states of a call that is prepared or done, of the current call, and  *)
(* of the i-th call of the batch.                                          *)
Handled ==
  IF pc = "report" THEN {"finished"}
  ELSE IF pc = "await" THEN {"running", "finished"}
  ELSE {"prepared", "finished"}

Current ==
  IF pc = "startCall" THEN {"issued"}
  ELSE IF pc = "prepareCall" THEN {"preparing"}
  ELSE Handled

Stage(i) ==
  IF i <= batch.reported THEN {"reported"}
  ELSE IF i > batch.next THEN {"issued"}
  ELSE IF i = batch.next THEN Current
  ELSE Handled

Progress ==
  pc \in InBatch => \A i \in DOMAIN batch.calls : callState[batch.calls[i]] \in Stage(i)

(* A parallel batch that was not aborted has launched all its calls.       *)
Launched ==
  pc \in {"await", "report"} /\ batch.mode = "parallel" /\ ~aborted =>
    batch.next = Len(batch.calls)

AllReported == \A i \in DOMAIN batch.calls : callState[batch.calls[i]] = "reported"

Answered == pc \in Asking /\ ~aborted => AllReported

NoBatchYet == pc \in {"idle", "prompts"} => batch.calls = <<>>

Quiet ==
  faults = 0 =>
    /\ pendingToolCalls = InProgress
    /\ pc \in InBatch => InProgress \subseteq Elements(batch.calls)
    /\ pc \notin InBatch => InProgress = {}

EndedLast == ended => pc \in {"finish", "idle"} \/ faults > 0

IdleNone == pc = "idle" => pendingToolCalls = {}

CallsStaged ==
  Progress /\ Launched /\ Answered /\ NoBatchYet /\ Quiet /\ EndedLast /\ IdleNone

CallsInv == CallsBase /\ CallsStaged

(* A throw ends what can be said about the batch.                          *)
LEMMA ThrownStaged ==
  ASSUME pc' = "failMessage", faults' > 0
  PROVE  CallsStaged'
<1>1. faults' # 0
  BY DEF Throw
<1> QED
  BY <1>1 DEF CallsStaged, Progress, Launched, Answered, NoBatchYet, Quiet, EndedLast, IdleNone,
              InBatch, InCall, Asking

(* Steps that do not touch a call.                                         *)
LEMMA CallsFrame ==
  ASSUME ControlInv, CallsInv, UNCHANGED <<batch, callState, nextCall, pendingToolCalls>>,
         aborted /\ pc' # "prompts" => aborted',
         pc' \in InBatch => pc' = pc,
         pc \in InBatch => pc' = pc \/ faults' > 0,
         pc' \in Asking => pc \in Asking \cup {"prompts"},
         pc' \in {"idle", "prompts"} => pc \in {"idle", "prompts"},
         pc' = "idle" => pc = "idle",
         faults' = faults \/ faults' > 0,
         ended' => ended \/ pc' = "finish" \/ faults' > 0,
         ended' /\ pc \in {"finish", "idle"} => pc' \in {"finish", "idle"}
  PROVE  CallsInv'
<1>1. CallsBase'
  BY DEF CallsInv, CallsBase, FreshUnused, PendingLive, Distinct
<1>2. faults \in Nat /\ (faults' = 0 => faults = 0) /\ (faults > 0 => faults' > 0)
  BY DEF ControlInv, TypeOK, HistoryType
<1>3. Progress'
  BY DEF CallsInv, CallsStaged, Progress, Stage, Current, Handled
<1>4. Launched'
  <2>1. pc' \in {"await", "report"} => pc' = pc
    BY DEF InBatch, InCall
  <2> QED
    BY <2>1 DEF CallsInv, CallsStaged, Launched
<1>5. Answered'
  <2>1. AllReported => AllReported'
    BY DEF AllReported
  <2>2. pc = "prompts" => AllReported
    BY DEF CallsInv, CallsStaged, NoBatchYet, AllReported
  <2>3. pc' \in Asking => pc' # "prompts"
    BY DEF Asking
  <2> QED
    BY <2>1, <2>2, <2>3 DEF CallsInv, CallsStaged, Answered
<1>6. NoBatchYet' /\ IdleNone'
  BY DEF CallsInv, CallsStaged, NoBatchYet, IdleNone
<1>7. Quiet'
  <2>1. InProgress' = InProgress
    BY DEF InProgress
  <2> QED
    BY <1>2, <2>1 DEF CallsInv, CallsStaged, Quiet
<1>8. EndedLast'
  BY <1>2 DEF CallsInv, CallsStaged, EndedLast
<1> QED
  BY <1>1, <1>3, <1>4, <1>5, <1>6, <1>7, <1>8 DEF CallsInv, CallsStaged

(* One call moves on.                                                      *)
LEMMA OneCallBase ==
  ASSUME ToolType, CallsBase, NEW c \in Calls, callState[c] # "unused", NEW s \in CallStates,
         callState' = [callState EXCEPT ![c] = s],
         UNCHANGED <<batch, nextCall>>,
         \A d \in pendingToolCalls' :
            IF d = c THEN s \in {"preparing", "prepared", "running", "failed"}
            ELSE d \in pendingToolCalls
  PROVE  CallsBase'
<1>1. callState'[c] = s /\ \A d \in Calls \ {c} : callState'[d] = callState[d]
  BY DEF ToolType
<1>2. FreshUnused'
  BY <1>1 DEF CallsBase, FreshUnused
<1>3. PendingLive'
  <2> SUFFICES ASSUME NEW d \in pendingToolCalls'
               PROVE  callState'[d] \in {"preparing", "prepared", "running", "failed"}
    BY DEF PendingLive
  <2>1. CASE d = c
    BY <1>1, <2>1
  <2>2. CASE d # c
    <3>1. d \in pendingToolCalls /\ d \in Calls
      BY <2>2 DEF ToolType
    <3> QED
      BY <1>1, <2>2, <3>1 DEF CallsBase, PendingLive
  <2> QED
    BY <2>1, <2>2
<1> QED
  BY <1>2, <1>3 DEF CallsBase, Distinct

LEMMA CurrentFacts ==
  ASSUME ControlInv, CallsInv, pc \in InBatch
  PROVE  /\ batch.next \in DOMAIN batch.calls /\ CurrentCall = batch.calls[batch.next]
         /\ CurrentCall \in Calls /\ CurrentCall \in Elements(batch.calls)
         /\ batch.reported \in Nat
         /\ \A i \in DOMAIN batch.calls : i # batch.next => batch.calls[i] # CurrentCall
         /\ \A i \in DOMAIN batch.calls : batch.calls[i] \in Calls /\ i \in Nat
  BY CurrentCallType
     DEF ControlInv, TypeOK, ToolType, BatchInv, CurrentCall, CallsInv, CallsBase, Distinct, Elements

LEMMA StartCallCalls ==
  ASSUME ControlInv, CallsInv, StartCall
  PROVE  CallsInv'
<1> DEFINE c == CurrentCall
<1>1. pc = "startCall" /\ pc \in InBatch /\ ToolType /\ faults \in Nat
  BY DEF StartCall, InBatch, InCall, ControlInv, TypeOK, HistoryType
<1>2. /\ batch.next \in DOMAIN batch.calls /\ c = batch.calls[batch.next] /\ c \in Calls
      /\ c \in Elements(batch.calls) /\ batch.reported \in Nat
      /\ \A i \in DOMAIN batch.calls : i # batch.next => batch.calls[i] # c
      /\ \A i \in DOMAIN batch.calls : batch.calls[i] \in Calls /\ i \in Nat
  BY <1>1, CurrentFacts
<1>3. /\ pendingToolCalls' = pendingToolCalls \cup {c}
      /\ callState' = [callState EXCEPT ![c] = "preparing"]
      /\ UNCHANGED <<batch, nextCall, aborted, ended>>
      /\ \/ pc' = "prepareCall" /\ faults' = faults
         \/ pc' = "failMessage" /\ faults' = faults + 1
  BY DEF StartCall, runUnchanged, supply, Emit, Throw, ThrowTo
<1>4. batch.reported < batch.next
  BY <1>1 DEF ControlInv, BatchInv, ToolType
<1>5. callState[c] = "issued"
  BY <1>1, <1>2, <1>4 DEF CallsInv, CallsStaged, Progress, Stage, Current
<1> HIDE DEF c
<1>6. CallsBase'
  <2>1. /\ callState[c] # "unused" /\ "preparing" \in CallStates
        /\ \A d \in pendingToolCalls' :
             IF d = c THEN "preparing" \in {"preparing", "prepared", "running", "failed"}
             ELSE d \in pendingToolCalls
    BY <1>3, <1>5 DEF CallStates
  <2> QED
    BY <1>1, <1>2, <1>3, <2>1, OneCallBase DEF CallsInv
<1>7. CASE pc' = "failMessage" /\ faults' = faults + 1
  BY <1>1, <1>6, <1>7, ThrownStaged DEF CallsInv
<1>8. CASE pc' = "prepareCall" /\ faults' = faults
  <2>1. callState'[c] = "preparing" /\ \A d \in Calls \ {c} : callState'[d] = callState[d]
    BY <1>1, <1>2, <1>3 DEF ToolType
  <2>2. Progress'
    <3> SUFFICES ASSUME NEW i \in DOMAIN batch.calls
                 PROVE  callState'[batch.calls[i]] \in Stage(i)'
      BY <1>3 DEF Progress
    <3>1. CASE i = batch.next
      BY <1>2, <1>3, <1>4, <1>8, <2>1, <3>1 DEF Stage, Current
    <3>2. CASE i # batch.next
      <4>1. callState'[batch.calls[i]] = callState[batch.calls[i]]
        BY <1>2, <2>1, <3>2
      <4>2. Stage(i)' = Stage(i)
        BY <1>1, <1>3, <1>8, <3>2 DEF Stage, Handled
      <4> QED
        BY <1>1, <4>1, <4>2 DEF CallsInv, CallsStaged, Progress
    <3> QED
      BY <3>1, <3>2
  <2>3. Launched' /\ Answered' /\ NoBatchYet' /\ IdleNone'
    BY <1>8 DEF Launched, Answered, NoBatchYet, IdleNone, Asking
  <2>4. InProgress' = InProgress \cup {c}
    BY <1>2, <2>1 DEF InProgress
  <2>5. Quiet'
    BY <1>1, <1>2, <1>3, <1>8, <2>4 DEF CallsInv, CallsStaged, Quiet, InBatch, InCall
  <2>6. EndedLast'
    BY <1>1, <1>3, <1>8 DEF CallsInv, CallsStaged, EndedLast
  <2> QED
    BY <1>6, <2>2, <2>3, <2>5, <2>6 DEF CallsInv, CallsStaged
<1> QED
  BY <1>3, <1>7, <1>8

(* What the actions on the current call have in common.                    *)
LEMMA PrepareStateFacts ==
  ASSUME ControlInv, CallsInv, pc = "prepareCall"
  PROVE  callState[CurrentCall] = "preparing" /\ batch.reported < batch.next
<1>1. pc \in InBatch
  BY DEF InBatch, InCall
<1>2. batch.reported < batch.next
  BY <1>1 DEF ControlInv, BatchInv, TypeOK, ToolType
<1> QED
  BY <1>1, <1>2, CurrentFacts DEF CallsInv, CallsStaged, Progress, Stage, Current

LEMMA FinishImmediatelyCalls ==
  ASSUME ControlInv, CallsInv, FinishImmediately
  PROVE  CallsInv'
<1> DEFINE c == CurrentCall
           parallel == batch.mode = "parallel"
<1>1. pc = "prepareCall" /\ pc \in InBatch /\ ToolType /\ faults \in Nat
  BY DEF FinishImmediately, InBatch, InCall, ControlInv, TypeOK, HistoryType
<1>2. /\ batch.next \in DOMAIN batch.calls /\ c = batch.calls[batch.next] /\ c \in Calls
      /\ c \in Elements(batch.calls) /\ batch.reported \in Nat
      /\ \A i \in DOMAIN batch.calls : i # batch.next => batch.calls[i] # c
      /\ \A i \in DOMAIN batch.calls : batch.calls[i] \in Calls /\ i \in Nat
  BY <1>1, CurrentFacts
<1>3. /\ pendingToolCalls' = pendingToolCalls \ {c}
      /\ callState' = [callState EXCEPT ![c] = "finished"]
      /\ UNCHANGED <<batch, nextCall, aborted, ended>>
      /\ \/ pc' = (IF parallel THEN "nextCall" ELSE "report") /\ faults' = faults
         \/ pc' = "failMessage" /\ faults' = faults + 1
  BY DEF FinishImmediately, runUnchanged, supply, Emit, Throw, ThrowTo
<1>4. callState[c] = "preparing" /\ batch.reported < batch.next
      /\ (~parallel => batch.reported = batch.next - 1)
  BY <1>1, PrepareStateFacts DEF ControlInv, BatchInv
<1> HIDE DEF c, parallel
<1>6. CallsBase'
  <2>1. /\ callState[c] # "unused" /\ "finished" \in CallStates
        /\ \A d \in pendingToolCalls' :
             IF d = c THEN "finished" \in {"preparing", "prepared", "running", "failed"}
             ELSE d \in pendingToolCalls
    BY <1>3, <1>4 DEF CallStates
  <2> QED
    BY <1>1, <1>2, <1>3, <2>1, OneCallBase DEF CallsInv
<1>7. CASE pc' = "failMessage" /\ faults' = faults + 1
  BY <1>1, <1>6, <1>7, ThrownStaged DEF CallsInv
<1>8. CASE pc' = (IF parallel THEN "nextCall" ELSE "report") /\ faults' = faults
  <2>1. callState'[c] = "finished" /\ \A d \in Calls \ {c} : callState'[d] = callState[d]
    BY <1>1, <1>2, <1>3 DEF ToolType
  <2>2. Progress'
    <3> SUFFICES ASSUME NEW i \in DOMAIN batch.calls
                 PROVE  callState'[batch.calls[i]] \in Stage(i)'
      BY <1>3 DEF Progress
    <3>1. CASE i = batch.next
      BY <1>2, <1>3, <1>4, <1>8, <2>1, <3>1 DEF Stage, Current, Handled
    <3>2. CASE i # batch.next
      <4>1. callState'[batch.calls[i]] = callState[batch.calls[i]]
        BY <1>2, <2>1, <3>2
      <4>2. callState[batch.calls[i]] \in Stage(i)
        BY <1>1 DEF CallsInv, CallsStaged, Progress
      <4>3. Stage(i) \subseteq Stage(i)'
        BY <1>1, <1>2, <1>3, <1>4, <1>8, <3>2 DEF Stage, Handled
      <4> QED
        BY <4>1, <4>2, <4>3
    <3> QED
      BY <3>1, <3>2
  <2>3. Launched' /\ Answered' /\ NoBatchYet' /\ IdleNone'
    BY <1>3, <1>8 DEF Launched, Answered, NoBatchYet, IdleNone, Asking, parallel
  <2>4. InProgress' = InProgress \ {c}
    BY <1>2, <2>1 DEF InProgress
  <2>5. Quiet'
    BY <1>1, <1>2, <1>3, <1>8, <2>4 DEF CallsInv, CallsStaged, Quiet, InBatch, InCall
  <2>6. EndedLast'
    BY <1>1, <1>3, <1>8 DEF CallsInv, CallsStaged, EndedLast
  <2> QED
    BY <1>6, <2>2, <2>3, <2>5, <2>6 DEF CallsInv, CallsStaged
<1> QED
  BY <1>3, <1>7, <1>8

LEMMA PrepareCallCalls ==
  ASSUME ControlInv, CallsInv, PrepareCall
  PROVE  CallsInv'
<1> DEFINE c == CurrentCall
           s == IF batch.mode = "sequential" THEN "running" ELSE "prepared"
<1>1. pc = "prepareCall" /\ pc \in InBatch /\ ToolType /\ faults \in Nat
  BY DEF PrepareCall, InBatch, InCall, ControlInv, TypeOK, HistoryType
<1>2. /\ batch.next \in DOMAIN batch.calls /\ c = batch.calls[batch.next] /\ c \in Calls
      /\ c \in Elements(batch.calls) /\ batch.reported \in Nat
      /\ \A i \in DOMAIN batch.calls : i # batch.next => batch.calls[i] # c
      /\ \A i \in DOMAIN batch.calls : batch.calls[i] \in Calls /\ i \in Nat
  BY <1>1, CurrentFacts
<1>3. /\ callState' = [callState EXCEPT ![c] = s]
      /\ pc' = IF batch.mode = "sequential" THEN "await" ELSE "nextCall"
      /\ batch.mode \in {"sequential", "parallel"}
      /\ UNCHANGED <<batch, nextCall, aborted, ended, pendingToolCalls, faults>>
  BY <1>1 DEF PrepareCall, runUnchanged, supply, agentState, ToolType, BatchModes
<1>4. callState[c] = "preparing" /\ batch.reported < batch.next
      /\ (batch.mode # "parallel" => batch.reported = batch.next - 1)
  BY <1>1, PrepareStateFacts DEF ControlInv, BatchInv
<1>5. s \in {"running", "prepared"}
  OBVIOUS
<1> HIDE DEF c
<1>6. CallsBase'
  <2>1. /\ callState[c] # "unused" /\ s \in CallStates
        /\ \A d \in pendingToolCalls' :
             IF d = c THEN s \in {"preparing", "prepared", "running", "failed"}
             ELSE d \in pendingToolCalls
    BY <1>3, <1>4 DEF CallStates
  <2> QED
    BY <1>1, <1>2, <1>3, <2>1, OneCallBase DEF CallsInv
<1>8. callState'[c] = s /\ \A d \in Calls \ {c} : callState'[d] = callState[d]
  BY <1>1, <1>2, <1>3 DEF ToolType
<1>9. Progress'
  <2> SUFFICES ASSUME NEW i \in DOMAIN batch.calls
               PROVE  callState'[batch.calls[i]] \in Stage(i)'
    BY <1>3 DEF Progress
  <2>1. CASE i = batch.next
    BY <1>2, <1>3, <1>4, <1>8, <2>1 DEF Stage, Current, Handled
  <2>2. CASE i # batch.next
    <3>1. callState'[batch.calls[i]] = callState[batch.calls[i]]
      BY <1>2, <1>8, <2>2
    <3>2. callState[batch.calls[i]] \in Stage(i)
      BY <1>1 DEF CallsInv, CallsStaged, Progress
    <3>3. Stage(i) \subseteq Stage(i)'
      BY <1>1, <1>2, <1>3, <1>4, <2>2 DEF Stage, Handled
    <3> QED
      BY <3>1, <3>2, <3>3
  <2> QED
    BY <2>1, <2>2
<1>10. Launched' /\ Answered' /\ NoBatchYet' /\ IdleNone'
  BY <1>3 DEF Launched, Answered, NoBatchYet, IdleNone, Asking
<1>11. InProgress' = InProgress
  BY <1>2, <1>4, <1>5, <1>8 DEF InProgress
<1>12. Quiet'
  BY <1>1, <1>3, <1>11 DEF CallsInv, CallsStaged, Quiet, InBatch, InCall
<1>13. EndedLast'
  BY <1>1, <1>3 DEF CallsInv, CallsStaged, EndedLast
<1> QED
  BY <1>6, <1>9, <1>10, <1>12, <1>13 DEF CallsInv, CallsStaged

LEMMA NextCallCalls ==
  ASSUME ControlInv, CallsInv, NextCall
  PROVE  CallsInv'
<1> DEFINE n == Len(batch.calls)
           parallel == batch.mode = "parallel"
<1>1. /\ pc = "nextCall" /\ pc \in InBatch /\ ToolType /\ faults \in Nat
      /\ UNCHANGED <<nextCall, aborted, ended, pendingToolCalls, faults>>
  BY DEF NextCall, InBatch, InCall, ControlInv, TypeOK, HistoryType, runUnchanged, supply,
         agentState
<1>2. /\ n \in Nat /\ DOMAIN batch.calls = 1..n /\ batch.next \in 1..n
      /\ batch.reported \in Nat
      /\ IF parallel THEN batch.reported = 0 ELSE batch.reported = batch.next
  BY <1>1 DEF ControlInv, BatchInv, ToolType
<1>3. \A i \in 1..n : /\ batch.calls[i] \in Calls /\ batch.calls[i] \in Elements(batch.calls)
                      /\ callState[batch.calls[i]] \in Stage(i)
  BY <1>1, <1>2 DEF ToolType, Elements, CallsInv, CallsStaged, Progress
<1>4. \A i \in 1..n : Stage(i) = IF i <= batch.reported THEN {"reported"}
                                ELSE IF i > batch.next THEN {"issued"}
                                ELSE {"prepared", "finished"}
  BY <1>1 DEF Stage, Current, Handled
<1>5. CASE /\ MoreCalls /\ batch' = [batch EXCEPT !.next = @ + 1] /\ pc' = "startCall"
           /\ callState' = callState
  <2>1. /\ batch'.calls = batch.calls /\ batch'.mode = batch.mode
        /\ batch'.reported = batch.reported /\ batch'.next = batch.next + 1
    BY <1>1, <1>5 DEF ToolType
  <2>2. CallsBase'
    BY <1>1, <1>5, <2>1 DEF CallsInv, CallsBase, FreshUnused, PendingLive, Distinct
  <2>3. Progress'
    <3> SUFFICES ASSUME NEW i \in 1..n
                 PROVE  callState[batch.calls[i]] \in Stage(i)'
      BY <1>2, <1>5, <2>1 DEF Progress
    <3>1. Stage(i)' = IF i <= batch.reported THEN {"reported"}
                      ELSE IF i > batch.next + 1 THEN {"issued"}
                      ELSE IF i = batch.next + 1 THEN {"issued"}
                      ELSE {"prepared", "finished"}
      BY <1>5, <2>1 DEF Stage, Current, Handled
    <3>2. callState[batch.calls[i]] \in IF i <= batch.reported THEN {"reported"}
                                        ELSE IF i > batch.next THEN {"issued"}
                                        ELSE {"prepared", "finished"}
      BY <1>3, <1>4
    <3>3. i \in Nat /\ batch.next \in Nat
      BY <1>2
    <3> QED
      BY <3>1, <3>2, <3>3
  <2>4. Launched' /\ Answered' /\ NoBatchYet' /\ IdleNone'
    BY <1>5 DEF Launched, Answered, NoBatchYet, IdleNone, Asking
  <2>5. InProgress' = InProgress
    BY <1>5 DEF InProgress
  <2>6. Quiet'
    BY <1>1, <1>5, <2>1, <2>5 DEF CallsInv, CallsStaged, Quiet, InBatch, InCall, Elements
  <2>7. EndedLast'
    BY <1>1, <1>5 DEF CallsInv, CallsStaged, EndedLast
  <2> QED
    BY <2>2, <2>3, <2>4, <2>6, <2>7 DEF CallsInv, CallsStaged
<1>6. CASE /\ ~MoreCalls /\ parallel /\ batch' = batch
           /\ \E launch : /\ launch = {c \in Elements(batch.calls) : callState[c] = "prepared"}
                          /\ callState' = [c \in Calls |-> IF c \in launch THEN "running"
                                                           ELSE callState[c]]
                          /\ pc' = IF launch = {} THEN "report" ELSE "await"
  <2>1. PICK launch : /\ launch = {c \in Elements(batch.calls) : callState[c] = "prepared"}
                      /\ callState' = [c \in Calls |-> IF c \in launch THEN "running"
                                                       ELSE callState[c]]
                      /\ pc' = IF launch = {} THEN "report" ELSE "await"
    BY <1>6
  <2>2. /\ \A c \in launch : callState[c] = "prepared"
        /\ \A i \in 1..n : callState[batch.calls[i]] = "prepared" => batch.calls[i] \in launch
    BY <1>3, <2>1
  <2>3. /\ \A c \in Calls : callState'[c] = IF c \in launch THEN "running" ELSE callState[c]
        /\ pc' \in {"report", "await"} /\ (pc' = "report" => launch = {})
    BY <2>1
  <2> HIDE <2>1
  <2>4. CallsBase'
    <3>1. FreshUnused'
      BY <1>1, <2>2, <2>3 DEF CallsInv, CallsBase, FreshUnused
    <3>2. PendingLive'
      BY <1>1, <2>2, <2>3 DEF CallsInv, CallsBase, PendingLive, ToolType
    <3> QED
      BY <1>6, <3>1, <3>2 DEF CallsInv, CallsBase, Distinct
  <2>5. Progress'
    <3> SUFFICES ASSUME NEW i \in 1..n
                 PROVE  callState'[batch.calls[i]] \in Stage(i)'
      BY <1>2, <1>6 DEF Progress
    <3>1. Stage(i)' = IF i <= batch.reported THEN {"reported"}
                      ELSE IF i > batch.next THEN {"issued"}
                      ELSE IF pc' = "report" THEN {"finished"} ELSE {"running", "finished"}
      BY <1>6, <2>3 DEF Stage, Current, Handled
    <3>2. callState[batch.calls[i]] \in IF i <= batch.reported THEN {"reported"}
                                        ELSE IF i > batch.next THEN {"issued"}
                                        ELSE {"prepared", "finished"}
      BY <1>3, <1>4
    <3>3. callState'[batch.calls[i]] = IF callState[batch.calls[i]] = "prepared" THEN "running"
                                       ELSE callState[batch.calls[i]]
      BY <1>3, <2>2, <2>3
    <3>4. pc' = "report" => callState[batch.calls[i]] # "prepared"
      BY <2>2, <2>3
    <3> QED
      BY <2>3, <3>1, <3>2, <3>3, <3>4
  <2>6. Launched'
    <3>1. ~aborted => batch.next = n
      BY <1>2, <1>6 DEF MoreCalls
    <3> QED
      BY <1>1, <1>6, <3>1 DEF Launched
  <2>7. Answered' /\ NoBatchYet' /\ IdleNone'
    BY <2>3 DEF Answered, NoBatchYet, IdleNone, Asking
  <2>8. InProgress' = InProgress
    BY <2>2, <2>3 DEF InProgress
  <2>9. Quiet'
    BY <1>1, <1>6, <2>3, <2>8 DEF CallsInv, CallsStaged, Quiet, InBatch, InCall
  <2>10. EndedLast'
    BY <1>1 DEF CallsInv, CallsStaged, EndedLast
  <2> QED
    BY <2>4, <2>5, <2>6, <2>7, <2>9, <2>10 DEF CallsInv, CallsStaged
<1>7. CASE /\ ~MoreCalls /\ ~parallel /\ pc' = "turnEnd"
           /\ UNCHANGED <<batch, callState>>
  <2>1. CallsBase'
    BY <1>1, <1>7 DEF CallsInv, CallsBase, FreshUnused, PendingLive, Distinct
  <2>2. Progress' /\ Launched' /\ NoBatchYet' /\ IdleNone'
    BY <1>7 DEF Progress, Launched, NoBatchYet, IdleNone, InBatch, InCall
  <2>3. Answered'
    <3> SUFFICES ASSUME ~aborted, NEW i \in 1..n
                 PROVE  callState[batch.calls[i]] = "reported"
      BY <1>1, <1>2, <1>7 DEF Answered, AllReported
    <3>1. i <= batch.reported
      BY <1>2, <1>7 DEF MoreCalls
    <3> QED
      BY <1>3, <1>4, <3>1
  <2>4. \A c \in Elements(batch.calls) : c \notin InProgress
    <3> SUFFICES ASSUME NEW i \in 1..n PROVE batch.calls[i] \notin InProgress
      BY <1>2 DEF Elements
    <3>1. callState[batch.calls[i]] \in {"reported", "issued"}
      BY <1>2, <1>3, <1>4, <1>7
    <3> QED
      BY <3>1 DEF InProgress
  <2>5. InProgress' = InProgress
    BY <1>7 DEF InProgress
  <2>6. Quiet'
    BY <1>1, <1>7, <2>4, <2>5 DEF CallsInv, CallsStaged, Quiet, InBatch, InCall
  <2>7. EndedLast'
    BY <1>1 DEF CallsInv, CallsStaged, EndedLast
  <2> QED
    BY <2>1, <2>2, <2>3, <2>6, <2>7 DEF CallsInv, CallsStaged
<1> QED
  BY <1>5, <1>6, <1>7 DEF NextCall

LEMMA ReportResultCalls ==
  ASSUME ControlInv, CallsInv, ReportResult
  PROVE  CallsInv'
<1> DEFINE n == Len(batch.calls)
           k == batch.reported + 1
           c == batch.calls[k]
           parallel == batch.mode = "parallel"
<1>1. /\ pc = "report" /\ pc \in InBatch /\ ToolType /\ faults \in Nat
      /\ UNCHANGED <<nextCall, aborted, ended, pendingToolCalls>>
  BY DEF ReportResult, InBatch, InCall, ControlInv, TypeOK, HistoryType, runUnchanged, supply
<1>2. /\ n \in Nat /\ DOMAIN batch.calls = 1..n /\ batch.next \in 1..n
      /\ batch.reported \in Nat /\ k \in 1..batch.next
      /\ ~parallel => k = batch.next
  BY <1>1 DEF ControlInv, BatchInv, ToolType
<1>3. \A i \in 1..n : /\ batch.calls[i] \in Calls /\ batch.calls[i] \in Elements(batch.calls)
                      /\ callState[batch.calls[i]] \in Stage(i)
                      /\ i # k => batch.calls[i] # c
  BY <1>1, <1>2 DEF ToolType, Elements, CallsInv, CallsStaged, CallsBase, Distinct, Progress
<1>4. \A i \in 1..n : Stage(i) = IF i <= batch.reported THEN {"reported"}
                                ELSE IF i > batch.next THEN {"issued"}
                                ELSE {"finished"}
  BY <1>1 DEF Stage, Current, Handled
<1>5. c \in Calls /\ callState[c] = "finished" /\ c \notin pendingToolCalls
  <2>1. c \in Calls /\ callState[c] = "finished"
    BY <1>2, <1>3, <1>4
  <2> QED
    BY <2>1 DEF CallsInv, CallsBase, PendingLive
<1>6. CASE Throw /\ UNCHANGED <<callState, batch>>
  <2>1. CallsBase'
    BY <1>1, <1>6 DEF CallsInv, CallsBase, FreshUnused, PendingLive, Distinct
  <2> QED
    BY <1>1, <1>6, <2>1, ThrownStaged DEF CallsInv, Throw, ThrowTo
<1>7. CASE /\ callState' = [callState EXCEPT ![c] = "reported"]
           /\ batch' = [batch EXCEPT !.reported = @ + 1]
           /\ Emit(IF ~parallel THEN "nextCall"
                   ELSE IF k = batch.next THEN "turnEnd" ELSE "report")
  <2>1. /\ batch'.calls = batch.calls /\ batch'.mode = batch.mode
        /\ batch'.reported = k /\ batch'.next = batch.next
    BY <1>1, <1>7 DEF ToolType
  <2>2. callState'[c] = "reported" /\ \A d \in Calls \ {c} : callState'[d] = callState[d]
    BY <1>1, <1>5, <1>7 DEF ToolType
  <2>3. \/ pc' = "failMessage" /\ faults' = faults + 1
        \/ /\ faults' = faults
           /\ pc' = IF ~parallel THEN "nextCall"
                    ELSE IF k = batch.next THEN "turnEnd" ELSE "report"
    BY <1>7 DEF Emit, Throw, ThrowTo
  <2> HIDE DEF c, k, parallel
  <2>4. CallsBase'
    <3>1. FreshUnused'
      BY <1>1, <1>5, <2>2 DEF CallsInv, CallsBase, FreshUnused
    <3>2. PendingLive'
      BY <1>1, <1>5, <2>2 DEF CallsInv, CallsBase, PendingLive, ToolType
    <3> QED
      BY <2>1, <3>1, <3>2 DEF CallsInv, CallsBase, Distinct
  <2>5. CASE pc' = "failMessage" /\ faults' = faults + 1
    BY <1>1, <2>4, <2>5, ThrownStaged DEF CallsInv
  <2>6. CASE /\ faults' = faults
             /\ pc' = IF ~parallel THEN "nextCall"
                      ELSE IF k = batch.next THEN "turnEnd" ELSE "report"
    <3>1. \A i \in 1..n : callState'[batch.calls[i]] \in IF i <= k THEN {"reported"}
                                                         ELSE IF i > batch.next THEN {"issued"}
                                                         ELSE {"finished"}
      <4> SUFFICES ASSUME NEW i \in 1..n
                   PROVE  callState'[batch.calls[i]] \in IF i <= k THEN {"reported"}
                                                         ELSE IF i > batch.next THEN {"issued"}
                                                         ELSE {"finished"}
        OBVIOUS
      <4>1. CASE i = k
        BY <2>2, <4>1 DEF c
      <4>2. CASE i # k
        <5>1. callState'[batch.calls[i]] = callState[batch.calls[i]]
          BY <1>3, <2>2, <4>2
        <5>2. callState[batch.calls[i]] \in IF i <= batch.reported THEN {"reported"}
                                            ELSE IF i > batch.next THEN {"issued"}
                                            ELSE {"finished"}
          BY <1>3, <1>4
        <5>3. i <= k <=> i <= batch.reported
          BY <1>2, <4>2 DEF k
        <5> QED
          BY <5>1, <5>2, <5>3
      <4> QED
        BY <4>1, <4>2
    <3>2. Progress'
      <4> SUFFICES ASSUME pc' \in InBatch, NEW i \in 1..n
                   PROVE  callState'[batch.calls[i]] \in Stage(i)'
        BY <1>2, <2>1 DEF Progress
      <4>1. pc' = "report" \/ (pc' = "nextCall" /\ k = batch.next)
        BY <1>2, <2>6 DEF InBatch, InCall
      <4>2. Stage(i)' = IF i <= k THEN {"reported"}
                        ELSE IF i > batch.next THEN {"issued"}
                        ELSE IF pc' = "report" THEN {"finished"} ELSE {"prepared", "finished"}
        BY <2>1, <4>1 DEF Stage, Current, Handled
      <4> QED
        BY <3>1, <4>2
    <3>3. Launched'
      BY <1>1, <2>1, <2>6 DEF CallsInv, CallsStaged, Launched, parallel
    <3>4. Answered'
      <4> SUFFICES ASSUME pc' \in Asking, ~aborted, NEW i \in 1..n
                   PROVE  callState'[batch.calls[i]] = "reported"
        BY <1>1, <1>2, <2>1 DEF Answered, AllReported
      <4>1. parallel /\ k = batch.next
        BY <2>6 DEF Asking
      <4>2. batch.next = n
        BY <1>1, <4>1 DEF CallsInv, CallsStaged, Launched, parallel
      <4> QED
        BY <1>2, <3>1, <4>1, <4>2
    <3>5. NoBatchYet' /\ IdleNone'
      BY <2>6 DEF NoBatchYet, IdleNone
    <3>6. InProgress' = InProgress
      BY <1>5, <2>2 DEF InProgress
    <3>7. Quiet'
      <4>1. pc' \in InBatch => Quiet'
        BY <1>1, <2>1, <2>6, <3>6 DEF CallsInv, CallsStaged, Quiet, Elements
      <4>2. ASSUME pc' \notin InBatch PROVE Quiet'
        <5>1. k = batch.next
          BY <2>6, <4>2 DEF InBatch, InCall
        <5>2. \A d \in Elements(batch.calls) : d \notin InProgress'
          <6> SUFFICES ASSUME NEW i \in 1..n PROVE batch.calls[i] \notin InProgress'
            BY <1>2 DEF Elements
          <6>1. callState'[batch.calls[i]] \in {"reported", "issued"}
            BY <1>2, <3>1, <5>1
          <6> QED
            BY <6>1 DEF InProgress
        <5> QED
          BY <1>1, <2>6, <3>6, <4>2, <5>2 DEF CallsInv, CallsStaged, Quiet
      <4> QED
        BY <4>1, <4>2
    <3>8. EndedLast'
      BY <1>1, <2>6 DEF CallsInv, CallsStaged, EndedLast
    <3> QED
      BY <2>4, <3>2, <3>3, <3>4, <3>5, <3>7, <3>8 DEF CallsInv, CallsStaged
  <2> QED
    BY <2>3, <2>5, <2>6
<1> QED
  BY <1>6, <1>7 DEF ReportResult

(* The calls the tools of a batch finish.                                  *)
LEMMA RunningIsAwaited ==
  ASSUME ControlInv, CallsInv, NEW c \in Running
  PROVE  /\ c \in Calls /\ callState[c] = "running"
         /\ pc \in InBatch /\ c \in Elements(batch.calls) => pc = "await"
         /\ faults = 0 => pc \in InBatch /\ c \in Elements(batch.calls)
<1>1. c \in Calls /\ callState[c] = "running" /\ c \in InProgress
  BY DEF Running, InProgress
<1>2. faults = 0 => pc \in InBatch /\ c \in Elements(batch.calls)
  BY <1>1 DEF CallsInv, CallsStaged, Quiet
<1>3. ASSUME pc \in InBatch, c \in Elements(batch.calls) PROVE pc = "await"
  <2>1. PICK i \in DOMAIN batch.calls : c = batch.calls[i]
    BY <1>3 DEF Elements
  <2>2. "running" \in Stage(i)
    BY <1>1, <1>3, <2>1 DEF CallsInv, CallsStaged, Progress
  <2> QED
    BY <2>2 DEF Stage, Current, Handled
<1> QED
  BY <1>1, <1>2, <1>3

LEMMA FinishCallCalls ==
  ASSUME ControlInv, CallsInv, NEW c \in Calls, FinishCall(c)
  PROVE  CallsInv'
<1> DEFINE others == (Running \cap Elements(batch.calls)) \ {c}
<1>1. /\ pc = "await" /\ pc \in InBatch /\ ToolType /\ faults \in Nat
      /\ c \in Elements(batch.calls) /\ callState[c] = "running"
  BY DEF FinishCall, Awaited, Running, InBatch, InCall, ControlInv, TypeOK, HistoryType
<1>2. /\ pendingToolCalls' = pendingToolCalls \ {c}
      /\ callState' = [callState EXCEPT ![c] = "finished"]
      /\ UNCHANGED <<batch, nextCall, aborted, ended>>
      /\ \/ pc' = (IF others = {} THEN "report" ELSE "await") /\ faults' = faults
         \/ pc' = "failMessage" /\ faults' = faults + 1
  BY DEF FinishCall, runUnchanged, supply, Emit, Throw, ThrowTo
<1>3. callState'[c] = "finished" /\ \A d \in Calls \ {c} : callState'[d] = callState[d]
  BY <1>1, <1>2 DEF ToolType
<1>4. \A d \in Elements(batch.calls) : d \in Calls
  BY <1>1 DEF ToolType, Elements
<1>5. others = {} => \A d \in Elements(batch.calls) : d # c => callState[d] # "running"
  BY <1>4 DEF Running
<1> HIDE DEF others
<1>6. CallsBase'
  <2>1. /\ callState[c] # "unused" /\ "finished" \in CallStates
        /\ \A d \in pendingToolCalls' :
             IF d = c THEN "finished" \in {"preparing", "prepared", "running", "failed"}
             ELSE d \in pendingToolCalls
    BY <1>1, <1>2 DEF CallStates
  <2> QED
    BY <1>1, <1>2, <2>1, OneCallBase DEF CallsInv
<1>7. CASE pc' = "failMessage" /\ faults' = faults + 1
  BY <1>1, <1>6, <1>7, ThrownStaged DEF CallsInv
<1>8. CASE pc' = (IF others = {} THEN "report" ELSE "await") /\ faults' = faults
  <2>1. Progress'
    <3> SUFFICES ASSUME NEW i \in DOMAIN batch.calls
                 PROVE  callState'[batch.calls[i]] \in Stage(i)'
      BY <1>2 DEF Progress
    <3>1. batch.calls[i] \in Calls /\ batch.calls[i] \in Elements(batch.calls)
      BY <1>4 DEF Elements
    <3>2. callState[batch.calls[i]] \in IF i <= batch.reported THEN {"reported"}
                                        ELSE IF i > batch.next THEN {"issued"}
                                        ELSE {"running", "finished"}
      BY <1>1 DEF CallsInv, CallsStaged, Progress, Stage, Current, Handled
    <3>3. Stage(i)' = IF i <= batch.reported THEN {"reported"}
                      ELSE IF i > batch.next THEN {"issued"}
                      ELSE IF pc' = "report" THEN {"finished"} ELSE {"running", "finished"}
      BY <1>2, <1>8 DEF Stage, Current, Handled
    <3>4. CASE batch.calls[i] = c
      BY <1>1, <1>3, <3>2, <3>3, <3>4
    <3>5. CASE batch.calls[i] # c
      <4>1. callState'[batch.calls[i]] = callState[batch.calls[i]]
        BY <1>3, <3>1, <3>5
      <4>2. pc' = "report" => callState[batch.calls[i]] # "running"
        BY <1>5, <1>8, <3>1, <3>5
      <4> QED
        BY <3>2, <3>3, <4>1, <4>2
    <3> QED
      BY <3>4, <3>5
  <2>2. Launched'
    BY <1>1, <1>2 DEF CallsInv, CallsStaged, Launched
  <2>3. Answered' /\ NoBatchYet' /\ IdleNone'
    BY <1>8 DEF Answered, NoBatchYet, IdleNone, Asking
  <2>4. InProgress' = InProgress \ {c}
    BY <1>3 DEF InProgress
  <2>5. Quiet'
    BY <1>1, <1>2, <1>8, <2>4 DEF CallsInv, CallsStaged, Quiet, InBatch, InCall
  <2>6. EndedLast'
    BY <1>1, <1>2, <1>8 DEF CallsInv, CallsStaged, EndedLast
  <2> QED
    BY <1>6, <2>1, <2>2, <2>3, <2>5, <2>6 DEF CallsInv, CallsStaged
<1> QED
  BY <1>2, <1>7, <1>8

LEMMA FailCallCalls ==
  ASSUME ControlInv, CallsInv, NEW c \in Calls, FailCall(c)
  PROVE  CallsInv'
<1>1. /\ ToolType /\ callState[c] = "running" /\ faults \in Nat
      /\ callState' = [callState EXCEPT ![c] = "failed"]
      /\ UNCHANGED <<batch, nextCall, pendingToolCalls>>
      /\ pc' = "failMessage" /\ faults' = faults + 1
  BY DEF FailCall, Running, Throw, ThrowTo, agentState, runUnchanged, supply, ControlInv, TypeOK,
         HistoryType
<1>2. /\ callState[c] # "unused" /\ "failed" \in CallStates
      /\ \A d \in pendingToolCalls' :
           IF d = c THEN "failed" \in {"preparing", "prepared", "running", "failed"}
           ELSE d \in pendingToolCalls
  BY <1>1 DEF CallStates
<1>3. CallsBase'
  BY <1>1, <1>2, OneCallBase DEF CallsInv
<1> QED
  BY <1>1, <1>3, ThrownStaged DEF CallsInv

LEMMA FinishOrphanCalls ==
  ASSUME ControlInv, CallsInv, NEW c \in Calls, FinishOrphan(c)
  PROVE  CallsInv'
<1>1. /\ ToolType /\ c \in Running /\ ~Awaited(c) /\ faults \in Nat
      /\ pendingToolCalls' = pendingToolCalls \ {c}
      /\ callState' = [callState EXCEPT ![c] = "finished"]
      /\ UNCHANGED <<batch, nextCall, pc, aborted, ended, faults>>
  BY DEF FinishOrphan, runUnchanged, supply, ControlInv, TypeOK, HistoryType
<1>2. /\ callState[c] = "running" /\ faults > 0
      /\ pc \in InBatch => c \notin Elements(batch.calls)
  BY <1>1, RunningIsAwaited DEF Awaited
<1>3. callState'[c] = "finished" /\ \A d \in Calls \ {c} : callState'[d] = callState[d]
  BY <1>1 DEF ToolType
<1>4. CallsBase'
  <2>1. /\ callState[c] # "unused" /\ "finished" \in CallStates
        /\ \A d \in pendingToolCalls' :
             IF d = c THEN "finished" \in {"preparing", "prepared", "running", "failed"}
             ELSE d \in pendingToolCalls
    BY <1>1, <1>2 DEF CallStates
  <2> QED
    BY <1>1, <1>2, <2>1, OneCallBase DEF CallsInv
<1>5. \A i \in DOMAIN batch.calls : batch.calls[i] \in Calls
                                    /\ batch.calls[i] \in Elements(batch.calls)
  BY <1>1 DEF ToolType, Elements
<1>6. Progress'
  <2> SUFFICES ASSUME pc \in InBatch, NEW i \in DOMAIN batch.calls
               PROVE  callState'[batch.calls[i]] \in Stage(i)'
    BY <1>1 DEF Progress
  <2>1. callState'[batch.calls[i]] = callState[batch.calls[i]]
    BY <1>2, <1>3, <1>5
  <2>2. Stage(i)' = Stage(i)
    BY <1>1 DEF Stage, Current, Handled
  <2> QED
    BY <2>1, <2>2 DEF CallsInv, CallsStaged, Progress
<1>7. Answered'
  <2> SUFFICES ASSUME pc \in Asking, ~aborted, NEW i \in DOMAIN batch.calls
               PROVE  callState'[batch.calls[i]] = "reported"
    BY <1>1 DEF Answered, AllReported
  <2>1. callState[batch.calls[i]] = "reported"
    BY DEF CallsInv, CallsStaged, Answered, AllReported
  <2> QED
    BY <1>2, <1>3, <1>5, <2>1
<1>8. Launched' /\ NoBatchYet' /\ EndedLast' /\ Quiet' /\ IdleNone'
  BY <1>1, <1>2 DEF CallsInv, CallsStaged, Launched, NoBatchYet, EndedLast, Quiet, IdleNone
<1> QED
  BY <1>4, <1>6, <1>7, <1>8 DEF CallsInv, CallsStaged

(* The calls of a fresh response.                                          *)
LEMMA RespondCalls ==
  ASSUME ControlInv, CallsInv, pc = "llm", NEW stop \in StopReasons \ {"none"},
         NEW n \in 0..MaxBatch, NEW mode \in {"sequential", "parallel"},
         Respond(stop, n, mode), UNCHANGED <<pendingToolCalls, aborted, ended>>
  PROVE  CallsInv'
<1> DEFINE fresh == nextCall..(nextCall + n - 1)
<1>1. ToolType /\ faults \in Nat /\ n \in Nat /\ nextCall \in Nat /\ MaxCalls \in Nat
  BY BoundsAssumption DEF ControlInv, TypeOK, HistoryType, ToolType
<1>2. /\ nextCall + n <= MaxCalls + 1 /\ nextCall' = nextCall + n
      /\ callState' = [d \in Calls |-> IF d \in fresh THEN "issued" ELSE callState[d]]
      /\ (aborted <=> stop = "aborted")
      /\ batch' = Batch(IssuedCalls(n), IF stop = "length" THEN "truncated" ELSE mode)
      /\ \/ /\ faults' = faults
            /\ pc' = IF stop \in {"error", "aborted"} THEN "errorTurnEnd"
                     ELSE IF n > 0 THEN "startCall" ELSE "turnEnd"
         \/ pc' = "failMessage" /\ faults' = faults + 1
  BY DEF Respond, Emit, Throw, ThrowTo
<1>3. /\ batch'.calls = IssuedCalls(n) /\ batch'.next = 1 /\ batch'.reported = 0
      /\ DOMAIN IssuedCalls(n) = 1..n
      /\ \A i \in 1..n : IssuedCalls(n)[i] = nextCall + i - 1
  BY <1>2 DEF Batch, IssuedCalls
<1>4. /\ \A d \in Calls : callState'[d] = IF d \in fresh THEN "issued" ELSE callState[d]
      /\ \A d \in fresh : callState[d] = "unused" /\ d \in Calls
  <2>1. \A d \in fresh : d \in Calls /\ d >= nextCall
    BY <1>1, <1>2 DEF Calls, ToolType
  <2> QED
    BY <1>2, <2>1 DEF CallsInv, CallsBase, FreshUnused
<1>5. CallsBase'
  <2>1. FreshUnused'
    <3> SUFFICES ASSUME NEW d \in Calls, d >= nextCall + n PROVE callState'[d] = "unused"
      BY <1>2 DEF FreshUnused
    <3>1. d >= nextCall /\ d \notin fresh
      BY <1>1 DEF Calls
    <3> QED
      BY <1>4, <3>1 DEF CallsInv, CallsBase, FreshUnused
  <2>2. Distinct(batch'.calls)
    BY <1>1, <1>3 DEF Distinct
  <2>3. PendingLive'
    <3> SUFFICES ASSUME NEW d \in pendingToolCalls
                 PROVE  callState'[d] \in {"preparing", "prepared", "running", "failed"}
      BY DEF PendingLive
    <3>1. d \in Calls /\ callState[d] \in {"preparing", "prepared", "running", "failed"}
      BY <1>1 DEF ToolType, CallsInv, CallsBase, PendingLive
    <3> QED
      BY <1>4, <3>1
  <2> QED
    BY <2>1, <2>2, <2>3 DEF CallsBase
<1>6. CASE pc' = "failMessage" /\ faults' = faults + 1
  BY <1>1, <1>5, <1>6, ThrownStaged DEF CallsInv
<1>7. CASE /\ faults' = faults
           /\ pc' = IF stop \in {"error", "aborted"} THEN "errorTurnEnd"
                    ELSE IF n > 0 THEN "startCall" ELSE "turnEnd"
  <2>1. Progress'
    <3> SUFFICES ASSUME pc' = "startCall", NEW i \in 1..n
                 PROVE  callState'[batch'.calls[i]] \in Stage(i)'
      BY <1>3, <1>7 DEF Progress, InBatch, InCall
    <3>1. batch'.calls[i] \in fresh
      BY <1>1, <1>3
    <3>2. Stage(i)' = {"issued"}
      BY <1>3 DEF Stage, Current
    <3> QED
      BY <1>4, <3>1, <3>2
  <2>2. Launched' /\ NoBatchYet' /\ IdleNone'
    BY <1>7 DEF Launched, NoBatchYet, IdleNone
  <2>3. Answered'
    <3>1. pc' \in Asking => n = 0
      BY <1>1, <1>7 DEF Asking
    <3> QED
      BY <1>3, <3>1 DEF Answered, AllReported
  <2>4. InProgress' = InProgress
    BY <1>4 DEF InProgress
  <2>5. Quiet'
    <3>1. faults = 0 => InProgress = {} /\ pendingToolCalls = {}
      BY DEF CallsInv, CallsStaged, Quiet, InBatch, InCall
    <3> QED
      BY <1>7, <2>4, <3>1 DEF Quiet
  <2>6. EndedLast'
    BY <1>7 DEF CallsInv, CallsStaged, EndedLast
  <2> QED
    BY <1>5, <2>1, <2>2, <2>3, <2>5, <2>6 DEF CallsInv, CallsStaged
<1> QED
  BY <1>2, <1>6, <1>7

(* finishRun drops the batch and what was still pending.                   *)
LEMMA FinishRunCalls ==
  ASSUME ControlInv, CallsInv, FinishRun
  PROVE  CallsInv'
<1>1. /\ pc = "finish" /\ pc' = "idle" /\ pendingToolCalls' = {} /\ batch' = NoBatch
      /\ UNCHANGED <<callState, nextCall, faults, ended>>
  BY DEF FinishRun, supply
<1>2. batch'.calls = <<>>
  BY <1>1 DEF NoBatch, Batch
<1>3. CallsBase'
  BY <1>1, <1>2 DEF CallsInv, CallsBase, FreshUnused, PendingLive, Distinct
<1>4. /\ Progress' /\ Launched' /\ Answered' /\ NoBatchYet' /\ IdleNone' /\ EndedLast'
  BY <1>1, <1>2 DEF Progress, Launched, Answered, NoBatchYet, IdleNone, EndedLast, InBatch, InCall,
                    Asking
<1>5. InProgress' = InProgress
  BY <1>1 DEF InProgress
<1>6. Quiet'
  BY <1>1, <1>5 DEF CallsInv, CallsStaged, Quiet, InBatch, InCall
<1> QED
  BY <1>3, <1>4, <1>6 DEF CallsInv, CallsStaged

(* A run starts from rest.                                                 *)
LEMMA StartRunCalls ==
  ASSUME ControlInv, CallsInv, NEW prompts, NEW skip, StartRun(prompts, skip)
  PROVE  CallsInv'
<1>1. /\ pc = "idle" /\ pc' = "prompts" /\ ~ended' /\ batch.calls = <<>>
      /\ UNCHANGED <<batch, callState, nextCall, pendingToolCalls, faults>>
  BY DEF StartRun, tools, ControlInv, RunInv, CallsInv, CallsStaged, NoBatchYet
<1>2. CallsBase'
  BY <1>1 DEF CallsInv, CallsBase, FreshUnused, PendingLive, Distinct
<1>3. Progress' /\ Launched' /\ Answered' /\ NoBatchYet' /\ IdleNone' /\ EndedLast'
  BY <1>1 DEF Progress, Launched, Answered, NoBatchYet, IdleNone, EndedLast, InBatch, InCall, Asking
<1>4. InProgress' = InProgress
  BY <1>1 DEF InProgress
<1>5. Quiet'
  BY <1>1, <1>4 DEF CallsInv, CallsStaged, Quiet, InBatch, InCall
<1> QED
  BY <1>2, <1>3, <1>5 DEF CallsInv, CallsStaged

LEMMA CallsStep == ControlInv /\ CallsInv /\ [Next]_vars => CallsInv'
<1> SUFFICES ASSUME ControlInv, CallsInv, [Next]_vars PROVE CallsInv'
  OBVIOUS
<1> USE DEF agentState, queues, modes, loopState, tools, supply, history, runUnchanged
<1>0. faults \in Nat
  BY DEF ControlInv, TypeOK, HistoryType
<1>1. CASE Steer
  BY <1>0, <1>1, CallsFrame DEF Steer, Submit, InBatch, InCall, Asking
<1>2. CASE FollowUp
  BY <1>0, <1>2, CallsFrame DEF FollowUp, Submit, InBatch, InCall, Asking
<1>3. CASE ClearSteeringQueue
  BY <1>0, <1>3, CallsFrame DEF ClearSteeringQueue, InBatch, InCall, Asking
<1>4. CASE ClearFollowUpQueue
  BY <1>0, <1>4, CallsFrame DEF ClearFollowUpQueue, InBatch, InCall, Asking
<1>5. CASE \E s, f \in Modes : SetMode(s, f)
  BY <1>0, <1>5, CallsFrame DEF SetMode, InBatch, InCall, Asking
<1>6. CASE Abort
  BY <1>0, <1>6, CallsFrame DEF Abort, InBatch, InCall, Asking
<1>7. CASE Reset
  <2>1. UNCHANGED <<batch, callState, nextCall, pendingToolCalls, pc, aborted, ended, faults>>
    BY <1>7 DEF Reset, ControlInv, RunInv, CallsInv, CallsStaged, IdleNone
  <2> QED
    BY <1>0, <2>1, CallsFrame DEF InBatch, InCall, Asking
<1>8. CASE Prompt
  BY <1>8, StartRunCalls DEF Prompt
<1>9. CASE ContinueFromSteering
  BY <1>9, StartRunCalls DEF ContinueFromSteering
<1>10. CASE ContinueFromFollowUp
  BY <1>10, StartRunCalls DEF ContinueFromFollowUp
<1>11. CASE ContinueFromTranscript
  BY <1>11, StartRunCalls DEF ContinueFromTranscript
<1>12. CASE EmitPrompt
  BY <1>0, <1>12, CallsFrame DEF EmitPrompt, Emit, Throw, ThrowTo, InBatch, InCall, Asking
<1>13. CASE EnterLoop
  BY <1>0, <1>13, CallsFrame DEF EnterLoop, Emit, Throw, ThrowTo, InBatch, InCall, Asking
<1>14. CASE PollSteering
  BY <1>0, <1>14, CallsFrame DEF PollSteering, InBatch, InCall, Asking
<1>15. CASE InjectPending
  BY <1>0, <1>15, CallsFrame DEF InjectPending, Emit, Throw, ThrowTo, InBatch, InCall, Asking
<1>16. CASE TurnReady
  BY <1>0, <1>16, CallsFrame DEF TurnReady, Emit, Throw, ThrowTo, InBatch, InCall, Asking
<1>17. CASE StreamAssistantResponse
  <2>1. pc = "llm" /\ UNCHANGED <<pendingToolCalls, aborted, ended>>
    BY <1>17 DEF StreamAssistantResponse
  <2>2. ASSUME NEW stop \in StopReasons \ {"none"}, NEW n \in 0..MaxBatch,
               NEW mode \in {"sequential", "parallel"}, Respond(stop, n, mode)
        PROVE  CallsInv'
    BY <2>1, <2>2, RespondCalls
  <2>3. CASE Throw /\ UNCHANGED <<nextCall, callState, batch>>
    BY <1>0, <2>1, <2>3, CallsFrame DEF Throw, ThrowTo, InBatch, InCall, Asking
  <2> QED
    BY <1>17, <2>2, <2>3 DEF StreamAssistantResponse
<1>18. CASE StartCall
  BY <1>18, StartCallCalls
<1>19. CASE FinishImmediately
  BY <1>19, FinishImmediatelyCalls
<1>20. CASE PrepareCall
  BY <1>20, PrepareCallCalls
<1>21. CASE NextCall
  BY <1>21, NextCallCalls
<1>22. CASE ReportResult
  BY <1>22, ReportResultCalls
<1>23. CASE TurnEnd
  BY <1>0, <1>23, CallsFrame DEF TurnEnd, Emit, Throw, ThrowTo, InBatch, InCall, Asking
<1>24. CASE ErrorTurnEnd
  BY <1>0, <1>24, CallsFrame DEF ErrorTurnEnd, Emit, Throw, ThrowTo, InBatch, InCall, Asking
<1>25. CASE PollFollowUp
  BY <1>0, <1>25, CallsFrame DEF PollFollowUp, InBatch, InCall, Asking
<1>26. CASE AgentEnd
  BY <1>0, <1>26, CallsFrame DEF AgentEnd, Emit, Throw, ThrowTo, InBatch, InCall, Asking
<1>27. CASE FailMessage
  BY <1>0, <1>27, CallsFrame DEF FailMessage, Emit, Throw, ThrowTo, InBatch, InCall, Asking
<1>28. CASE FailTurnEnd
  BY <1>0, <1>28, CallsFrame DEF FailTurnEnd, Emit, Throw, ThrowTo, InBatch, InCall, Asking
<1>29. CASE FailAgentEnd
  BY <1>0, <1>29, CallsFrame DEF FailAgentEnd, InBatch, InCall, Asking
<1>30. CASE FinishRun
  BY <1>30, FinishRunCalls
<1>31. CASE \E c \in Calls : FinishCall(c)
  BY <1>31, FinishCallCalls
<1>32. CASE \E c \in Calls : FailCall(c)
  BY <1>32, FailCallCalls
<1>33. CASE \E c \in Calls : FinishOrphan(c)
  BY <1>33, FinishOrphanCalls
<1>34. CASE UNCHANGED vars
  BY <1>0, <1>34, CallsFrame DEF vars, InBatch, InCall, Asking
<1> QED
  BY <1>1, <1>2, <1>3, <1>4, <1>5, <1>6, <1>7, <1>8, <1>9, <1>10, <1>11, <1>12, <1>13, <1>14,
     <1>15, <1>16, <1>17, <1>18, <1>19, <1>20, <1>21, <1>22, <1>23, <1>24, <1>25, <1>26, <1>27,
     <1>28, <1>29, <1>30, <1>31, <1>32, <1>33, <1>34
     DEF Next, Embedder, Loop, Tool

LEMMA InitCalls == Init => CallsInv
<1> SUFFICES ASSUME Init PROVE CallsInv
  OBVIOUS
<1>1. /\ pc = "idle" /\ ~ended /\ pendingToolCalls = {} /\ batch.calls = <<>>
      /\ callState = [c \in Calls |-> "unused"]
  BY DEF Init, NoBatch, Batch
<1>2. CallsBase
  BY <1>1 DEF CallsBase, FreshUnused, PendingLive, Distinct
<1>3. InProgress = {}
  BY <1>1 DEF InProgress
<1>4. CallsStaged
  BY <1>1, <1>3 DEF CallsStaged, Progress, Launched, Answered, NoBatchYet, Quiet, EndedLast,
                    IdleNone, InBatch, InCall, Asking
<1> QED
  BY <1>2, <1>4 DEF CallsInv

(* Every call is where the place of control says, until a listener throws.  *)
THEOREM CallsInvariant == Spec => []CallsInv
<1>1. ControlInv /\ CallsInv /\ [Next]_vars => CallsInv'
  BY CallsStep
<1> QED
  BY <1>1, InitCalls, ControlInvariant, PTL DEF Spec

(* pendingToolCalls is exact until a listener throws, empty at rest, and    *)
(* never shows a call whose result has been reported.                       *)
THEOREM PendingToolCallsAlwaysExact == Spec => []PendingToolCallsExact
<1>1. ControlInv /\ CallsInv => PendingToolCallsExact
  <2> SUFFICES ASSUME ControlInv, CallsInv PROVE PendingToolCallsExact
    OBVIOUS
  <2>1. ~activeRun => pendingToolCalls = {}
    BY DEF ControlInv, RunInv, CallsInv, CallsStaged, IdleNone
  <2>2. \A c \in pendingToolCalls : callState[c] \in {"preparing", "prepared", "running", "failed"}
    BY DEF CallsInv, CallsBase, PendingLive
  <2>3. faults = 0 => pendingToolCalls = InProgress
    BY DEF CallsInv, CallsStaged, Quiet
  <2> QED
    BY <2>1, <2>2, <2>3 DEF PendingToolCallsExact, InProgress
<1> QED
  BY <1>1, ControlInvariant, CallsInvariant, PTL

(* A tool that ends after agent_end is one a throwing listener orphaned:    *)
(* otherwise every running call belongs to the batch control is in, and a   *)
(* run whose agent_end was emitted is past its last batch.                  *)
THEOREM AgentEndAlwaysFinal == Spec => AgentEndIsFinal
<1> DEFINE Step == \A c \in Calls :
             callState[c] = "running" /\ callState'[c] = "finished" => faults > 0 \/ ~ended
<1>1. ControlInv /\ CallsInv /\ [Next]_vars => [Step]_vars
  <2> SUFFICES ASSUME ControlInv, CallsInv, NEW c \in Calls, callState[c] = "running",
                      faults <= 0, ended
               PROVE  FALSE
    BY DEF ControlInv, TypeOK, HistoryType
  <2>1. c \in Running /\ faults = 0
    BY DEF Running, ControlInv, TypeOK, HistoryType
  <2>2. pc \in InBatch
    BY <2>1, RunningIsAwaited
  <2> QED
    BY <2>1, <2>2 DEF CallsInv, CallsStaged, EndedLast, InBatch, InCall
<1> QED
  BY <1>1, ControlInvariant, CallsInvariant, PTL DEF Spec, AgentEndIsFinal

-----------------------------------------------------------------------------
(* What the model is sent.  The loop keeps a context of its own: it is the *)
(* transcript with the prompts still to be emitted before the first         *)
(* request, the transcript itself between turns, and lacks the results     *)
(* already reported while a batch is executed.                             *)

Results(k) == [i \in 1..k |-> ToolResult(batch.calls[i])]

ContextInv ==
  /\ pc = "prompts" => context = messages \o UserMessages(pending)
  /\ pc \in Asking => context = messages
  /\ pc \in InBatch => messages = context \o Results(batch.reported)

LEMMA ConcatEmpty ==
  ASSUME NEW S, NEW s \in Seq(S)
  PROVE  s \o <<>> = s
  OBVIOUS

LEMMA ConcatMoves ==
  ASSUME NEW S, NEW s \in Seq(S), NEW t \in Seq(S), NEW x \in S
  PROVE  s \o (<<x>> \o t) = Append(s, x) \o t
  OBVIOUS

(* Taking the first prompt off the list moves it to the transcript.        *)
LEMMA PromptMoves ==
  ASSUME NEW s \in Seq(Message), NEW ids \in Seq(Ids), ids # <<>>
  PROVE  s \o UserMessages(ids) = Append(s, User(Head(ids))) \o UserMessages(Tail(ids))
<1> DEFINE x == User(Head(ids))
           t == UserMessages(Tail(ids))
<1>1. Tail(ids) \in Seq(Ids) /\ Head(ids) \in Ids /\ Head(ids) = ids[1]
  BY HeadTailType
<1>2. x \in Message
  BY <1>1, MessageTypes DEF Ids
<1>3. t \in Seq(Message)
  BY <1>1, UserMessagesType
<1>4. UserMessages(ids) = <<x>> \o t
  <2>1. /\ Len(ids) \in Nat \ {0} /\ Len(Tail(ids)) = Len(ids) - 1
        /\ \A i \in 1..(Len(ids) - 1) : Tail(ids)[i] = ids[i + 1]
    OBVIOUS
  <2>2. x = User(ids[1])
    BY <1>1
  <2> DEFINE u == UserMessages(ids)
             v == <<x>> \o t
  <2>3. /\ u \in Seq(Message) /\ Len(u) = Len(ids)
        /\ \A i \in 1..Len(ids) : u[i] = User(ids[i])
    BY UserMessagesType DEF UserMessages
  <2>4. /\ Len(t) = Len(ids) - 1
        /\ \A i \in 1..(Len(ids) - 1) : t[i] = User(ids[i + 1])
    BY <2>1 DEF UserMessages
  <2> HIDE DEF x, t, u
  <2>5. /\ <<x>> \in Seq(Message) /\ Len(<<x>>) = 1 /\ <<x>>[1] = x
    BY <1>2
  <2>6. v \in Seq(Message) /\ Len(v) = Len(ids)
    <3>1. v \in Seq(Message) /\ Len(v) = Len(<<x>>) + Len(t)
      BY <1>3, <2>5, ConcatProperties
    <3> HIDE DEF v
    <3>2. Len(v) = 1 + (Len(ids) - 1)
      BY <2>4, <2>5, <3>1
    <3>3. \A m \in Nat : 1 + (m - 1) = m
      OBVIOUS
    <3>4. 1 + (Len(ids) - 1) = Len(ids)
      BY <2>1, <3>3
    <3> QED
      BY <3>1, <3>2, <3>4
  <2>7. \A i \in 1..Len(ids) : v[i] = IF i <= 1 THEN <<x>>[i] ELSE t[i - 1]
    BY <1>3, <2>1, <2>4, <2>5
  <2> HIDE DEF v
  <2>8. ASSUME NEW i \in 1..Len(ids) PROVE v[i] = User(ids[i])
    <3>1. CASE i = 1
      BY <2>2, <2>5, <2>7, <3>1
    <3>2. CASE i # 1
      <4>1. i - 1 \in 1..(Len(ids) - 1) /\ (i - 1) + 1 = i
        BY <2>1, <3>2
      <4>2. t[i - 1] = User(ids[(i - 1) + 1])
        BY <2>4, <4>1
      <4> QED
        BY <2>7, <3>2, <4>1, <4>2
    <3> QED
      BY <3>1, <3>2
  <2>9. u = v
    BY <2>3, <2>6, <2>8
  <2> QED
    BY <2>9 DEF u, v
<1> HIDE DEF x, t
<1>5. s \o (<<x>> \o t) = Append(s, x) \o t
  BY <1>2, <1>3, ConcatMoves
<1> QED
  BY <1>4, <1>5 DEF x, t

(* One more result.                                                        *)
LEMMA ResultsGrow ==
  ASSUME ToolType, NEW s \in Seq(Message), NEW k \in Nat, k + 1 \in DOMAIN batch.calls
  PROVE  /\ Append(s \o Results(k), ToolResult(batch.calls[k + 1])) = s \o Results(k + 1)
         /\ Results(k + 1) \in Seq(Message)
<1> DEFINE x == ToolResult(batch.calls[k + 1])
<1>1. \A i \in DOMAIN batch.calls : ToolResult(batch.calls[i]) \in Message
  BY MessageTypes DEF ToolType
<1>2. \A i \in 1..(k + 1) : i \in DOMAIN batch.calls
  BY DEF ToolType
<1>3. /\ Results(k) \in Seq(Message) /\ Len(Results(k)) = k
      /\ \A i \in 1..k : Results(k)[i] = ToolResult(batch.calls[i])
  BY <1>1, <1>2 DEF Results
<1>4. /\ Results(k + 1) \in Seq(Message) /\ Len(Results(k + 1)) = k + 1
      /\ \A i \in 1..(k + 1) : Results(k + 1)[i] = ToolResult(batch.calls[i])
  BY <1>1, <1>2 DEF Results
<1>5. x \in Message
  BY <1>1
<1> HIDE DEF x
<1>6. Results(k + 1) = Append(Results(k), x)
  BY <1>3, <1>4, <1>5 DEF x
<1>7. Append(s \o Results(k), x) = s \o Append(Results(k), x)
  BY <1>3, <1>5
<1> QED
  BY <1>4, <1>6, <1>7 DEF x

(* The messages, the context and the list of prompts are left alone.       *)
LEMMA ContextFrame ==
  ASSUME ContextInv, UNCHANGED <<messages, context, pending>>,
         pc' = "prompts" => pc = "prompts",
         pc' \in Asking => pc \in Asking,
         pc' \in InBatch => pc \in InBatch /\ batch'.calls = batch.calls
                                           /\ batch'.reported = batch.reported
  PROVE  ContextInv'
  BY DEF ContextInv, Results, UserMessages

LEMMA ThrownContext ==
  ASSUME pc' = "failMessage"
  PROVE  ContextInv'
  BY DEF ContextInv, InBatch, InCall, Asking

LEMMA StartRunContext ==
  ASSUME NEW prompts, NEW skip, StartRun(prompts, skip)
  PROVE  ContextInv'
  BY DEF StartRun, ContextInv, InBatch, InCall, Asking, UserMessages

LEMMA EmitPromptContext ==
  ASSUME ControlInv, ContextInv, EmitPrompt
  PROVE  ContextInv'
<1>1. CASE Throw
  BY <1>1, ThrownContext DEF Throw, ThrowTo
<1>2. CASE /\ messages' = Append(messages, User(Head(pending)))
           /\ pending' = Tail(pending)
           /\ pc' = "prompts"
  <2>1. context = messages \o UserMessages(pending) /\ context' = context
    BY DEF EmitPrompt, ContextInv
  <2>2. context = messages' \o UserMessages(Tail(pending))
    BY <1>2, <2>1, PromptMoves DEF EmitPrompt, ControlInv, TypeOK, TranscriptType, QueueType
  <2>3. context' = messages' \o UserMessages(pending)'
    BY <1>2, <2>1, <2>2 DEF UserMessages
  <2> QED
    BY <1>2, <2>3 DEF ContextInv, InBatch, InCall, Asking
<1> QED
  BY <1>1, <1>2 DEF EmitPrompt, Emit

LEMMA EnterLoopContext ==
  ASSUME ControlInv, ContextInv, EnterLoop
  PROVE  ContextInv'
<1>1. /\ context = messages \o UserMessages(pending) /\ pending = <<>>
      /\ UNCHANGED <<messages, context>>
      /\ pc' \in {"pollSteering", "failMessage"}
  BY DEF EnterLoop, ContextInv, Emit, Throw, ThrowTo, agentState
<1>2. UserMessages(pending) = <<>>
  BY <1>1 DEF UserMessages
<1>3. context = messages
  BY <1>1, <1>2, ConcatEmpty DEF ControlInv, TypeOK, TranscriptType
<1> QED
  BY <1>1, <1>3 DEF ContextInv, InBatch, InCall, Asking

LEMMA RespondContext ==
  ASSUME TranscriptType', ContextInv, pc = "llm", NEW stop, NEW n \in Nat, NEW mode,
         Respond(stop, n, mode)
  PROVE  ContextInv'
<1>1. /\ context = messages
      /\ messages' = Append(messages, Assistant(stop, IssuedCalls(n)))
      /\ context' = Append(context, Assistant(stop, IssuedCalls(n)))
      /\ pc' \in {"errorTurnEnd", "startCall", "turnEnd", "failMessage"}
      /\ batch'.reported = 0
  BY DEF Respond, ContextInv, Emit, Throw, ThrowTo, Batch, Asking
<1>2. Results(batch.reported)' = <<>>
  BY <1>1 DEF Results
<1>3. messages' = context'
  BY <1>1
<1>4. context' \o <<>> = context'
  BY ConcatEmpty DEF TranscriptType
<1> QED
  BY <1>1, <1>2, <1>3, <1>4 DEF ContextInv

LEMMA NextCallContext ==
  ASSUME ControlInv, ContextInv, NextCall
  PROVE  ContextInv'
<1>1. pc = "nextCall" /\ pc \in InBatch /\ UNCHANGED <<messages, pending>>
  BY DEF NextCall, InBatch, InCall, agentState
<1>2. CASE /\ batch' \in {batch, [batch EXCEPT !.next = @ + 1]} /\ UNCHANGED context
           /\ pc' \in {"startCall", "report", "await"}
  <2>1. batch'.calls = batch.calls /\ batch'.reported = batch.reported
    BY <1>2 DEF ControlInv, TypeOK, ToolType
  <2> QED
    BY <1>1, <1>2, <2>1, ContextFrame DEF Asking
<1>3. CASE /\ batch.mode # "parallel" /\ ReturnFromBatch /\ pc' = "turnEnd"
  <2>1. batch.reported = batch.next
    BY <1>1, <1>3 DEF ControlInv, BatchInv
  <2>2. context' = context \o Results(batch.reported)
    BY <1>3, <2>1 DEF ReturnFromBatch, Results
  <2>3. context' = messages'
    BY <1>1, <2>2 DEF ContextInv
  <2> QED
    BY <1>3, <2>3 DEF ContextInv, InBatch, InCall
<1> QED
  BY <1>2, <1>3 DEF NextCall

LEMMA ReportResultContext ==
  ASSUME ControlInv, ContextInv, ReportResult
  PROVE  ContextInv'
<1> DEFINE k == batch.reported
           x == ToolResult(batch.calls[k + 1])
           parallel == batch.mode = "parallel"
<1>1. /\ pc = "report" /\ pc \in InBatch /\ ToolType /\ pending' = pending
      /\ context \in Seq(Message)
  BY DEF ReportResult, InBatch, InCall, ControlInv, TypeOK, TranscriptType
<1>2. /\ k \in Nat /\ k + 1 \in DOMAIN batch.calls
      /\ messages = context \o Results(k)
  BY <1>1 DEF ControlInv, BatchInv, ToolType, ContextInv
<1>3. Append(messages, x) = context \o Results(k + 1)
  BY <1>1, <1>2, ResultsGrow
<1>4. CASE Throw
  BY <1>4, ThrownContext DEF Throw, ThrowTo
<1>5. CASE /\ messages' = Append(messages, x)
           /\ batch' = [batch EXCEPT !.reported = @ + 1]
           /\ IF parallel /\ k + 1 = batch.next THEN ReturnFromBatch
              ELSE UNCHANGED <<context, hasMoreToolCalls>>
           /\ pc' = IF ~parallel THEN "nextCall"
                    ELSE IF k + 1 = batch.next THEN "turnEnd" ELSE "report"
  <2>1. batch'.calls = batch.calls /\ batch'.reported = k + 1
    BY <1>1, <1>5 DEF ToolType
  <2>2. CASE parallel /\ k + 1 = batch.next
    <3>1. context' = context \o Results(k + 1)
      BY <1>5, <2>2 DEF ReturnFromBatch, Results
    <3> QED
      BY <1>3, <1>5, <2>2, <3>1 DEF ContextInv, InBatch, InCall
  <2>3. CASE ~(parallel /\ k + 1 = batch.next)
    <3>1. context' = context /\ pc' \in {"nextCall", "report"}
      BY <1>5, <2>3
    <3>2. Results(batch.reported)' = Results(k + 1)
      BY <2>1 DEF Results
    <3> QED
      BY <1>3, <1>5, <3>1, <3>2 DEF ContextInv, Asking
  <2> QED
    BY <2>2, <2>3
<1> QED
  BY <1>4, <1>5 DEF ReportResult, Emit

LEMMA ContextStep == ControlInv /\ ContextInv /\ [Next]_vars => ContextInv'
<1> SUFFICES ASSUME ControlInv, ContextInv, [Next]_vars PROVE ContextInv'
  OBVIOUS
<1> USE DEF agentState, queues, modes, loopState, tools, supply, history, runUnchanged
<1>0. TranscriptType'
  BY TranscriptTypeStep DEF ControlInv
<1>1. CASE Steer
  BY <1>1, ContextFrame DEF Steer, Submit
<1>2. CASE FollowUp
  BY <1>2, ContextFrame DEF FollowUp, Submit
<1>3. CASE ClearSteeringQueue
  BY <1>3, ContextFrame DEF ClearSteeringQueue
<1>4. CASE ClearFollowUpQueue
  BY <1>4, ContextFrame DEF ClearFollowUpQueue
<1>5. CASE \E s, f \in Modes : SetMode(s, f)
  BY <1>5, ContextFrame DEF SetMode
<1>6. CASE Abort
  BY <1>6, ContextFrame DEF Abort
<1>7. CASE Reset
  BY <1>7 DEF Reset, ContextInv, ControlInv, RunInv, InBatch, InCall, Asking
<1>8. CASE Prompt
  BY <1>8, StartRunContext DEF Prompt
<1>9. CASE ContinueFromSteering
  BY <1>9, StartRunContext DEF ContinueFromSteering
<1>10. CASE ContinueFromFollowUp
  BY <1>10, StartRunContext DEF ContinueFromFollowUp
<1>11. CASE ContinueFromTranscript
  BY <1>11, StartRunContext DEF ContinueFromTranscript
<1>12. CASE EmitPrompt
  BY <1>12, EmitPromptContext
<1>13. CASE EnterLoop
  BY <1>13, EnterLoopContext
<1>14. CASE PollSteering
  BY <1>14 DEF PollSteering, ContextInv, InBatch, InCall, Asking
<1>15. CASE InjectPending
  BY <1>15 DEF InjectPending, ContextInv, Emit, Throw, ThrowTo, InBatch, InCall, Asking
<1>16. CASE TurnReady
  BY <1>16, ContextFrame DEF TurnReady, Emit, Throw, ThrowTo, InBatch, InCall, Asking
<1>17. CASE StreamAssistantResponse
  <2>1. pc = "llm"
    BY <1>17 DEF StreamAssistantResponse
  <2>2. ASSUME NEW stop \in StopReasons \ {"none"}, NEW n \in 0..MaxBatch,
               NEW mode \in {"sequential", "parallel"}, Respond(stop, n, mode)
        PROVE  ContextInv'
    BY <1>0, <2>1, <2>2, RespondContext
  <2>3. CASE Throw
    BY <2>3, ThrownContext DEF Throw, ThrowTo
  <2> QED
    BY <1>17, <2>2, <2>3 DEF StreamAssistantResponse
<1>18. CASE StartCall
  BY <1>18, ContextFrame DEF StartCall, Emit, Throw, ThrowTo, InBatch, InCall, Asking
<1>19. CASE FinishImmediately
  BY <1>19, ContextFrame DEF FinishImmediately, Emit, Throw, ThrowTo, InBatch, InCall, Asking
<1>20. CASE PrepareCall
  BY <1>20, ContextFrame DEF PrepareCall, InBatch, InCall, Asking
<1>21. CASE NextCall
  BY <1>21, NextCallContext
<1>22. CASE ReportResult
  BY <1>22, ReportResultContext
<1>23. CASE TurnEnd
  BY <1>23, ContextFrame DEF TurnEnd, Emit, Throw, ThrowTo, InBatch, InCall, Asking
<1>24. CASE ErrorTurnEnd
  BY <1>24, ContextFrame DEF ErrorTurnEnd, Emit, Throw, ThrowTo, InBatch, InCall, Asking
<1>25. CASE PollFollowUp
  BY <1>25 DEF PollFollowUp, ContextInv, InBatch, InCall, Asking
<1>26. CASE AgentEnd
  BY <1>26, ContextFrame DEF AgentEnd, Emit, Throw, ThrowTo, InBatch, InCall, Asking
<1>27. CASE FailMessage
  BY <1>27 DEF FailMessage, ThrowTo, ContextInv, InBatch, InCall, Asking
<1>28. CASE FailTurnEnd
  BY <1>28, ContextFrame DEF FailTurnEnd, Emit, Throw, ThrowTo, InBatch, InCall, Asking
<1>29. CASE FailAgentEnd
  BY <1>29, ContextFrame DEF FailAgentEnd, InBatch, InCall, Asking
<1>30. CASE FinishRun
  BY <1>30 DEF FinishRun, ContextInv, InBatch, InCall, Asking
<1>31. CASE \E c \in Calls : FinishCall(c)
  BY <1>31, ContextFrame DEF FinishCall, Awaited, Emit, Throw, ThrowTo, InBatch, InCall, Asking
<1>32. CASE \E c \in Calls : FailCall(c)
  BY <1>32, ContextFrame DEF FailCall, Awaited, Emit, Throw, ThrowTo, InBatch, InCall, Asking
<1>33. CASE \E c \in Calls : FinishOrphan(c)
  BY <1>33, ContextFrame DEF FinishOrphan, Awaited, Emit, Throw, ThrowTo, InBatch, InCall, Asking
<1>34. CASE UNCHANGED vars
  BY <1>34, ContextFrame DEF vars
<1> QED
  BY <1>1, <1>2, <1>3, <1>4, <1>5, <1>6, <1>7, <1>8, <1>9, <1>10, <1>11, <1>12, <1>13, <1>14,
     <1>15, <1>16, <1>17, <1>18, <1>19, <1>20, <1>21, <1>22, <1>23, <1>24, <1>25, <1>26, <1>27,
     <1>28, <1>29, <1>30, <1>31, <1>32, <1>33, <1>34
     DEF Next, Embedder, Loop, Tool

(* The loop's context and AgentState.messages differ only by the prompts to   *)
(* emit and the results already reported.                                    *)
THEOREM ContextInvariant == Spec => []ContextInv
<1>1. Init => ContextInv
  BY DEF Init, ContextInv, InBatch, InCall, Asking
<1>2. ControlInv /\ ContextInv /\ [Next]_vars => ContextInv'
  BY ContextStep
<1> QED
  BY <1>1, <1>2, ControlInvariant, PTL DEF Spec

(* Every request carries the transcript, with a result for each call of the *)
(* last response unless the run is aborted.                                 *)
THEOREM RequestsAlwaysWellFormed == Spec => []RequestsWellFormed
<1>1. ControlInv /\ CallsInv /\ ContextInv => RequestsWellFormed
  <2> SUFFICES ASSUME ControlInv, CallsInv, ContextInv PROVE RequestsWellFormed
    OBVIOUS
  <2>1. CallsAnsweredBeforeRequest
    BY DEF CallsInv, CallsStaged, Answered, AllReported, Asking, CallsAnsweredBeforeRequest, Elements
  <2>2. ContextIsTranscript
    BY DEF ContextInv, Asking, ContextIsTranscript
  <2> QED
    BY <2>1, <2>2 DEF RequestsWellFormed
<1> QED
  BY <1>1, ControlInvariant, CallsInvariant, ContextInvariant, PTL

-----------------------------------------------------------------------------
(* The order of delivery.  Queues and the list a run is injecting rise,    *)
(* and of the messages with one source those in the transcript come before *)
(* those the run has taken, and these before those still queued.           *)

Rising(s) == \A i, j \in DOMAIN s : i < j => s[i] < s[j]

Before(S, T) == \A a \in S, b \in T : source[a] = source[b] => a < b

From(S, op) == \A m \in S : source[m] = op

OrderInv ==
  /\ Delivered \subseteq Ids
  /\ Rising(steeringQueue) /\ Rising(followUpQueue) /\ Rising(pending)
  /\ From(Elements(steeringQueue), "steer") /\ From(Elements(followUpQueue), "followUp")
  /\ Before(Delivered, Elements(pending))
  /\ Before(Delivered, Elements(steeringQueue)) /\ Before(Delivered, Elements(followUpQueue))
  /\ Before(Elements(pending), Elements(steeringQueue))
  /\ Before(Elements(pending), Elements(followUpQueue))
  /\ DeliveryInOrder

LEMMA EmptyRises == Rising(<<>>) /\ Elements(<<>>) = {}
  BY DEF Rising, Elements

LEMMA SingletonRises ==
  ASSUME NEW x
  PROVE  Rising(<<x>>) /\ Elements(<<x>>) = {x}
  BY DEF Rising, Elements

LEMMA AppendRises ==
  ASSUME NEW s \in Seq(Ids), NEW x \in Ids, Rising(s), \A m \in Elements(s) : m < x
  PROVE  Rising(Append(s, x)) /\ Elements(Append(s, x)) = Elements(s) \cup {x}
<1>1. /\ Len(s) \in Nat /\ DOMAIN s = 1..Len(s) /\ DOMAIN Append(s, x) = 1..(Len(s) + 1)
      /\ \A i \in 1..Len(s) : Append(s, x)[i] = s[i]
      /\ Append(s, x)[Len(s) + 1] = x
  OBVIOUS
<1>2. \A i \in 1..Len(s) : s[i] < x
  BY <1>1 DEF Elements
<1>3. Rising(Append(s, x))
  BY <1>1, <1>2 DEF Rising
<1>4. Elements(Append(s, x)) = Elements(s) \cup {x}
  BY <1>1 DEF Elements
<1> QED
  BY <1>3, <1>4

LEMMA TailRises ==
  ASSUME NEW s \in Seq(Ids), s # <<>>, Rising(s)
  PROVE  /\ Rising(Tail(s)) /\ Elements(s) = Elements(Tail(s)) \cup {Head(s)}
         /\ \A m \in Elements(Tail(s)) : Head(s) < m
<1>1. /\ Len(s) \in Nat \ {0} /\ DOMAIN s = 1..Len(s)
      /\ DOMAIN Tail(s) = 1..(Len(s) - 1)
      /\ \A i \in 1..(Len(s) - 1) : Tail(s)[i] = s[i + 1]
      /\ Head(s) = s[1]
  OBVIOUS
<1>2. \A i \in DOMAIN s : i = 1 \/ (i - 1 \in DOMAIN Tail(s) /\ s[i] = Tail(s)[i - 1])
  BY <1>1
<1>3. Elements(s) = Elements(Tail(s)) \cup {Head(s)}
  BY <1>1, <1>2 DEF Elements
<1>4. Rising(Tail(s))
  BY <1>1 DEF Rising
<1>5. \A m \in Elements(Tail(s)) : Head(s) < m
  <2> SUFFICES ASSUME NEW i \in 1..(Len(s) - 1) PROVE s[1] < s[i + 1]
    BY <1>1 DEF Elements
  <2>1. 1 \in 1..Len(s) /\ i + 1 \in 1..Len(s) /\ 1 < i + 1
    BY <1>1
  <2> QED
    BY <1>1, <2>1 DEF Rising
<1> QED
  BY <1>3, <1>4, <1>5

(* drain() hands over the oldest messages.                                 *)
LEMMA DrainRises ==
  ASSUME NEW queue \in Seq(Ids), NEW mode, Rising(queue)
  PROVE  /\ Rising(Drained(queue, mode)) /\ Rising(Remaining(queue, mode))
         /\ Elements(Drained(queue, mode)) \subseteq Elements(queue)
         /\ Elements(Remaining(queue, mode)) \subseteq Elements(queue)
         /\ \A a \in Elements(Drained(queue, mode)), b \in Elements(Remaining(queue, mode)) : a < b
<1>1. CASE queue = <<>> \/ mode = "all"
  BY <1>1, EmptyRises DEF Drained, Remaining
<1>2. CASE queue # <<>> /\ mode # "all"
  BY <1>2, TailRises, SingletonRises DEF Drained, Remaining
<1> QED
  BY <1>1, <1>2

(* The identifiers of the transcript's user messages.                      *)
LEMMA DeliveredIds ==
  ASSUME NEW i \in DOMAIN messages, messages[i].role = "user"
  PROVE  messages[i].id \in Delivered
  BY DEF Delivered

(* A step that moves no message and gives none a new source.               *)
LEMMA OrderFrame ==
  ASSUME TypeOK, AccountInv, OrderInv,
         UNCHANGED <<steeringQueue, followUpQueue, pending>>,
         \A m \in Elements(steeringQueue) \cup Elements(followUpQueue)
                    \cup Elements(pending) \cup Delivered : source'[m] = source[m],
         \/ messages' = messages
         \/ \E x : x.role # "user" /\ messages' = Append(messages, x)
  PROVE  OrderInv'
<1>1. Delivered' = Delivered
  BY SameUsers, AppendOther DEF TypeOK, AccountInv, MessagesAtMostOnce
<1>2. /\ From(Elements(steeringQueue), "steer")' /\ From(Elements(followUpQueue), "followUp")'
      /\ Before(Delivered, Elements(pending))'
      /\ Before(Delivered, Elements(steeringQueue))' /\ Before(Delivered, Elements(followUpQueue))'
      /\ Before(Elements(pending), Elements(steeringQueue))'
      /\ Before(Elements(pending), Elements(followUpQueue))'
  BY <1>1 DEF OrderInv, Before, From
<1>3. DeliveryInOrder'
  <2>1. \A i \in DOMAIN messages : messages[i].role = "user" =>
          messages[i].id \in Delivered /\ source'[messages[i].id] = source[messages[i].id]
    BY DeliveredIds
  <2>2. CASE messages' = messages
    BY <2>1, <2>2 DEF OrderInv, DeliveryInOrder
  <2>3. CASE \E x : x.role # "user" /\ messages' = Append(messages, x)
    <3>1. PICK x : x.role # "user" /\ messages' = Append(messages, x)
      BY <2>3
    <3>2. /\ DOMAIN messages' = 1..(Len(messages) + 1) /\ Len(messages) \in Nat
          /\ DOMAIN messages = 1..Len(messages)
          /\ \A j \in 1..Len(messages) : messages'[j] = messages[j]
          /\ messages'[Len(messages) + 1] = x
      BY <3>1 DEF TypeOK, TranscriptType
    <3>3. \A i \in DOMAIN messages' : messages'[i].role = "user" =>
            i \in DOMAIN messages /\ messages'[i] = messages[i]
      <4> SUFFICES ASSUME NEW i \in 1..(Len(messages) + 1), messages'[i].role = "user"
                   PROVE  i \in 1..Len(messages) /\ messages'[i] = messages[i]
        BY <3>2, SMTT(30)
      <4>1. i # Len(messages) + 1
        BY <3>1, <3>2
      <4> QED
        BY <3>2, <4>1
    <3>4. \A i, j \in DOMAIN messages :
            /\ i < j /\ messages[i].role = "user" /\ messages[j].role = "user"
            /\ source'[messages[i].id] = source'[messages[j].id]
            => messages[i].id < messages[j].id
      BY <2>1 DEF OrderInv, DeliveryInOrder
    <3> QED
      BY <3>3, <3>4 DEF DeliveryInOrder
  <2> QED
    BY <2>2, <2>3
<1> QED
  BY <1>1, <1>2, <1>3 DEF OrderInv

(* Injecting the head of pending.                                          *)
LEMMA OrderInject ==
  ASSUME TypeOK, AccountInv, OrderInv, pending # <<>>,
         UNCHANGED <<steeringQueue, followUpQueue, source>>,
         messages' = Append(messages, User(Head(pending))),
         pending' = Tail(pending)
  PROVE  OrderInv'
<1> DEFINE h == Head(pending)
<1>1. pending \in Seq(Ids) /\ h \in Ids
  BY HeadTailType DEF TypeOK, QueueType
<1>2. /\ Rising(pending') /\ Elements(pending) = Elements(pending') \cup {h}
      /\ \A m \in Elements(pending') : h < m
  BY <1>1, TailRises DEF OrderInv
<1>3. h \in Elements(pending) /\ h \notin Delivered
  BY <1>2 DEF AccountInv, MessagesAtMostOnce
<1>4. Delivered' = Delivered \cup {h}
  BY <1>1, <1>3, AppendUser DEF TypeOK, AccountInv, MessagesAtMostOnce
<1> HIDE DEF h
<1>5. /\ Before(Delivered, Elements(pending))'
      /\ Before(Delivered, Elements(steeringQueue))' /\ Before(Delivered, Elements(followUpQueue))'
      /\ Before(Elements(pending), Elements(steeringQueue))'
      /\ Before(Elements(pending), Elements(followUpQueue))'
  BY <1>2, <1>3, <1>4 DEF OrderInv, Before
<1>6. DeliveryInOrder'
  <2>1. /\ DOMAIN messages' = 1..(Len(messages) + 1) /\ Len(messages) \in Nat
        /\ DOMAIN messages = 1..Len(messages)
        /\ \A j \in 1..Len(messages) : messages'[j] = messages[j]
        /\ messages'[Len(messages) + 1].role = "user" /\ messages'[Len(messages) + 1].id = h
    BY DEF TypeOK, TranscriptType, User, h
  <2>2. \A i \in 1..Len(messages) :
          messages[i].role = "user" /\ source[messages[i].id] = source[h] => messages[i].id < h
    BY <1>3, <2>1, DeliveredIds DEF OrderInv, Before
  <2> QED
    BY <2>1, <2>2 DEF OrderInv, DeliveryInOrder
<1>7. From(Elements(steeringQueue), "steer")' /\ From(Elements(followUpQueue), "followUp")'
  BY DEF OrderInv, From
<1> QED
  BY <1>1, <1>2, <1>4, <1>5, <1>6, <1>7 DEF OrderInv

LEMMA OrderDrainSteering ==
  ASSUME TypeOK, OrderInv, pending = <<>>,
         UNCHANGED <<messages, followUpQueue, source>>,
         pending' = Drained(steeringQueue, steeringMode),
         steeringQueue' = Remaining(steeringQueue, steeringMode)
  PROVE  OrderInv'
<1>1. /\ Rising(pending') /\ Rising(steeringQueue')
      /\ Elements(pending') \subseteq Elements(steeringQueue)
      /\ Elements(steeringQueue') \subseteq Elements(steeringQueue)
      /\ \A a \in Elements(pending'), b \in Elements(steeringQueue') : a < b
  BY DrainRises DEF TypeOK, QueueType, OrderInv
<1>2. Delivered' = Delivered /\ (DeliveryInOrder' <=> DeliveryInOrder)
  BY DEF Delivered, DeliveryInOrder
<1>3. \A a \in Elements(steeringQueue), b \in Elements(followUpQueue) : source[a] # source[b]
  BY DEF OrderInv, From
<1> QED
  BY <1>1, <1>2, <1>3 DEF OrderInv, Before, From

LEMMA OrderDrainFollowUp ==
  ASSUME TypeOK, OrderInv, pending = <<>>,
         UNCHANGED <<messages, steeringQueue, source>>,
         pending' = Drained(followUpQueue, followUpMode),
         followUpQueue' = Remaining(followUpQueue, followUpMode)
  PROVE  OrderInv'
<1>1. /\ Rising(pending') /\ Rising(followUpQueue')
      /\ Elements(pending') \subseteq Elements(followUpQueue)
      /\ Elements(followUpQueue') \subseteq Elements(followUpQueue)
      /\ \A a \in Elements(pending'), b \in Elements(followUpQueue') : a < b
  BY DrainRises DEF TypeOK, QueueType, OrderInv
<1>2. Delivered' = Delivered /\ (DeliveryInOrder' <=> DeliveryInOrder)
  BY DEF Delivered, DeliveryInOrder
<1>3. \A a \in Elements(steeringQueue), b \in Elements(followUpQueue) : source[a] # source[b]
  BY DEF OrderInv, From
<1> QED
  BY <1>1, <1>2, <1>3 DEF OrderInv, Before, From

(* A submission changes no source it knows of and is younger than them.    *)
LEMMA SubmitOrder ==
  ASSUME TypeOK, AccountInv, OrderInv, NEW op \in Sources, Submit(op)
  PROVE  /\ nextMessage \in Ids /\ source'[nextMessage] = op
         /\ \A m \in Elements(steeringQueue) \cup Elements(followUpQueue)
                       \cup Elements(pending) \cup Delivered :
              m < nextMessage /\ m \in Ids /\ source'[m] = source[m]
<1>1. nextMessage \in Ids /\ source \in [Ids -> Sources]
  BY SubmitType DEF TypeOK, HistoryType
<1>2. source' = [source EXCEPT ![nextMessage] = op]
  BY DEF Submit
<1>3. Elements(steeringQueue) \cup Elements(followUpQueue) \cup Elements(pending) \cup Delivered
        \subseteq Ids
  BY ElementsType DEF TypeOK, QueueType, OrderInv
<1>4. \A m \in Elements(steeringQueue) \cup Elements(followUpQueue)
                \cup Elements(pending) \cup Delivered : m < nextMessage
  BY DEF AccountInv, SupplyInv
<1> QED
  BY <1>1, <1>2, <1>3, <1>4 DEF Ids

LEMMA SteerOrder ==
  ASSUME TypeOK, AccountInv, OrderInv, Steer
  PROVE  OrderInv'
<1>1. "steer" \in Sources
  BY DEF Sources
<1>2. /\ nextMessage \in Ids /\ source'[nextMessage] = "steer"
      /\ \A m \in Elements(steeringQueue) \cup Elements(followUpQueue)
                    \cup Elements(pending) \cup Delivered :
           m < nextMessage /\ m \in Ids /\ source'[m] = source[m]
  BY <1>1, SubmitOrder DEF Steer
<1>3. /\ steeringQueue' = Append(steeringQueue, nextMessage)
      /\ UNCHANGED <<messages, followUpQueue, pending>>
  BY DEF Steer, agentState, loopState
<1>4. /\ Rising(steeringQueue')
      /\ Elements(steeringQueue') = Elements(steeringQueue) \cup {nextMessage}
  BY <1>2, <1>3, AppendRises DEF TypeOK, QueueType, OrderInv
<1>5. Delivered' = Delivered /\ DeliveryInOrder'
  <2>1. Delivered' = Delivered
    BY <1>3 DEF Delivered
  <2>2. \A i \in DOMAIN messages : messages[i].role = "user" =>
          source'[messages[i].id] = source[messages[i].id]
    BY <1>2, DeliveredIds
  <2> QED
    BY <1>3, <2>1, <2>2 DEF OrderInv, DeliveryInOrder
<1>6. /\ Before(Delivered, Elements(pending))'
      /\ Before(Delivered, Elements(steeringQueue))' /\ Before(Delivered, Elements(followUpQueue))'
      /\ Before(Elements(pending), Elements(steeringQueue))'
      /\ Before(Elements(pending), Elements(followUpQueue))'
  BY <1>2, <1>3, <1>4, <1>5 DEF OrderInv, Before
<1>7. From(Elements(steeringQueue), "steer")' /\ From(Elements(followUpQueue), "followUp")'
  BY <1>2, <1>3, <1>4 DEF OrderInv, From
<1> QED
  BY <1>3, <1>4, <1>5, <1>6, <1>7 DEF OrderInv

LEMMA FollowUpOrder ==
  ASSUME TypeOK, AccountInv, OrderInv, FollowUp
  PROVE  OrderInv'
<1>1. "followUp" \in Sources
  BY DEF Sources
<1>2. /\ nextMessage \in Ids /\ source'[nextMessage] = "followUp"
      /\ \A m \in Elements(steeringQueue) \cup Elements(followUpQueue)
                    \cup Elements(pending) \cup Delivered :
           m < nextMessage /\ m \in Ids /\ source'[m] = source[m]
  BY <1>1, SubmitOrder DEF FollowUp
<1>3. /\ followUpQueue' = Append(followUpQueue, nextMessage)
      /\ UNCHANGED <<messages, steeringQueue, pending>>
  BY DEF FollowUp, agentState, loopState
<1>4. /\ Rising(followUpQueue')
      /\ Elements(followUpQueue') = Elements(followUpQueue) \cup {nextMessage}
  BY <1>2, <1>3, AppendRises DEF TypeOK, QueueType, OrderInv
<1>5. Delivered' = Delivered /\ DeliveryInOrder'
  <2>1. Delivered' = Delivered
    BY <1>3 DEF Delivered
  <2>2. \A i \in DOMAIN messages : messages[i].role = "user" =>
          source'[messages[i].id] = source[messages[i].id]
    BY <1>2, DeliveredIds
  <2> QED
    BY <1>3, <2>1, <2>2 DEF OrderInv, DeliveryInOrder
<1>6. /\ Before(Delivered, Elements(pending))'
      /\ Before(Delivered, Elements(steeringQueue))' /\ Before(Delivered, Elements(followUpQueue))'
      /\ Before(Elements(pending), Elements(steeringQueue))'
      /\ Before(Elements(pending), Elements(followUpQueue))'
  BY <1>2, <1>3, <1>4, <1>5 DEF OrderInv, Before
<1>7. From(Elements(steeringQueue), "steer")' /\ From(Elements(followUpQueue), "followUp")'
  BY <1>2, <1>3, <1>4 DEF OrderInv, From
<1> QED
  BY <1>3, <1>4, <1>5, <1>6, <1>7 DEF OrderInv

LEMMA PromptOrder ==
  ASSUME TypeOK, RunInv, AccountInv, OrderInv, Prompt
  PROVE  OrderInv'
<1>1. "prompt" \in Sources
  BY DEF Sources
<1>2. /\ nextMessage \in Ids /\ source'[nextMessage] = "prompt"
      /\ \A m \in Elements(steeringQueue) \cup Elements(followUpQueue)
                    \cup Elements(pending) \cup Delivered :
           m < nextMessage /\ m \in Ids /\ source'[m] = source[m]
  BY <1>1, SubmitOrder DEF Prompt
<1>3. /\ pending' = <<nextMessage>>
      /\ UNCHANGED <<messages, steeringQueue, followUpQueue>>
  BY DEF Prompt, StartRun, queues
<1>4. Rising(pending') /\ Elements(pending') = {nextMessage}
  BY <1>3, SingletonRises
<1>5. Delivered' = Delivered /\ DeliveryInOrder'
  <2>1. Delivered' = Delivered
    BY <1>3 DEF Delivered
  <2>2. \A i \in DOMAIN messages : messages[i].role = "user" =>
          source'[messages[i].id] = source[messages[i].id]
    BY <1>2, DeliveredIds
  <2> QED
    BY <1>3, <2>1, <2>2 DEF OrderInv, DeliveryInOrder
<1>7. From(Elements(steeringQueue), "steer")' /\ From(Elements(followUpQueue), "followUp")'
  BY <1>2, <1>3 DEF OrderInv, From
<1>6. /\ Before(Delivered, Elements(pending))'
      /\ Before(Delivered, Elements(steeringQueue))' /\ Before(Delivered, Elements(followUpQueue))'
      /\ Before(Elements(pending), Elements(steeringQueue))'
      /\ Before(Elements(pending), Elements(followUpQueue))'
  BY <1>2, <1>3, <1>4, <1>5, <1>7 DEF OrderInv, Before, From
<1> QED
  BY <1>3, <1>4, <1>5, <1>6, <1>7 DEF OrderInv

LEMMA ResetOrder ==
  ASSUME OrderInv, Reset
  PROVE  OrderInv'
<1>1. /\ messages' = <<>> /\ steeringQueue' = <<>> /\ followUpQueue' = <<>>
      /\ UNCHANGED <<pending, source>>
  BY DEF Reset, loopState, supply
<1>2. /\ Elements(steeringQueue') = {} /\ Elements(followUpQueue') = {}
      /\ Rising(steeringQueue') /\ Rising(followUpQueue')
  BY <1>1, EmptyRises
<1>3. Delivered' = {} /\ DeliveryInOrder'
  BY <1>1 DEF Delivered, DeliveryInOrder
<1> QED
  BY <1>1, <1>2, <1>3 DEF OrderInv, Before, From

(* Messages that are cleared or dropped leave the others in order.         *)
LEMMA OrderDrop ==
  ASSUME OrderInv, UNCHANGED <<messages, source>>,
         steeringQueue' \in {steeringQueue, <<>>}, followUpQueue' \in {followUpQueue, <<>>},
         pending' \in {pending, <<>>}
  PROVE  OrderInv'
<1>1. Delivered' = Delivered /\ (DeliveryInOrder' <=> DeliveryInOrder)
  BY DEF Delivered, DeliveryInOrder
<1>2. /\ Elements(steeringQueue') \subseteq Elements(steeringQueue)
      /\ Elements(followUpQueue') \subseteq Elements(followUpQueue)
      /\ Elements(pending') \subseteq Elements(pending)
  BY EmptyRises
<1>3. Rising(steeringQueue') /\ Rising(followUpQueue') /\ Rising(pending')
  BY EmptyRises DEF OrderInv
<1> QED
  BY <1>1, <1>2, <1>3 DEF OrderInv, Before, From

LEMMA OrderStep == ControlInv /\ AccountInv /\ OrderInv /\ [Next]_vars => OrderInv'
<1> SUFFICES ASSUME ControlInv, AccountInv, OrderInv, [Next]_vars PROVE OrderInv'
  OBVIOUS
<1> USE DEF agentState, queues, modes, loopState, tools, supply, history, runUnchanged
<1>0. TypeOK /\ RunInv
  BY DEF ControlInv
<1>1. CASE Steer
  BY <1>0, <1>1, SteerOrder
<1>2. CASE FollowUp
  BY <1>0, <1>2, FollowUpOrder
<1>3. CASE ClearSteeringQueue
  BY <1>3, OrderDrop DEF ClearSteeringQueue
<1>4. CASE ClearFollowUpQueue
  BY <1>4, OrderDrop DEF ClearFollowUpQueue
<1>5. CASE \E s, f \in Modes : SetMode(s, f)
  <2>1. UNCHANGED <<steeringQueue, followUpQueue, pending, messages, source>>
    BY <1>5 DEF SetMode
  <2> QED
    BY <1>0, <2>1, OrderFrame
<1>6. CASE Abort
  <2>1. UNCHANGED <<steeringQueue, followUpQueue, pending, messages, source>>
    BY <1>6 DEF Abort
  <2> QED
    BY <1>0, <2>1, OrderFrame
<1>7. CASE Reset
  BY <1>7, ResetOrder
<1>8. CASE Prompt
  BY <1>0, <1>8, PromptOrder
<1>9. CASE ContinueFromSteering
  <2>1. pending = <<>>
    BY <1>0, <1>9 DEF ContinueFromSteering, StartRun, RunInv, Injecting, Failing
  <2> QED
    BY <1>0, <1>9, <2>1, OrderDrainSteering DEF ContinueFromSteering, StartRun
<1>10. CASE ContinueFromFollowUp
  <2>1. pending = <<>>
    BY <1>0, <1>10 DEF ContinueFromFollowUp, StartRun, RunInv, Injecting, Failing
  <2> QED
    BY <1>0, <1>10, <2>1, OrderDrainFollowUp DEF ContinueFromFollowUp, StartRun
<1>11. CASE ContinueFromTranscript
  <2>1. pending = <<>>
    BY <1>0, <1>11 DEF ContinueFromTranscript, StartRun, RunInv, Injecting, Failing
  <2> QED
    BY <1>0, <1>11, <2>1, OrderFrame DEF ContinueFromTranscript, StartRun
<1>12. CASE EmitPrompt
  <2>1. UNCHANGED <<steeringQueue, followUpQueue, source>>
    BY <1>12 DEF EmitPrompt
  <2>2. CASE messages' = messages /\ pending' = pending
    BY <1>0, <2>1, <2>2, OrderFrame
  <2>3. CASE messages' = Append(messages, User(Head(pending))) /\ pending' = Tail(pending)
    BY <1>0, <1>12, <2>1, <2>3, OrderInject DEF EmitPrompt
  <2> QED
    BY <1>12, <2>2, <2>3 DEF EmitPrompt
<1>13. CASE EnterLoop
  <2>1. UNCHANGED <<steeringQueue, followUpQueue, pending, messages, source>>
    BY <1>13 DEF EnterLoop
  <2> QED
    BY <1>0, <2>1, OrderFrame
<1>14. CASE PollSteering
  <2>1. pending = <<>>
    BY <1>0, <1>14 DEF PollSteering, RunInv, Injecting, Failing
  <2>2. CASE skipPoll
    BY <1>0, <1>14, <2>1, <2>2, OrderFrame DEF PollSteering
  <2>3. CASE ~skipPoll
    BY <1>0, <1>14, <2>1, <2>3, OrderDrainSteering DEF PollSteering
  <2> QED
    BY <2>2, <2>3
<1>15. CASE InjectPending
  <2>1. UNCHANGED <<steeringQueue, followUpQueue, source>>
    BY <1>15 DEF InjectPending
  <2>2. CASE messages' = messages /\ pending' = pending
    BY <1>0, <2>1, <2>2, OrderFrame
  <2>3. CASE messages' = Append(messages, User(Head(pending))) /\ pending' = Tail(pending)
    BY <1>0, <1>15, <2>1, <2>3, OrderInject DEF InjectPending
  <2> QED
    BY <1>15, <2>2, <2>3 DEF InjectPending
<1>16. CASE TurnReady
  <2>1. UNCHANGED <<steeringQueue, followUpQueue, pending, messages, source>>
    BY <1>16 DEF TurnReady
  <2> QED
    BY <1>0, <2>1, OrderFrame
<1>17. CASE StreamAssistantResponse
  <2>1. UNCHANGED <<steeringQueue, followUpQueue, pending, source>>
    BY <1>17 DEF StreamAssistantResponse
  <2>2. \/ messages' = messages
        \/ \E x : x.role # "user" /\ messages' = Append(messages, x)
    BY <1>17 DEF StreamAssistantResponse, Respond, Assistant
  <2> QED
    BY <1>0, <2>1, <2>2, OrderFrame
<1>18. CASE StartCall
  <2>1. UNCHANGED <<steeringQueue, followUpQueue, pending, messages, source>>
    BY <1>18 DEF StartCall
  <2> QED
    BY <1>0, <2>1, OrderFrame
<1>19. CASE FinishImmediately
  <2>1. UNCHANGED <<steeringQueue, followUpQueue, pending, messages, source>>
    BY <1>19 DEF FinishImmediately
  <2> QED
    BY <1>0, <2>1, OrderFrame
<1>20. CASE PrepareCall
  <2>1. UNCHANGED <<steeringQueue, followUpQueue, pending, messages, source>>
    BY <1>20 DEF PrepareCall
  <2> QED
    BY <1>0, <2>1, OrderFrame
<1>21. CASE NextCall
  <2>1. UNCHANGED <<steeringQueue, followUpQueue, pending, messages, source>>
    BY <1>21 DEF NextCall
  <2> QED
    BY <1>0, <2>1, OrderFrame
<1>22. CASE ReportResult
  <2>1. UNCHANGED <<steeringQueue, followUpQueue, pending, source>>
    BY <1>22 DEF ReportResult
  <2>2. \/ messages' = messages
        \/ \E x : x.role # "user" /\ messages' = Append(messages, x)
    BY <1>22 DEF ReportResult, ToolResult
  <2> QED
    BY <1>0, <2>1, <2>2, OrderFrame
<1>23. CASE TurnEnd
  <2>1. UNCHANGED <<steeringQueue, followUpQueue, pending, messages, source>>
    BY <1>23 DEF TurnEnd
  <2> QED
    BY <1>0, <2>1, OrderFrame
<1>24. CASE ErrorTurnEnd
  <2>1. UNCHANGED <<steeringQueue, followUpQueue, pending, messages, source>>
    BY <1>24 DEF ErrorTurnEnd
  <2> QED
    BY <1>0, <2>1, OrderFrame
<1>25. CASE PollFollowUp
  <2>1. pending = <<>>
    BY <1>0, <1>25 DEF PollFollowUp, RunInv, Injecting, Failing
  <2> QED
    BY <1>0, <1>25, <2>1, OrderDrainFollowUp DEF PollFollowUp
<1>26. CASE AgentEnd
  <2>1. UNCHANGED <<steeringQueue, followUpQueue, pending, messages, source>>
    BY <1>26 DEF AgentEnd
  <2> QED
    BY <1>0, <2>1, OrderFrame
<1>27. CASE FailMessage
  <2>1. UNCHANGED <<steeringQueue, followUpQueue, pending, source>>
    BY <1>27 DEF FailMessage
  <2>2. \/ messages' = messages
        \/ \E x : x.role # "user" /\ messages' = Append(messages, x)
    BY <1>27 DEF FailMessage, Assistant
  <2> QED
    BY <1>0, <2>1, <2>2, OrderFrame
<1>28. CASE FailTurnEnd
  <2>1. UNCHANGED <<steeringQueue, followUpQueue, pending, messages, source>>
    BY <1>28 DEF FailTurnEnd
  <2> QED
    BY <1>0, <2>1, OrderFrame
<1>29. CASE FailAgentEnd
  <2>1. UNCHANGED <<steeringQueue, followUpQueue, pending, messages, source>>
    BY <1>29 DEF FailAgentEnd
  <2> QED
    BY <1>0, <2>1, OrderFrame
<1>30. CASE FinishRun
  BY <1>30, OrderDrop DEF FinishRun
<1>31. CASE \E c \in Calls : FinishCall(c)
  <2>1. UNCHANGED <<steeringQueue, followUpQueue, pending, messages, source>>
    BY <1>31 DEF FinishCall
  <2> QED
    BY <1>0, <2>1, OrderFrame
<1>32. CASE \E c \in Calls : FailCall(c)
  <2>1. UNCHANGED <<steeringQueue, followUpQueue, pending, messages, source>>
    BY <1>32 DEF FailCall
  <2> QED
    BY <1>0, <2>1, OrderFrame
<1>33. CASE \E c \in Calls : FinishOrphan(c)
  <2>1. UNCHANGED <<steeringQueue, followUpQueue, pending, messages, source>>
    BY <1>33 DEF FinishOrphan
  <2> QED
    BY <1>0, <2>1, OrderFrame
<1>34. CASE UNCHANGED vars
  <2>1. UNCHANGED <<steeringQueue, followUpQueue, pending, messages, source>>
    BY <1>34 DEF vars
  <2> QED
    BY <1>0, <2>1, OrderFrame
<1> QED
  BY <1>1, <1>2, <1>3, <1>4, <1>5, <1>6, <1>7, <1>8, <1>9, <1>10, <1>11, <1>12, <1>13, <1>14,
     <1>15, <1>16, <1>17, <1>18, <1>19, <1>20, <1>21, <1>22, <1>23, <1>24, <1>25, <1>26, <1>27,
     <1>28, <1>29, <1>30, <1>31, <1>32, <1>33, <1>34
     DEF Next, Embedder, Loop, Tool

LEMMA InitOrder == Init => OrderInv
<1> SUFFICES ASSUME Init PROVE OrderInv
  OBVIOUS
<1>1. Delivered = {} /\ DeliveryInOrder
  BY DEF Init, Delivered, DeliveryInOrder
<1> QED
  BY <1>1, EmptyRises DEF Init, OrderInv, Before, From

(* The account of the submitted messages holds in every state.              *)
THEOREM AccountInvariant == Spec => []AccountInv
  BY InitAccount, AccountStep, ControlInvariant, PTL DEF Spec

(* Queues, the list being injected and the transcript are in order.         *)
THEOREM OrderInvariant == Spec => []OrderInv
  BY InitOrder, OrderStep, ControlInvariant, AccountInvariant, PTL DEF Spec

-----------------------------------------------------------------------------
(* Follow-ups wait for a stop.  The transcript ends at a stop wherever the *)
(* loop has no more tool calls to answer for, which is where the follow-up *)
(* queue is polled; all messages of one drain have the same source.        *)

StopsAt(m) == m.role # "user" /\ (m.role = "toolResult" => m.id \in terminating)

AtStop == messages = <<>> \/ StopsAt(messages[Len(messages)])

BehindFollowUp ==
  /\ messages # <<>>
  /\ messages[Len(messages)].role = "user"
  /\ source[messages[Len(messages)].id] = "followUp"

BetweenTurns == {"turnEnd", "pollSteering", "pollFollowUp"}

OneSource == \A a, b \in Elements(pending) : source[a] = source[b]

StopInv ==
  /\ pc \in BetweenTurns /\ ~hasMoreToolCalls => AtStop
  /\ pc = "pollFollowUp" => ~hasMoreToolCalls
  /\ pc = "prompts" => hasMoreToolCalls
  /\ OneSource
  /\ pc \in Injecting /\ (\E m \in Elements(pending) : source[m] = "followUp") =>
       AtStop \/ BehindFollowUp
  /\ FollowUpsWaitForStop

(* A submitted message keeps its source, a terminating result its mark.    *)
LEMMA TranscriptKeepsStops ==
  ASSUME StopInv, messages' = messages, terminating \subseteq terminating',
         \A m \in Delivered : source'[m] = source[m],
         TranscriptType
  PROVE  (AtStop => AtStop') /\ (BehindFollowUp => BehindFollowUp') /\ FollowUpsWaitForStop'
<1>1. \A i \in DOMAIN messages : messages[i].role = "user" =>
        source'[messages[i].id] = source[messages[i].id]
  BY DeliveredIds
<1>2. messages # <<>> => Len(messages) \in DOMAIN messages
  BY DEF TranscriptType
<1>3. (AtStop => AtStop') /\ (BehindFollowUp => BehindFollowUp')
  BY <1>1, <1>2 DEF AtStop, StopsAt, BehindFollowUp
<1>4. FollowUpsWaitForStop'
  <2> SUFFICES ASSUME NEW i \in DOMAIN messages, i > 1, messages[i].role = "user",
                      source'[messages[i].id] = "followUp"
               PROVE  /\ messages[i - 1].role = "user" => source'[messages[i - 1].id] = "followUp"
                      /\ messages[i - 1].role = "toolResult" => messages[i - 1].id \in terminating'
    BY DEF FollowUpsWaitForStop
  <2>1. i - 1 \in DOMAIN messages
    BY DEF TranscriptType
  <2> QED
    BY <1>1, <2>1 DEF StopInv, FollowUpsWaitForStop
<1> QED
  BY <1>3, <1>4

(* A step that leaves the transcript and the list of the run alone.        *)
LEMMA StopFrame ==
  ASSUME TypeOK, StopInv, UNCHANGED <<messages, pending>>, terminating \subseteq terminating',
         \A m \in Delivered \cup Elements(pending) : source'[m] = source[m],
         pc' \in BetweenTurns /\ ~hasMoreToolCalls' => pc \in BetweenTurns /\ ~hasMoreToolCalls,
         pc' = "pollFollowUp" => ~hasMoreToolCalls',
         pc' = "prompts" => hasMoreToolCalls',
         pc' \in Injecting /\ pending # <<>> => pc \in Injecting
  PROVE  StopInv'
<1>1. (AtStop => AtStop') /\ (BehindFollowUp => BehindFollowUp') /\ FollowUpsWaitForStop'
  BY TranscriptKeepsStops DEF TypeOK
<1>2. OneSource'
  BY DEF StopInv, OneSource
<1>3. pc' \in Injecting /\ (\E m \in Elements(pending) : source'[m] = "followUp") =>
        AtStop' \/ BehindFollowUp'
  BY <1>1, EmptyRises DEF StopInv
<1> QED
  BY <1>1, <1>2, <1>3 DEF StopInv

(* Messages the model or a tool adds.                                      *)
LEMMA AppendKeepsStops ==
  ASSUME TypeOK, StopInv, NEW x, x.role # "user", messages' = Append(messages, x),
         terminating' = terminating, source' = source
  PROVE  /\ FollowUpsWaitForStop'
         /\ AtStop' <=> (x.role = "toolResult" => x.id \in terminating)
<1>1. /\ DOMAIN messages' = 1..(Len(messages) + 1) /\ Len(messages) \in Nat
      /\ Len(messages') = Len(messages) + 1 /\ messages' # <<>>
      /\ DOMAIN messages = 1..Len(messages)
      /\ \A j \in 1..Len(messages) : messages'[j] = messages[j]
      /\ messages'[Len(messages) + 1] = x
  BY DEF TypeOK, TranscriptType
<1>2. FollowUpsWaitForStop'
  <2> SUFFICES ASSUME NEW i \in 1..(Len(messages) + 1), i > 1, messages'[i].role = "user",
                      source[messages'[i].id] = "followUp"
               PROVE  /\ messages'[i - 1].role = "user" => source[messages'[i - 1].id] = "followUp"
                      /\ messages'[i - 1].role = "toolResult" => messages'[i - 1].id \in terminating
    BY <1>1 DEF FollowUpsWaitForStop
  <2>1. i # Len(messages) + 1
    BY <1>1
  <2>2. i \in 1..Len(messages) /\ i - 1 \in 1..Len(messages)
    BY <1>1, <2>1
  <2>3. messages'[i] = messages[i] /\ messages'[i - 1] = messages[i - 1]
    BY <1>1, <2>2
  <2> QED
    BY <1>1, <2>2, <2>3 DEF StopInv, FollowUpsWaitForStop
<1>3. AtStop' <=> (x.role = "toolResult" => x.id \in terminating)
  BY <1>1 DEF AtStop, StopsAt
<1> QED
  BY <1>2, <1>3

(* Injecting the head of the list.                                         *)
LEMMA StopInject ==
  ASSUME TypeOK, OrderInv, StopInv, pc \in Injecting, pending # <<>>,
         messages' = Append(messages, User(Head(pending))), pending' = Tail(pending),
         UNCHANGED <<terminating, source>>,
         pc' \in {pc, "failMessage"}, hasMoreToolCalls' = hasMoreToolCalls
  PROVE  StopInv'
<1> DEFINE h == Head(pending)
<1>1. pending \in Seq(Ids) /\ h \in Ids
  BY HeadTailType DEF TypeOK, QueueType
<1>2. Elements(pending) = Elements(pending') \cup {h}
  BY <1>1, TailRises DEF OrderInv
<1>3. /\ DOMAIN messages' = 1..(Len(messages) + 1) /\ Len(messages) \in Nat
      /\ Len(messages') = Len(messages) + 1 /\ messages' # <<>>
      /\ DOMAIN messages = 1..Len(messages)
      /\ \A j \in 1..Len(messages) : messages'[j] = messages[j]
      /\ messages'[Len(messages) + 1].role = "user" /\ messages'[Len(messages) + 1].id = h
      /\ messages # <<>> => Len(messages) # 0
  <2>1. User(h).role = "user" /\ User(h).id = h
    BY DEF User
  <2>2. messages \in Seq(Message) /\ messages' = Append(messages, User(h))
    BY DEF TypeOK, TranscriptType
  <2> HIDE DEF h
  <2> QED
    BY <2>1, <2>2
<1> HIDE DEF h
<1>4. source[h] = "followUp" => AtStop \/ BehindFollowUp
  BY <1>2 DEF StopInv
<1>5. FollowUpsWaitForStop'
  <2> SUFFICES ASSUME NEW i \in 1..(Len(messages) + 1), i > 1, messages'[i].role = "user",
                      source[messages'[i].id] = "followUp"
               PROVE  /\ messages'[i - 1].role = "user" => source[messages'[i - 1].id] = "followUp"
                      /\ messages'[i - 1].role = "toolResult" => messages'[i - 1].id \in terminating
    BY <1>3 DEF FollowUpsWaitForStop
  <2>1. CASE i = Len(messages) + 1
    <3>1. i - 1 = Len(messages) /\ Len(messages) \in 1..Len(messages) /\ messages # <<>>
      BY <1>3, <2>1
    <3>2. messages'[i - 1] = messages[Len(messages)] /\ source[h] = "followUp"
      BY <1>3, <2>1, <3>1
    <3> QED
      BY <1>4, <3>1, <3>2 DEF AtStop, StopsAt, BehindFollowUp
  <2>2. CASE i # Len(messages) + 1
    <3>1. i \in 1..Len(messages) /\ i - 1 \in 1..Len(messages)
      BY <1>3, <2>2
    <3>2. messages'[i] = messages[i] /\ messages'[i - 1] = messages[i - 1]
      BY <1>3, <3>1
    <3> QED
      BY <1>3, <3>1, <3>2 DEF StopInv, FollowUpsWaitForStop
  <2> QED
    BY <2>1, <2>2
<1>6. (\E m \in Elements(pending') : source[m] = "followUp") => BehindFollowUp'
  <2>1. \A m \in Elements(pending') : source[m] = source[h]
    BY <1>2 DEF StopInv, OneSource
  <2> QED
    BY <1>3, <2>1 DEF BehindFollowUp
<1>7. OneSource'
  BY <1>2 DEF StopInv, OneSource
<1> QED
  BY <1>5, <1>6, <1>7 DEF StopInv, Injecting, BetweenTurns

LEMMA RespondStop ==
  ASSUME TypeOK, RunInv, StopInv, pc = "llm", NEW stop, NEW n, NEW mode, Respond(stop, n, mode),
         UNCHANGED <<pending, terminating, source>>
  PROVE  StopInv'
<1>1. /\ messages' = Append(messages, Assistant(stop, IssuedCalls(n)))
      /\ pc' \in {"errorTurnEnd", "startCall", "turnEnd", "failMessage"}
  BY DEF Respond, Emit, Throw, ThrowTo
<1>2. Assistant(stop, IssuedCalls(n)).role = "assistant"
  BY DEF Assistant
<1>3. FollowUpsWaitForStop' /\ AtStop'
  BY <1>1, <1>2, AppendKeepsStops
<1> QED
  BY <1>1, <1>3 DEF StopInv, OneSource, Injecting

LEMMA ResultsType ==
  ASSUME ToolType, NEW k \in Nat, k \in 0..Len(batch.calls)
  PROVE  Results(k) \in Seq(Message)
<1>1. \A i \in DOMAIN batch.calls : ToolResult(batch.calls[i]) \in Message
  BY MessageTypes DEF ToolType
<1>2. \A i \in 1..k : i \in DOMAIN batch.calls
  BY DEF ToolType
<1> QED
  BY <1>1, <1>2 DEF Results

(* A batch that ends the inner loop ends in a terminating result.          *)
LEMMA NextCallStop ==
  ASSUME ControlInv, ContextInv, StopInv, NextCall
  PROVE  StopInv'
<1>1. /\ pc = "nextCall" /\ pc \in InBatch /\ TypeOK
      /\ UNCHANGED <<messages, pending, terminating, source>>
  BY DEF NextCall, InBatch, InCall, ControlInv, agentState, runUnchanged, supply
<1>2. CASE pc' \in {"startCall", "report", "await"}
  BY <1>1, <1>2, StopFrame DEF BetweenTurns, Injecting
<1>3. CASE batch.mode # "parallel" /\ ReturnFromBatch /\ pc' = "turnEnd"
  <2>1. /\ batch.reported = batch.next /\ batch.next \in 1..Len(batch.calls)
        /\ messages = context \o Results(batch.reported)
        /\ context \in Seq(Message) /\ batch.calls \in Seq(Calls)
    BY <1>1, <1>3 DEF ControlInv, BatchInv, ContextInv, TypeOK, TranscriptType, ToolType
  <2> DEFINE k == batch.next - 1
  <2>2. /\ k \in Nat /\ k + 1 = batch.next /\ k \in 0..Len(batch.calls)
        /\ batch.next \in DOMAIN batch.calls /\ batch.next \in 1..batch.next
    BY <2>1
  <2> HIDE DEF k
  <2>3. /\ messages = Append(context \o Results(k), ToolResult(batch.calls[batch.next]))
        /\ context \o Results(k) \in Seq(Message)
    <3>1. Results(k) \in Seq(Message)
      BY <1>1, <2>2, ResultsType DEF TypeOK
    <3>2. Append(context \o Results(k), ToolResult(batch.calls[k + 1])) = context \o Results(k + 1)
      BY <1>1, <2>1, <2>2, ResultsGrow DEF TypeOK
    <3> QED
      BY <2>1, <2>2, <3>1, <3>2, ConcatType
  <2>4. messages # <<>> /\ messages[Len(messages)] = ToolResult(batch.calls[batch.next])
    BY <2>3
  <2>5. hasMoreToolCalls' \/ batch.calls[batch.next] \in terminating
    <3>1. batch.calls[batch.next] \in Finalized
      BY <2>2 DEF Finalized
    <3>2. hasMoreToolCalls' \/ Finalized \subseteq terminating
      BY <1>3 DEF ReturnFromBatch
    <3> QED
      BY <3>1, <3>2
  <2>6. ToolResult(batch.calls[batch.next]).role = "toolResult"
        /\ ToolResult(batch.calls[batch.next]).id = batch.calls[batch.next]
    BY DEF ToolResult
  <2>7. hasMoreToolCalls' \/ AtStop
    BY <2>4, <2>5, <2>6 DEF AtStop, StopsAt
  <2>8. (AtStop => AtStop') /\ FollowUpsWaitForStop'
    BY <1>1, TranscriptKeepsStops DEF TypeOK
  <2> QED
    BY <1>1, <1>3, <2>7, <2>8 DEF StopInv, OneSource, Injecting
<1> QED
  BY <1>2, <1>3 DEF NextCall

LEMMA ReportResultStop ==
  ASSUME ControlInv, StopInv, ReportResult
  PROVE  StopInv'
<1> DEFINE k == batch.reported
           c == batch.calls[k + 1]
           x == ToolResult(c)
           parallel == batch.mode = "parallel"
<1>1. /\ pc = "report" /\ pc \in InBatch /\ TypeOK
      /\ UNCHANGED <<pending, terminating, source>>
  BY DEF ReportResult, InBatch, InCall, ControlInv, runUnchanged, supply
<1>2. CASE Throw /\ messages' = messages
  BY <1>1, <1>2, StopFrame DEF Throw, ThrowTo, BetweenTurns, Injecting
<1>3. CASE /\ messages' = Append(messages, x)
           /\ IF parallel /\ k + 1 = batch.next THEN ReturnFromBatch
              ELSE UNCHANGED <<context, hasMoreToolCalls>>
           /\ Emit(IF ~parallel THEN "nextCall"
                   ELSE IF k + 1 = batch.next THEN "turnEnd" ELSE "report")
  <2>1. x.role = "toolResult" /\ x.id = c
    BY DEF ToolResult
  <2>2. /\ pc' \in {"nextCall", "turnEnd", "report", "failMessage"}
        /\ pc' = "turnEnd" => parallel /\ k + 1 = batch.next
    BY <1>3 DEF Emit, Throw, ThrowTo
  <2> HIDE DEF x
  <2>3. FollowUpsWaitForStop' /\ (AtStop' <=> c \in terminating)
    BY <1>1, <1>3, <2>1, AppendKeepsStops
  <2>4. pc' = "turnEnd" => hasMoreToolCalls' \/ c \in terminating
    <3>1. batch.next \in 1..batch.next
      BY <1>1 DEF ControlInv, BatchInv
    <3> QED
      BY <1>3, <2>2, <3>1 DEF ReturnFromBatch, Finalized
  <2> QED
    BY <1>1, <2>2, <2>3, <2>4 DEF StopInv, OneSource, Injecting, BetweenTurns
<1> QED
  BY <1>2, <1>3 DEF ReportResult

(* A drain takes messages of one queue, hence of one source.               *)
LEMMA StopDrainSteering ==
  ASSUME TypeOK, OrderInv, StopInv, UNCHANGED <<messages, terminating, source>>,
         pending' \in {<<>>, Drained(steeringQueue, steeringMode)},
         pc' = "prompts" => hasMoreToolCalls',
         pc' = "pollFollowUp" => AtStop /\ ~hasMoreToolCalls',
         pc' \in {"prompts", "turn", "pollFollowUp"}
  PROVE  StopInv'
<1>1. (AtStop => AtStop') /\ FollowUpsWaitForStop'
  BY TranscriptKeepsStops DEF TypeOK
<1>2. Elements(pending') \subseteq Elements(steeringQueue)
  BY DrainRises, EmptyRises DEF TypeOK, QueueType, OrderInv
<1>3. \A m \in Elements(pending') : source[m] = "steer"
  BY <1>2 DEF OrderInv, From
<1> QED
  BY <1>1, <1>3 DEF StopInv, OneSource, BetweenTurns

LEMMA StopDrainFollowUp ==
  ASSUME TypeOK, OrderInv, StopInv, UNCHANGED <<messages, terminating, source>>,
         pending' = Drained(followUpQueue, followUpMode),
         AtStop, hasMoreToolCalls', pc' \in {"prompts", "turn", "agentEnd"}
  PROVE  StopInv'
<1>1. AtStop' /\ FollowUpsWaitForStop'
  BY TranscriptKeepsStops DEF TypeOK
<1>2. Elements(pending') \subseteq Elements(followUpQueue)
  BY DrainRises DEF TypeOK, QueueType, OrderInv
<1>3. \A m \in Elements(pending') : source[m] = "followUp"
  BY <1>2 DEF OrderInv, From
<1> QED
  BY <1>1, <1>3 DEF StopInv, OneSource, BetweenTurns

LEMMA PromptStop ==
  ASSUME TypeOK, RunInv, AccountInv, OrderInv, StopInv, Prompt
  PROVE  StopInv'
<1>1. "prompt" \in Sources
  BY DEF Sources
<1>2. /\ source'[nextMessage] = "prompt"
      /\ \A m \in Delivered : source'[m] = source[m]
  BY <1>1, SubmitOrder DEF Prompt
<1>3. /\ pending' = <<nextMessage>> /\ pc' = "prompts" /\ hasMoreToolCalls'
      /\ UNCHANGED <<messages, terminating>>
  BY DEF Prompt, StartRun, tools
<1>4. Elements(pending') = {nextMessage}
  BY <1>3, SingletonRises
<1>5. FollowUpsWaitForStop'
  BY <1>2, <1>3, TranscriptKeepsStops DEF TypeOK
<1> QED
  BY <1>2, <1>3, <1>4, <1>5 DEF StopInv, OneSource, BetweenTurns

LEMMA StopStep ==
  ControlInv /\ AccountInv /\ ContextInv /\ OrderInv /\ StopInv /\ [Next]_vars => StopInv'
<1> SUFFICES ASSUME ControlInv, AccountInv, ContextInv, OrderInv, StopInv, [Next]_vars
             PROVE  StopInv'
  OBVIOUS
<1> USE DEF agentState, queues, modes, loopState, tools, supply, history, runUnchanged
<1>0. TypeOK /\ RunInv
  BY DEF ControlInv
<1>1. CASE Steer
  <2>1. "steer" \in Sources
    BY DEF Sources
  <2>2. \A m \in Delivered \cup Elements(pending) : source'[m] = source[m]
    BY <1>0, <1>1, <2>1, SubmitOrder DEF Steer
  <2> QED
    BY <1>0, <1>1, <2>2, StopFrame DEF Steer, StopInv
<1>2. CASE FollowUp
  <2>1. "followUp" \in Sources
    BY DEF Sources
  <2>2. \A m \in Delivered \cup Elements(pending) : source'[m] = source[m]
    BY <1>0, <1>2, <2>1, SubmitOrder DEF FollowUp
  <2> QED
    BY <1>0, <1>2, <2>2, StopFrame DEF FollowUp, StopInv
<1>3. CASE ClearSteeringQueue
  <2>1. UNCHANGED <<messages, pending, source, pc, hasMoreToolCalls>>
        /\ terminating \subseteq terminating'
    BY <1>3 DEF ClearSteeringQueue
  <2> QED
    BY <1>0, <2>1, StopFrame DEF StopInv
<1>4. CASE ClearFollowUpQueue
  <2>1. UNCHANGED <<messages, pending, source, pc, hasMoreToolCalls>>
        /\ terminating \subseteq terminating'
    BY <1>4 DEF ClearFollowUpQueue
  <2> QED
    BY <1>0, <2>1, StopFrame DEF StopInv
<1>5. CASE \E s, f \in Modes : SetMode(s, f)
  <2>1. UNCHANGED <<messages, pending, source, pc, hasMoreToolCalls>>
        /\ terminating \subseteq terminating'
    BY <1>5 DEF SetMode
  <2> QED
    BY <1>0, <2>1, StopFrame DEF StopInv
<1>6. CASE Abort
  <2>1. UNCHANGED <<messages, pending, source, pc, hasMoreToolCalls>>
        /\ terminating \subseteq terminating'
    BY <1>6 DEF Abort
  <2> QED
    BY <1>0, <2>1, StopFrame DEF StopInv
<1>7. CASE Reset
  <2>1. messages' = <<>> /\ pc = "idle" /\ UNCHANGED <<pc, pending, source>>
    BY <1>0, <1>7 DEF Reset, RunInv
  <2>2. FollowUpsWaitForStop'
    BY <2>1 DEF FollowUpsWaitForStop
  <2> QED
    BY <2>1, <2>2 DEF StopInv, OneSource, BetweenTurns, Injecting
<1>8. CASE Prompt
  BY <1>0, <1>8, PromptStop
<1>9. CASE ContinueFromSteering
  <2>1. /\ UNCHANGED <<messages, terminating, source>> /\ pc' = "prompts" /\ hasMoreToolCalls'
        /\ pending' = Drained(steeringQueue, steeringMode)
    BY <1>9 DEF ContinueFromSteering, StartRun
  <2> QED
    BY <1>0, <2>1, StopDrainSteering
<1>10. CASE ContinueFromFollowUp
  <2>1. /\ UNCHANGED <<messages, terminating, source>> /\ pc' = "prompts" /\ hasMoreToolCalls'
        /\ pending' = Drained(followUpQueue, followUpMode)
    BY <1>10 DEF ContinueFromFollowUp, StartRun
  <2>2. AtStop
    BY <1>10 DEF ContinueFromFollowUp, LastIsAssistant, AtStop, StopsAt
  <2> QED
    BY <1>0, <2>1, <2>2, StopDrainFollowUp
<1>11. CASE ContinueFromTranscript
  <2>1. /\ UNCHANGED <<messages, terminating, source>> /\ pc' = "prompts" /\ hasMoreToolCalls'
        /\ pending' = <<>>
    BY <1>11 DEF ContinueFromTranscript, StartRun
  <2> QED
    BY <1>0, <2>1, StopDrainSteering
<1>12. CASE EmitPrompt
  <2>1. /\ pc \in Injecting /\ pending # <<>> /\ pc' \in {pc, "failMessage"}
        /\ UNCHANGED <<terminating, source, hasMoreToolCalls>>
    BY <1>12 DEF EmitPrompt, Emit, Throw, ThrowTo, Injecting
  <2>2. CASE messages' = messages /\ pending' = pending
    BY <1>0, <2>1, <2>2, StopFrame DEF StopInv, BetweenTurns, Injecting
  <2>3. CASE messages' = Append(messages, User(Head(pending))) /\ pending' = Tail(pending)
    BY <1>0, <2>1, <2>3, StopInject
  <2> QED
    BY <1>12, <2>2, <2>3 DEF EmitPrompt
<1>13. CASE EnterLoop
  <2>1. UNCHANGED <<messages, pending, source>> /\ terminating \subseteq terminating'
    BY <1>13 DEF EnterLoop
  <2> QED
    BY <1>0, <1>13, <2>1, StopFrame DEF EnterLoop, Emit, Throw, ThrowTo, StopInv, BetweenTurns, Injecting
<1>14. CASE PollSteering
  <2>1. /\ UNCHANGED <<messages, terminating, source, hasMoreToolCalls>>
        /\ pending' \in {<<>>, Drained(steeringQueue, steeringMode)}
        /\ pc' \in {"turn", "pollFollowUp"}
        /\ pc' = "pollFollowUp" => ~hasMoreToolCalls
    BY <1>14 DEF PollSteering
  <2>2. ~hasMoreToolCalls => AtStop
    BY <1>14 DEF PollSteering, StopInv, BetweenTurns
  <2> QED
    BY <1>0, <2>1, <2>2, StopDrainSteering
<1>15. CASE InjectPending
  <2>1. /\ pc \in Injecting /\ pending # <<>> /\ pc' \in {pc, "failMessage"}
        /\ UNCHANGED <<terminating, source, hasMoreToolCalls>>
    BY <1>15 DEF InjectPending, Emit, Throw, ThrowTo, Injecting
  <2>2. CASE messages' = messages /\ pending' = pending
    BY <1>0, <2>1, <2>2, StopFrame DEF StopInv, BetweenTurns, Injecting
  <2>3. CASE messages' = Append(messages, User(Head(pending))) /\ pending' = Tail(pending)
    BY <1>0, <2>1, <2>3, StopInject
  <2> QED
    BY <1>15, <2>2, <2>3 DEF InjectPending
<1>16. CASE TurnReady
  <2>1. UNCHANGED <<messages, pending, source>> /\ terminating \subseteq terminating'
    BY <1>16 DEF TurnReady
  <2> QED
    BY <1>0, <1>16, <2>1, StopFrame DEF TurnReady, Emit, Throw, ThrowTo, StopInv, BetweenTurns, Injecting
<1>17. CASE StreamAssistantResponse
  <2>1. pc = "llm" /\ UNCHANGED <<pending, terminating, source>>
    BY <1>17 DEF StreamAssistantResponse
  <2>2. ASSUME NEW stop \in StopReasons \ {"none"}, NEW n \in 0..MaxBatch,
               NEW mode \in {"sequential", "parallel"}, Respond(stop, n, mode)
        PROVE  StopInv'
    BY <1>0, <2>1, <2>2, RespondStop
  <2>3. CASE Throw /\ messages' = messages
    BY <1>0, <2>1, <2>3, StopFrame DEF Throw, ThrowTo, BetweenTurns, Injecting
  <2> QED
    BY <1>17, <2>2, <2>3 DEF StreamAssistantResponse
<1>18. CASE StartCall
  <2>1. UNCHANGED <<messages, pending, source>> /\ terminating \subseteq terminating'
    BY <1>18 DEF StartCall
  <2> QED
    BY <1>0, <1>18, <2>1, StopFrame DEF StartCall, Emit, Throw, ThrowTo, StopInv, BetweenTurns, Injecting
<1>19. CASE FinishImmediately
  <2>1. UNCHANGED <<messages, pending, source>> /\ terminating \subseteq terminating'
    BY <1>19 DEF FinishImmediately
  <2> QED
    BY <1>0, <1>19, <2>1, StopFrame DEF FinishImmediately, Emit, Throw, ThrowTo, StopInv, BetweenTurns, Injecting
<1>20. CASE PrepareCall
  <2>1. UNCHANGED <<messages, pending, source>> /\ terminating \subseteq terminating'
    BY <1>20 DEF PrepareCall
  <2> QED
    BY <1>0, <1>20, <2>1, StopFrame DEF PrepareCall, Emit, Throw, ThrowTo, StopInv, BetweenTurns, Injecting
<1>21. CASE NextCall
  BY <1>21, NextCallStop
<1>22. CASE ReportResult
  BY <1>22, ReportResultStop
<1>23. CASE TurnEnd
  <2>1. UNCHANGED <<messages, pending, source>> /\ terminating \subseteq terminating'
    BY <1>23 DEF TurnEnd
  <2> QED
    BY <1>0, <1>23, <2>1, StopFrame DEF TurnEnd, Emit, Throw, ThrowTo, StopInv, BetweenTurns, Injecting
<1>24. CASE ErrorTurnEnd
  <2>1. UNCHANGED <<messages, pending, source>> /\ terminating \subseteq terminating'
    BY <1>24 DEF ErrorTurnEnd
  <2> QED
    BY <1>0, <1>24, <2>1, StopFrame DEF ErrorTurnEnd, Emit, Throw, ThrowTo, StopInv, BetweenTurns, Injecting
<1>25. CASE PollFollowUp
  <2>1. /\ UNCHANGED <<messages, terminating, source>> /\ hasMoreToolCalls'
        /\ pending' = Drained(followUpQueue, followUpMode) /\ pc' \in {"turn", "agentEnd"}
    BY <1>25 DEF PollFollowUp
  <2>2. AtStop
    BY <1>25 DEF PollFollowUp, StopInv, BetweenTurns
  <2> QED
    BY <1>0, <2>1, <2>2, StopDrainFollowUp
<1>26. CASE AgentEnd
  <2>1. UNCHANGED <<messages, pending, source>> /\ terminating \subseteq terminating'
    BY <1>26 DEF AgentEnd
  <2> QED
    BY <1>0, <1>26, <2>1, StopFrame DEF AgentEnd, Emit, Throw, ThrowTo, StopInv, BetweenTurns, Injecting
<1>27. CASE FailMessage
  <2>1. /\ UNCHANGED <<pending, terminating, source>>
        /\ pc' \in {"failTurnEnd", "finish"}
    BY <1>27 DEF FailMessage, ThrowTo
  <2>2. CASE messages' = messages
    BY <1>0, <2>1, <2>2, StopFrame DEF BetweenTurns, Injecting
  <2>3. CASE \E x : x.role # "user" /\ messages' = Append(messages, x)
    <3>1. FollowUpsWaitForStop'
      BY <1>0, <2>1, <2>3, AppendKeepsStops
    <3> QED
      BY <2>1, <3>1 DEF StopInv, OneSource, BetweenTurns, Injecting
  <2> QED
    BY <1>27, <2>2, <2>3 DEF FailMessage, Assistant
<1>28. CASE FailTurnEnd
  <2>1. UNCHANGED <<messages, pending, source>> /\ terminating \subseteq terminating'
    BY <1>28 DEF FailTurnEnd
  <2> QED
    BY <1>0, <1>28, <2>1, StopFrame DEF FailTurnEnd, Emit, Throw, ThrowTo, StopInv, BetweenTurns, Injecting
<1>29. CASE FailAgentEnd
  <2>1. UNCHANGED <<messages, pending, source>> /\ terminating \subseteq terminating'
    BY <1>29 DEF FailAgentEnd
  <2> QED
    BY <1>0, <1>29, <2>1, StopFrame DEF FailAgentEnd, Emit, Throw, ThrowTo, StopInv, BetweenTurns, Injecting
<1>30. CASE FinishRun
  <2>1. /\ UNCHANGED <<messages, terminating, source>> /\ pending' = <<>> /\ pc' = "idle"
    BY <1>30 DEF FinishRun
  <2>2. FollowUpsWaitForStop'
    BY <1>0, <2>1, TranscriptKeepsStops DEF TypeOK
  <2> QED
    BY <2>1, <2>2, EmptyRises DEF StopInv, OneSource, BetweenTurns, Injecting
<1>31. CASE \E c \in Calls : FinishCall(c)
  <2>1. UNCHANGED <<messages, pending, source>> /\ terminating \subseteq terminating'
    BY <1>31 DEF FinishCall
  <2> QED
    BY <1>0, <1>31, <2>1, StopFrame DEF FinishCall, Emit, Throw, ThrowTo, StopInv, BetweenTurns, Injecting
<1>32. CASE \E c \in Calls : FailCall(c)
  <2>1. UNCHANGED <<messages, pending, source>> /\ terminating \subseteq terminating'
    BY <1>32 DEF FailCall
  <2> QED
    BY <1>0, <1>32, <2>1, StopFrame DEF FailCall, Emit, Throw, ThrowTo, StopInv, BetweenTurns, Injecting
<1>33. CASE \E c \in Calls : FinishOrphan(c)
  <2>1. UNCHANGED <<messages, pending, source, pc, hasMoreToolCalls>>
        /\ terminating \subseteq terminating'
    BY <1>33 DEF FinishOrphan
  <2> QED
    BY <1>0, <2>1, StopFrame DEF StopInv
<1>34. CASE UNCHANGED vars
  <2>1. UNCHANGED <<messages, pending, source, pc, hasMoreToolCalls>>
        /\ terminating \subseteq terminating'
    BY <1>34 DEF vars
  <2> QED
    BY <1>0, <2>1, StopFrame DEF StopInv
<1> QED
  BY <1>1, <1>2, <1>3, <1>4, <1>5, <1>6, <1>7, <1>8, <1>9, <1>10, <1>11, <1>12, <1>13, <1>14,
     <1>15, <1>16, <1>17, <1>18, <1>19, <1>20, <1>21, <1>22, <1>23, <1>24, <1>25, <1>26, <1>27,
     <1>28, <1>29, <1>30, <1>31, <1>32, <1>33, <1>34
     DEF Next, Embedder, Loop, Tool

LEMMA InitStop == Init => StopInv
  BY EmptyRises DEF Init, StopInv, OneSource, FollowUpsWaitForStop, BetweenTurns, Injecting

(* Where the loop has nothing to answer for, the transcript ends at a stop.  *)
THEOREM StopInvariant == Spec => []StopInv
<1>1. ControlInv /\ AccountInv /\ ContextInv /\ OrderInv /\ StopInv /\ [Next]_vars => StopInv'
  BY StopStep
<1> QED
  BY <1>1, InitStop, ControlInvariant, AccountInvariant, ContextInvariant, OrderInvariant, PTL
     DEF Spec

(* Queued messages are delivered in the order of their queue, follow-ups    *)
(* only where the agent would have stopped.                                 *)
THEOREM QueueOrderAlways == Spec => []QueueOrder
<1>1. OrderInv /\ StopInv => QueueOrder
  BY DEF OrderInv, StopInv, QueueOrder
<1> QED
  BY <1>1, OrderInvariant, StopInvariant, PTL

=============================================================================
