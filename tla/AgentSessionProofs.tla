-------------------------- MODULE AgentSessionProofs --------------------------
(***************************************************************************)
(* Proofs about agent-session.ts, for any number of prompts, retries,      *)
(* messages, events and memory runs: what isIdle says, that no message is  *)
(* left in the queues when the session settles, that the transcript stays   *)
(* one that agent.continue and a provider accept; and what session memory   *)
(* writes and leaves to the agent while its runs overlap, the user moves   *)
(* between branches and the session is compacted.                          *)
(***************************************************************************)
EXTENDS MCSessionMemory, TLAPS

-----------------------------------------------------------------------------
(* The inductive invariant.  As long as no prompt went past a stale check, *)
(* one call at most is in the loop, the run is that call's, and behind a    *)
(* run there is a response to look at.                                     *)

LoopType ==
  /\ active \in BOOLEAN /\ overlap \in BOOLEAN
  /\ pc \in [Calls -> CallStages]
  /\ why \in [Calls -> {"prompt", "retry", "threshold"}]
  /\ run \in 0..MaxPrompts

OneLoop == \A c, d \in Calls : InLoop(c) /\ (InLoop(d) \/ Admitted(d)) => c = d

ActiveIsLoop == active <=> \E c \in Calls : InLoop(c)

RunOfLoop ==
  /\ run = 0 <=> phase = "none"
  /\ run # 0 => pc[run] = "run"
  /\ \A c \in Calls : pc[c] = "run" => run = c

Responded ==
  /\ phase \in {"tools", "stopped", "ending"} => last # "none"
  /\ \A c \in Calls : pc[c] = "post" => last # "none"

ManualAlone == manual \in CompactionStages => ~active

LoopSound == OneLoop /\ ActiveIsLoop /\ RunOfLoop /\ Responded /\ ManualAlone

LoopInv == LoopType /\ (~overlap => LoopSound)

-----------------------------------------------------------------------------
(* The steps of a call, by what they do to the loop.                       *)

(* Nobody but call c moves.                                                *)
Moves(c) ==
  /\ pc' \in [Calls -> CallStages] /\ why' \in [Calls -> {"prompt", "retry", "threshold"}]
  /\ \A d \in Calls \ {c} : pc'[d] = pc[d] /\ why'[d] = why[d]

(* A run of c begins, none was under way.                                  *)
Resumes(c) ==
  /\ run = 0 /\ run' = c /\ phase' \in {"poll", "turn"} /\ active' = active
  /\ pc'[c] = "run"

(* The session settles: with empty queues, because agent.continue has      *)
(* thrown, or because there is no response to look at.                     *)
Finishes(c) ==
  /\ run' = run /\ phase' = phase /\ active' = FALSE
  /\ pc'[c] = "settled"
  /\ \/ run # 0 \/ refused' \/ ~(steering' + followUps' > 0)
     \/ pc[c] = "post" /\ last = "none"

(* A retry delay or a stage of a compaction.                               *)
Waits(c) ==
  /\ run' = run /\ phase' = phase /\ active' = active
  /\ pc'[c] # "run" /\ pc'[c] # "post" /\ InLoop(c)'

StepInLoop(c) ==
  /\ Moves(c) /\ InLoop(c) /\ pc[c] # "run"
  /\ last' = last \/ pc[c] = "post"
  /\ manual' = manual /\ overlap' = overlap
  /\ Resumes(c) \/ Finishes(c) \/ Waits(c)

StepOutside(c) ==
  /\ Moves(c) /\ ~InLoop(c) /\ ~InLoop(c)'
  /\ Admitted(c)' => Admitted(c) \/ ~active
  /\ run' = run /\ phase' = phase /\ active' = active /\ last' = last /\ overlap' = overlap
  /\ manual' \in CompactionStages => manual \in CompactionStages \/ ~active

LEMMA GoesMoves ==
  ASSUME LoopType, NEW c \in Calls, NEW s \in CallStages, Goes(c, s)
  PROVE  Moves(c) /\ pc'[c] = s /\ why'[c] \in {why[c], "prompt"}
         /\ (s \in CompactionStages => why'[c] = why[c])
  BY DEF LoopType, Goes, Moves

LEMMA BeginsMoves ==
  ASSUME LoopType, NEW c \in Calls, NEW r \in {"prompt", "retry", "threshold"},
         BeginsCompaction(c, r)
  PROVE  Moves(c) /\ pc'[c] = "memory" /\ why'[c] = r
  BY DEF LoopType, BeginsCompaction, Moves, CallStages, CompactionStages

LEMMA ContinuesKind ==
  ASSUME LoopType, NEW c \in Calls, NEW m, Continues(c, m)
  PROVE  Moves(c) /\ (Resumes(c) \/ Finishes(c))
<1>1. ASSUME NEW s \in {"poll", "turn"}, run = 0, StartsRun(c, s), active' = active
      PROVE  Moves(c) /\ Resumes(c)
  BY <1>1, GoesMoves DEF StartsRun, Resumes, CallStages
<1>2. ASSUME Settles(c, m), UNCHANGED runVars, run # 0 \/ refused'
      PROVE  Moves(c) /\ Finishes(c)
  BY <1>2, GoesMoves DEF Settles, Finishes, CallStages, runVars
<1> QED
  BY <1>1, <1>2 DEF Continues

LEMMA ReturnsKind ==
  ASSUME LoopType, NEW c \in Calls, NEW m, Returns(c, m, FALSE)
  PROVE  Moves(c) /\ (Resumes(c) \/ Finishes(c))
<1>1. CASE steering + followUps > 0
  BY <1>1, ContinuesKind DEF Returns
<1>2. CASE ~(steering + followUps > 0)
  <2>1. Settles(c, m) /\ UNCHANGED runVars /\ UNCHANGED queueVars
    BY <1>2 DEF Returns
  <2> QED
    BY <1>2, <2>1, GoesMoves DEF Settles, Finishes, CallStages, runVars, queueVars
<1> QED
  BY <1>1, <1>2

(* A compaction that is given up before a prompt leaves the call outside.  *)
LEMMA GivesUpKind ==
  ASSUME LoopType, NEW c \in Calls, NEW m, GivesUp(c, m), pc[c] \in CompactionStages,
         last' = last, manual' = manual, overlap' = overlap
  PROVE  StepInLoop(c) \/ StepOutside(c)
<1>1. CASE why[c] = "prompt"
  <2>1. Goes(c, "start") /\ UNCHANGED <<active, runVars>>
    BY <1>1 DEF GivesUp
  <2>2. Moves(c) /\ pc'[c] = "start"
    BY <2>1, GoesMoves DEF CallStages
  <2>3. ~InLoop(c) /\ ~InLoop(c)' /\ Admitted(c)
    BY <1>1, <2>2 DEF InLoop, Admitted, CompactionStages
  <2> QED
    BY <2>1, <2>2, <2>3 DEF StepOutside, runVars
<1>2. CASE why[c] # "prompt"
  <2>1. InLoop(c) /\ pc[c] # "run"
    BY <1>2 DEF InLoop, CompactionStages
  <2>2. Moves(c) /\ (Resumes(c) \/ Finishes(c))
    BY <1>2, ReturnsKind DEF GivesUp
  <2> QED
    BY <2>1, <2>2 DEF StepInLoop
<1> QED
  BY <1>1, <1>2

(* A compaction that goes on to its next stage.                            *)
LEMMA NextStageKind ==
  ASSUME LoopType, NEW c \in Calls, NEW s \in CompactionStages, Goes(c, s),
         pc[c] \in CompactionStages, UNCHANGED <<active, runVars>>,
         last' = last, manual' = manual, overlap' = overlap
  PROVE  StepInLoop(c) \/ StepOutside(c)
<1>1. Moves(c) /\ pc'[c] = s /\ why'[c] = why[c]
  BY GoesMoves DEF CallStages
<1>2. CASE why[c] = "prompt"
  BY <1>1, <1>2 DEF StepOutside, InLoop, Admitted, CompactionStages, runVars
<1>3. CASE why[c] # "prompt"
  BY <1>1, <1>3 DEF StepInLoop, Waits, InLoop, CompactionStages, runVars
<1> QED
  BY <1>2, <1>3

(* A compaction that begins behind a run.                                  *)
LEMMA BeginCompactionKind ==
  ASSUME LoopType, NEW c \in Calls, NEW o, BeginCompactionOf(c, o),
         InLoop(c), pc[c] # "run", last' = last \/ pc[c] = "post",
         manual' = manual, overlap' = overlap
  PROVE  StepInLoop(c)
<1>1. PICK r \in {"retry", "threshold"} : BeginsCompaction(c, r)
  BY DEF BeginCompactionOf, BeginOverflowRecovery, BeginThresholdCompaction
<1>2. Moves(c) /\ pc'[c] = "memory" /\ why'[c] = r
  BY <1>1, BeginsMoves
<1>3. InLoop(c)'
  BY <1>2 DEF InLoop, CompactionStages
<1> QED
  BY <1>2, <1>3 DEF BeginCompactionOf, StepInLoop, Waits, runVars

LEMMA PostRunKind ==
  ASSUME LoopType, NEW c \in Calls, PostRun(c)
  PROVE  StepInLoop(c)
<1>1. pc[c] = "post" /\ InLoop(c) /\ manual' = manual /\ overlap' = overlap
  BY DEF PostRun, PostRest, InLoop
<1>2. CASE PrepareRetry(c)
  <2>1. Moves(c) /\ pc'[c] = "retry"
    BY <1>2, GoesMoves DEF PrepareRetry, CallStages
  <2> QED
    BY <1>1, <1>2, <2>1 DEF PrepareRetry, StepInLoop, Waits, InLoop, runVars
<1>3. CASE BeginCompactionOf(c, last)
  BY <1>1, <1>3, BeginCompactionKind
<1>4. CASE Returns(c, shown, FALSE)
  BY <1>1, <1>4, ReturnsKind DEF StepInLoop
<1>5. CASE last = "none" /\ Settles(c, shown) /\ UNCHANGED runVars
  <2>1. Moves(c) /\ pc'[c] = "settled"
    BY <1>5, GoesMoves DEF Settles, CallStages
  <2> QED
    BY <1>1, <1>5, <2>1 DEF Settles, Finishes, StepInLoop, runVars
<1> QED
  BY <1>2, <1>3, <1>4, <1>5 DEF PostRun

(* Every step of a call is one of these, or its run begins.                *)
LEMMA LoopStepKind ==
  ASSUME LoopType, NEW c \in Calls, LoopStep(c) \/ Submit(c), ~RunAgentPrompt(c)
  PROVE  StepInLoop(c) \/ StepOutside(c)
<1>1. CASE Submit(c)
  <2>1. Moves(c) /\ pc'[c] = "input"
    BY <1>1, GoesMoves DEF Submit, CallStages
  <2> QED
    BY <1>1, <2>1 DEF Submit, StepOutside, InLoop, Admitted, CompactionStages,
                      runVars, retryVars, historyVars
<1>2. CASE Queue(c)
  <2>1. Moves(c) /\ pc'[c] = "done"
    BY <1>2, GoesMoves DEF Queue, CallStages
  <2> QED
    BY <1>2, <2>1 DEF Queue, StepOutside, InLoop, Admitted, CompactionStages,
                      runVars, retryVars
<1>3. CASE Admit(c)
  <2>1. Moves(c) /\ pc'[c] = "preflight"
    BY <1>3, GoesMoves DEF Admit, CallStages
  <2> QED
    BY <1>3, <2>1 DEF Admit, StepOutside, InLoop, CompactionStages,
                      runVars, retryVars, historyVars
<1>4. CASE Reject(c)
  <2>1. Moves(c) /\ pc'[c] = "done"
    BY <1>4, GoesMoves DEF Reject, CallStages
  <2> QED
    BY <1>4, <2>1 DEF Reject, StepOutside, InLoop, Admitted, CompactionStages,
                      runVars, retryVars, historyVars
<1>5. CASE CheckBeforePrompt(c)
  <2>1. pc[c] = "preflight" /\ UNCHANGED <<active, runVars, last, manual, overlap>>
    BY <1>5 DEF CheckBeforePrompt
  <2>2. CASE Goes(c, "start")
    <3>1. Moves(c) /\ pc'[c] = "start"
      BY <2>2, GoesMoves DEF CallStages
    <3> QED
      BY <2>1, <3>1 DEF StepOutside, InLoop, Admitted, CompactionStages, runVars
  <2>3. CASE BeginsCompaction(c, "prompt")
    <3>1. Moves(c) /\ pc'[c] = "memory" /\ why'[c] = "prompt"
      BY <2>3, BeginsMoves
    <3> QED
      BY <2>1, <3>1 DEF StepOutside, InLoop, Admitted, CompactionStages, runVars
  <2> QED
    BY <1>5, <2>2, <2>3 DEF CheckBeforePrompt
<1>6. CASE PostRun(c)
  BY <1>6, PostRunKind
<1>7. CASE RetryElapsed(c)
  <2>1. InLoop(c) /\ pc[c] # "run" /\ UNCHANGED <<last, manual, overlap>>
    BY <1>7 DEF RetryElapsed, PostRest, InLoop
  <2> QED
    BY <1>7, <2>1, ContinuesKind DEF RetryElapsed, StepInLoop
<1>8. CASE RetryCancelled(c)
  <2>1. InLoop(c) /\ pc[c] # "run" /\ UNCHANGED <<last, manual, overlap>>
    BY <1>8 DEF RetryCancelled, InLoop
  <2>2. CASE BeginCompactionOf(c, "error")
    BY <2>1, <2>2, BeginCompactionKind
  <2>3. CASE Returns(c, shown, FALSE)
    BY <2>1, <2>3, ReturnsKind DEF StepInLoop
  <2> QED
    BY <1>8, <2>2, <2>3 DEF RetryCancelled
<1>9. CASE CompactionMemory(c)
  <2>1. pc[c] \in CompactionStages /\ UNCHANGED <<last, manual, overlap>>
    BY <1>9 DEF CompactionMemory, CompactionRest, CompactionStages
  <2>2. ASSUME NEW m, GivesUp(c, m) PROVE StepInLoop(c) \/ StepOutside(c)
    BY <2>1, <2>2, GivesUpKind
  <2>3. CASE Goes(c, "hook") /\ UNCHANGED <<active, runVars>>
    BY <2>1, <2>3, NextStageKind DEF CompactionStages
  <2> QED
    BY <1>9, <2>2, <2>3 DEF CompactionMemory
<1>10. CASE CompactionCancelled(c)
  BY <1>10, GivesUpKind DEF CompactionCancelled, CompactionRest, CompactionStages
<1>11. CASE CompactionAppended(c)
  BY <1>11, NextStageKind
     DEF CompactionAppended, CompactionStages, retryVars, historyVars
<1>12. CASE CompactionReported(c)
  <2>1. pc[c] = "report" /\ UNCHANGED <<last, manual, overlap>>
    BY <1>12 DEF CompactionReported, CompactionRest
  <2>2. ASSUME NEW m, why[c] = "retry", Continues(c, m) PROVE StepInLoop(c)
    <3>1. InLoop(c) /\ pc[c] # "run"
      BY <2>1, <2>2 DEF InLoop, CompactionStages
    <3> QED
      BY <2>1, <2>2, <3>1, ContinuesKind DEF StepInLoop
  <2>3. CASE GivesUp(c, shown)
    BY <2>1, <2>3, GivesUpKind DEF CompactionStages
  <2> QED
    BY <1>12, <2>2, <2>3 DEF CompactionReported
<1>13. CASE AgentSettled(c)
  <2>1. Moves(c) /\ pc'[c] = "done"
    BY <1>13, GoesMoves DEF AgentSettled, CallStages
  <2> QED
    BY <1>13, <2>1 DEF AgentSettled, AfterIdle, StepOutside, InLoop, Admitted,
                       CompactionStages, runVars, retryVars, historyVars
<1> QED
  BY <1>1, <1>2, <1>3, <1>4, <1>5, <1>6, <1>7, <1>8, <1>9, <1>10, <1>11, <1>12, <1>13
     DEF LoopStep

-----------------------------------------------------------------------------
(* Each kind of step keeps the invariant.                                  *)

LEMMA OthersStay ==
  ASSUME NEW c \in Calls, Moves(c), NEW d \in Calls, d # c
  PROVE  /\ pc'[d] = pc[d]
         /\ InLoop(d)' <=> InLoop(d)
         /\ Admitted(d)' <=> Admitted(d)
  BY DEF Moves, InLoop, Admitted

LEMMA NoRunBetween ==
  ASSUME LoopType, LoopSound, NEW c \in Calls, InLoop(c), pc[c] # "run"
  PROVE  run = 0 /\ phase = "none" /\ active /\ manual \notin CompactionStages
<1>1. active
  BY DEF LoopSound, ActiveIsLoop
<1>2. run = 0
  <2> SUFFICES ASSUME run # 0 PROVE FALSE
    OBVIOUS
  <2>1. run \in Calls /\ pc[run] = "run"
    BY AgentSessionAssumption DEF LoopType, Calls, LoopSound, RunOfLoop
  <2>2. InLoop(run)
    BY <2>1 DEF InLoop
  <2> QED
    BY <2>1, <2>2 DEF LoopSound, OneLoop
<1> QED
  BY <1>1, <1>2 DEF LoopSound, RunOfLoop, ManualAlone

LEMMA StepInLoopKeeps ==
  ASSUME LoopType, LoopSound, NEW c \in Calls, StepInLoop(c)
  PROVE  LoopSound'
<1>1. /\ run = 0 /\ phase = "none" /\ active /\ manual \notin CompactionStages
      /\ Moves(c) /\ InLoop(c)
  BY NoRunBetween DEF StepInLoop
<1>2. \A d \in Calls \ {c} : ~InLoop(d) /\ ~Admitted(d)
  BY <1>1 DEF LoopSound, OneLoop
<1>3. \A d \in Calls \ {c} : ~InLoop(d)' /\ ~Admitted(d)'
  BY <1>1, <1>2, OthersStay
<1>4. \A d \in Calls \ {c} : pc'[d] \notin {"run", "post"}
  BY <1>3 DEF InLoop
<1>5. OneLoop'
  BY <1>3 DEF OneLoop
<1>6. c # 0
  BY DEF Calls
<1>7. CASE Resumes(c)
  <2>1. InLoop(c)'
    BY <1>7 DEF Resumes, InLoop
  <2>2. ActiveIsLoop'
    BY <1>1, <1>7, <2>1 DEF Resumes, ActiveIsLoop
  <2>3. RunOfLoop' /\ Responded' /\ ManualAlone'
    BY <1>1, <1>4, <1>6, <1>7 DEF Resumes, RunOfLoop, Responded, ManualAlone, StepInLoop
  <2> QED
    BY <1>5, <2>2, <2>3 DEF LoopSound
<1>8. CASE Finishes(c)
  <2>1. ~InLoop(c)'
    BY <1>8 DEF Finishes, InLoop, CompactionStages
  <2>2. ActiveIsLoop'
    BY <1>3, <1>8, <2>1 DEF Finishes, ActiveIsLoop
  <2>3. RunOfLoop' /\ Responded' /\ ManualAlone'
    BY <1>1, <1>4, <1>8 DEF Finishes, RunOfLoop, Responded, ManualAlone
  <2> QED
    BY <1>5, <2>2, <2>3 DEF LoopSound
<1>9. CASE Waits(c)
  <2>1. ActiveIsLoop'
    BY <1>1, <1>9 DEF Waits, ActiveIsLoop
  <2>2. RunOfLoop' /\ Responded' /\ ManualAlone'
    BY <1>1, <1>4, <1>9 DEF Waits, RunOfLoop, Responded, ManualAlone, StepInLoop
  <2> QED
    BY <1>5, <2>1, <2>2 DEF LoopSound
<1> QED
  BY <1>7, <1>8, <1>9 DEF StepInLoop

LEMMA StepOutsideKeeps ==
  ASSUME LoopType, LoopSound, NEW c \in Calls, StepOutside(c)
  PROVE  LoopSound'
<1>1. Moves(c) /\ ~InLoop(c) /\ ~InLoop(c)'
  BY DEF StepOutside
<1>2. \A d \in Calls : InLoop(d)' <=> InLoop(d)
  BY <1>1, OthersStay
<1>3. \A d \in Calls : Admitted(d)' => Admitted(d) \/ ~active
  BY <1>1, OthersStay DEF StepOutside
<1>4. pc[c] \notin {"run", "post"} /\ pc'[c] \notin {"run", "post"}
  BY <1>1 DEF InLoop
<1>5. \A d \in Calls, s \in {"run", "post"} : pc'[d] = s <=> pc[d] = s
  BY <1>1, <1>4, OthersStay
<1>6. OneLoop'
  <2> SUFFICES ASSUME NEW d \in Calls, NEW e \in Calls,
                      InLoop(d)', InLoop(e)' \/ Admitted(e)'
               PROVE  d = e
    BY DEF OneLoop
  <2>1. InLoop(d) /\ active
    BY <1>2 DEF LoopSound, ActiveIsLoop
  <2>2. InLoop(e) \/ Admitted(e)
    BY <1>2, <1>3, <2>1
  <2> QED
    BY <2>1, <2>2 DEF LoopSound, OneLoop
<1>7. ActiveIsLoop'
  BY <1>2 DEF StepOutside, LoopSound, ActiveIsLoop
<1>8. RunOfLoop'
  <2>1. run # 0 => run \in Calls
    BY AgentSessionAssumption DEF LoopType, Calls
  <2> QED
    BY <1>5, <2>1 DEF StepOutside, LoopSound, RunOfLoop
<1>9. Responded' /\ ManualAlone'
  BY <1>5 DEF StepOutside, LoopSound, Responded, ManualAlone
<1> QED
  BY <1>6, <1>7, <1>8, <1>9 DEF LoopSound

(* agent.prompt: with no one else let in there is no run to refuse it.     *)
LEMMA RunAgentPromptKeeps ==
  ASSUME LoopType, LoopSound, NEW c \in Calls, RunAgentPrompt(c), ~overlap'
  PROVE  LoopSound' /\ Moves(c) /\ active'
<1>1. /\ pc[c] = "start" /\ manual \notin CompactionStages /\ manual' = manual
      /\ \A d \in Calls \ {c} : ~InLoop(d) /\ ~Admitted(d)
  BY DEF RunAgentPrompt
<1>2. run = 0
  <2> SUFFICES ASSUME run # 0 PROVE FALSE
    OBVIOUS
  <2>1. run \in Calls /\ pc[run] = "run"
    BY AgentSessionAssumption DEF LoopType, Calls, LoopSound, RunOfLoop
  <2> QED
    BY <1>1, <2>1 DEF InLoop
<1>3. active' = TRUE /\ run' = c /\ phase' = "poll" /\ Goes(c, "run")
  BY <1>2 DEF RunAgentPrompt, StartsRun
<1>4. Moves(c) /\ pc'[c] = "run"
  BY <1>3, GoesMoves DEF CallStages
<1>5. InLoop(c)'
  BY <1>4 DEF InLoop
<1>6. \A d \in Calls \ {c} : ~InLoop(d)' /\ ~Admitted(d)'
  BY <1>1, <1>4, OthersStay
<1>7. \A d \in Calls \ {c} : pc'[d] \notin {"run", "post"}
  BY <1>6 DEF InLoop
<1>8. OneLoop' /\ ActiveIsLoop'
  BY <1>3, <1>5, <1>6 DEF OneLoop, ActiveIsLoop
<1>9. RunOfLoop' /\ Responded' /\ ManualAlone'
  BY <1>1, <1>3, <1>4, <1>7 DEF RunOfLoop, Responded, ManualAlone, Calls
<1> QED
  BY <1>3, <1>4, <1>8, <1>9 DEF LoopSound

(* A step inside the run, or beside the loop.                              *)
LEMMA FrameKeeps ==
  ASSUME LoopSound, UNCHANGED <<pc, why, active, run>>,
         phase' = "none" <=> phase = "none",
         phase' \in {"tools", "stopped", "ending"} =>
           last' # "none",
         last' = last \/ (last' # "none"),
         manual' \in CompactionStages => manual \in CompactionStages \/ ~active
  PROVE  LoopSound'
<1>1. \A c \in Calls : (InLoop(c)' <=> InLoop(c)) /\ (Admitted(c)' <=> Admitted(c))
  BY DEF InLoop, Admitted
<1>2. OneLoop' /\ ActiveIsLoop'
  BY <1>1 DEF LoopSound, OneLoop, ActiveIsLoop
<1>3. RunOfLoop' /\ ManualAlone'
  BY DEF LoopSound, RunOfLoop, ManualAlone
<1>4. Responded'
  BY DEF LoopSound, Responded
<1> QED
  BY <1>2, <1>3, <1>4 DEF LoopSound

LEMMA AgentEndsKeeps ==
  ASSUME LoopType, LoopSound, AgentEnds
  PROVE  LoopSound' /\ active' = active
<1>1. phase = "ending" /\ run # 0 /\ last # "none" /\ UNCHANGED <<active, last, manual>>
  BY DEF AgentEnds, LoopSound, RunOfLoop, Responded, retryVars
<1>2. run \in Calls /\ pc[run] = "run"
  BY <1>1, AgentSessionAssumption DEF LoopType, Calls, LoopSound, RunOfLoop
<1>3. InLoop(run)
  BY <1>2 DEF InLoop
<1>4. Moves(run) /\ pc'[run] = "post" /\ run' = 0 /\ phase' = "none"
  BY <1>2, GoesMoves DEF AgentEnds, CallStages
<1>5. \A d \in Calls \ {run} : ~InLoop(d) /\ ~Admitted(d)
  BY <1>2, <1>3 DEF LoopSound, OneLoop
<1>6. \A d \in Calls \ {run} : ~InLoop(d)' /\ ~Admitted(d)'
  BY <1>2, <1>4, <1>5, OthersStay
<1>7. \A d \in Calls \ {run} : pc'[d] \notin {"run", "post"}
  BY <1>6 DEF InLoop
<1>8. \E d \in Calls : InLoop(d)'
  BY <1>2, <1>4 DEF InLoop
<1>9. OneLoop' /\ ActiveIsLoop'
  BY <1>1, <1>2, <1>3, <1>6, <1>8 DEF OneLoop, ActiveIsLoop, LoopSound
<1>10. RunOfLoop' /\ Responded' /\ ManualAlone'
  BY <1>1, <1>4, <1>7 DEF RunOfLoop, Responded, ManualAlone, LoopSound
<1> QED
  BY <1>1, <1>9, <1>10 DEF LoopSound

(* Steps that leave the stages of the calls alone.                         *)
StepBeside ==
  /\ UNCHANGED <<pc, why, active, run, overlap>>
  /\ phase' = "none" <=> phase = "none"
  /\ phase' \in {"tools", "stopped", "ending"} =>
       last' # "none" \/ (phase \in {"tools", "stopped", "ending"} /\ last' = last)
  /\ last' = last \/ last' # "none"
  /\ manual' \in CompactionStages => manual \in CompactionStages \/ ~active

LEMMA BesideKeeps ==
  ASSUME LoopSound, StepBeside
  PROVE  LoopSound'
<1>1. phase' \in {"tools", "stopped", "ending"} => last' # "none"
  BY DEF StepBeside, LoopSound, Responded
<1> QED
  BY <1>1, FrameKeeps DEF StepBeside

LEMMA BesideKind ==
  ASSUME \/ AgentPolls \/ AgentAnswers \/ AgentAborted \/ AgentFails \/ ToolResults
         \/ ManualStep \/ MemoryUpdated \/ Steer \/ ClearQueue \/ RecordBashResult
         \/ (\E kind \in {"abort", "compact"} : Abort(kind))
         \/ UNCHANGED agentSessionVars
  PROVE  StepBeside
<1>1. CASE AgentPolls
  BY <1>1 DEF AgentPolls, Take, AgentRest, loopVars, StepBeside
<1>2. CASE AgentAnswers
  BY <1>2 DEF AgentAnswers, Responds, AgentRest, loopVars, StepBeside
<1>3. CASE AgentAborted
  BY <1>3 DEF AgentAborted, Responds, AgentRest, loopVars, StepBeside
<1>4. CASE AgentFails
  BY <1>4 DEF AgentFails, Responds, AgentRest, loopVars, StepBeside
<1>5. CASE ToolResults
  BY <1>5 DEF ToolResults, AgentRest, loopVars, retryVars, StepBeside
<1>6. CASE ManualStep
  BY <1>6 DEF ManualStep, ManualMemory, ManualCompaction, ManualReported, ManualRest,
              loopVars, runVars, retryVars, StepBeside, CompactionStages
<1>7. CASE MemoryUpdated
  BY <1>7 DEF MemoryUpdated, loopVars, runVars, retryVars, StepBeside
<1>8. CASE Steer \/ ClearQueue \/ RecordBashResult
  BY <1>8 DEF Steer, ClearQueue, RecordBashResult, loopVars, runVars, retryVars, StepBeside
<1>9. ASSUME NEW kind \in {"abort", "compact"}, Abort(kind) PROVE StepBeside
  BY <1>9 DEF Abort, AfterIdle, loopVars, StepBeside, CompactionStages
<1>10. CASE UNCHANGED agentSessionVars
  BY <1>10 DEF agentSessionVars, loopVars, runVars, retryVars, historyVars, StepBeside
<1> QED
  BY <1>1, <1>2, <1>3, <1>4, <1>5, <1>6, <1>7, <1>8, <1>9, <1>10

-----------------------------------------------------------------------------
(* The theorems.                                                           *)

LEMMA NextKinds ==
  ASSUME LoopType, [AgentSessionNext]_agentSessionVars
  PROVE  \/ \E c \in Calls : StepInLoop(c) \/ StepOutside(c) \/ RunAgentPrompt(c)
         \/ AgentEnds
         \/ StepBeside
<1>1. ASSUME NEW c \in Calls, Submit(c) \/ LoopStep(c)
      PROVE  StepInLoop(c) \/ StepOutside(c) \/ RunAgentPrompt(c)
  BY <1>1, LoopStepKind
<1> QED
  BY <1>1, BesideKind DEF AgentSessionNext, AgentStep

LEMMA LoopTypeStep ==
  ASSUME LoopType, [AgentSessionNext]_agentSessionVars
  PROVE  LoopType' /\ (~overlap' => ~overlap)
<1>1. ASSUME NEW c \in Calls, StepInLoop(c) PROVE LoopType' /\ overlap' = overlap
  <2>1. run' \in 0..MaxPrompts
    BY <1>1 DEF StepInLoop, Resumes, Finishes, Waits, LoopType, Calls
  <2> QED
    BY <1>1, <2>1 DEF StepInLoop, Resumes, Finishes, Waits, Moves, LoopType
<1>2. ASSUME NEW c \in Calls, StepOutside(c) PROVE LoopType' /\ overlap' = overlap
  BY <1>2 DEF StepOutside, Moves, LoopType
<1>3. ASSUME NEW c \in Calls, RunAgentPrompt(c)
      PROVE  LoopType' /\ (~overlap' => ~overlap)
  <2>1. \E s \in {"run", "settled"} : Goes(c, s)
    BY <1>3 DEF RunAgentPrompt, StartsRun, Settles
  <2>2. Moves(c)
    BY <2>1, GoesMoves DEF CallStages
  <2>3. run' \in {c, run} /\ active' \in BOOLEAN
    BY <1>3 DEF RunAgentPrompt, StartsRun, Settles, runVars
  <2>4. run' \in 0..MaxPrompts
    BY <2>3 DEF LoopType, Calls
  <2>5. overlap' \in BOOLEAN /\ (~overlap' => ~overlap)
    BY <1>3 DEF RunAgentPrompt, LoopType
  <2> QED
    BY <2>2, <2>3, <2>4, <2>5 DEF LoopType, Moves
<1>4. CASE AgentEnds
  <2>1. run' \in 0..MaxPrompts /\ UNCHANGED <<active, overlap>>
    BY <1>4, AgentSessionAssumption DEF AgentEnds, historyVars
  <2>2. /\ pc' = [pc EXCEPT ![run] = "post"]
        /\ why' = [why EXCEPT ![run] = "prompt"]
    BY <1>4 DEF AgentEnds, Goes, CompactionStages
  <2> QED
    BY <2>1, <2>2 DEF LoopType, CallStages
<1>5. CASE StepBeside
  BY <1>5 DEF StepBeside, LoopType
<1> QED
  BY <1>1, <1>2, <1>3, <1>4, <1>5, NextKinds

LEMMA LoopStepSound == LoopInv /\ [AgentSessionNext]_agentSessionVars => LoopInv'
<1> SUFFICES ASSUME LoopInv, [AgentSessionNext]_agentSessionVars PROVE LoopInv'
  OBVIOUS
<1>1. LoopType /\ LoopType' /\ (~overlap' => ~overlap)
  BY LoopTypeStep DEF LoopInv
<1>2. ASSUME ~overlap' PROVE LoopSound'
  <2>1. LoopSound
    BY <1>1, <1>2 DEF LoopInv
  <2> QED
    BY <1>1, <1>2, <2>1, NextKinds, StepInLoopKeeps, StepOutsideKeeps,
       RunAgentPromptKeeps, AgentEndsKeeps, BesideKeeps
<1> QED
  BY <1>1, <1>2 DEF LoopInv

LEMMA LoopInit == AgentSessionInit => LoopInv
<1> SUFFICES ASSUME AgentSessionInit PROVE LoopInv
  OBVIOUS
<1>1. LoopType
  <2>1. /\ active = FALSE /\ overlap = FALSE /\ run = 0
        /\ pc = [c \in Calls |-> "idle"]
        /\ why = [c \in Calls |-> "prompt"]
    BY DEF AgentSessionInit
  <2>2. 0 \in 0..MaxPrompts
    BY AgentSessionAssumption
  <2> QED
    BY <2>1, <2>2 DEF LoopType, CallStages
<1>2. \A c \in Calls : pc[c] = "idle" /\ ~InLoop(c)
  BY DEF AgentSessionInit, InLoop, CompactionStages
<1>3. OneLoop /\ ActiveIsLoop
  BY <1>2 DEF AgentSessionInit, OneLoop, ActiveIsLoop
<1>4. RunOfLoop /\ Responded /\ ManualAlone
  BY <1>2 DEF AgentSessionInit, RunOfLoop, Responded, ManualAlone, CompactionStages
<1> QED
  BY <1>1, <1>3, <1>4 DEF LoopInv, LoopSound

LEMMA LoopAlways == AgentSessionSpec => []LoopInv
  BY LoopInit, LoopStepSound, PTL DEF AgentSessionSpec

(* isIdle is true to the loop of _runAgentPrompt at every await, whatever    *)
(* retries, compacts, aborts or queues meanwhile, unless a prompt was let  *)
(* in on a stale check.                                                    *)
THEOREM IdleAlwaysMeansIdle == AgentSessionSpec => []IdleMeansIdle
<1>1. LoopInv => IdleMeansIdle
  BY DEF LoopInv, LoopSound, ActiveIsLoop, RunOfLoop, ManualAlone, IdleMeansIdle
<1> QED
  BY <1>1, LoopAlways, PTL

(* The finally of _runAgentPrompt finds the queues empty, or agent.continue  *)
(* has thrown: _handlePostAgentRun looks at them after its last await.      *)
THEOREM NothingIsStranded == AgentSessionSpec => NothingStranded
<1> DEFINE Delivers == active /\ ~active' /\ ~overlap' /\ steering' + followUps' > 0 => refused'
<1>1. LoopInv /\ [AgentSessionNext]_agentSessionVars => [Delivers]_agentSessionVars
  <2> SUFFICES ASSUME LoopInv, [AgentSessionNext]_agentSessionVars,
                      active, ~active', ~overlap', steering' + followUps' > 0
               PROVE  refused'
    OBVIOUS
  <2>1. LoopType /\ LoopSound
    BY LoopTypeStep DEF LoopInv
  <2>2. ASSUME NEW c \in Calls, StepInLoop(c) PROVE refused'
    <3>1. run = 0 /\ (pc[c] = "post" => last # "none")
      BY <2>1, <2>2, NoRunBetween DEF StepInLoop, LoopSound, Responded
    <3> QED
      BY <2>2, <3>1 DEF StepInLoop, Resumes, Finishes, Waits
  <2>3. ASSUME NEW c \in Calls, RunAgentPrompt(c) PROVE FALSE
    BY <2>1, <2>3, RunAgentPromptKeeps
  <2>4. ~(\E c \in Calls : StepOutside(c)) /\ ~AgentEnds /\ ~StepBeside
    BY <2>1, AgentEndsKeeps DEF StepOutside, StepBeside
  <2> QED
    BY <2>1, <2>2, <2>3, <2>4, NextKinds
<1> QED
  BY <1>1, LoopAlways, PTL DEF AgentSessionSpec, NothingStranded

-----------------------------------------------------------------------------
(* The transcripts: lemmas about sequences of roles.                       *)

Good == {"answer", "calls"}

(* A call of tools and its result are next to each other, and no response  *)
(* follows a good one directly.                                            *)
Ordered(s) ==
  \A i \in 1..(Len(s) - 1) :
    /\ s[i] = "calls" <=> s[i + 1] = "result"
    /\ s[i] \in Good => s[i + 1] \notin Assistants

LEMMA Appended ==
  ASSUME NEW s \in Seq(Roles), NEW r \in Roles
  PROVE  /\ Append(s, r) \in Seq(Roles)
         /\ Append(s, r) # <<>> /\ Last(Append(s, r)) = r
         /\ Front(Append(s, r)) = s
<1>1. Append(s, r) \in Seq(Roles) /\ Append(s, r) # <<>> /\ Last(Append(s, r)) = r
  BY DEF Last
<1>2. Front(Append(s, r)) = s
  <2>1. Len(Append(s, r)) - 1 = Len(s) /\ Len(s) \in Nat
    OBVIOUS
  <2>2. SubSeq(Append(s, r), 1, Len(s)) = s
    OBVIOUS
  <2> QED
    BY <2>1, <2>2 DEF Front
<1> QED
  BY <1>1, <1>2

LEMMA AppendedOrdered ==
  ASSUME NEW s \in Seq(Roles), NEW r \in Roles, Ordered(s),
         EndsWith(s, {"calls"}) <=> r = "result",
         r \in Assistants => ~EndsWith(s, Good)
  PROVE  Ordered(Append(s, r))
<1> DEFINE t == Append(s, r)
<1> SUFFICES ASSUME NEW i \in 1..(Len(t) - 1)
             PROVE  /\ t[i] = "calls" <=> t[i + 1] = "result"
                    /\ t[i] \in Good => t[i + 1] \notin Assistants
  BY DEF Ordered
<1>1. Len(s) \in Nat /\ Len(t) = Len(s) + 1 /\ i \in 1..Len(s) /\ t[i] = s[i]
  OBVIOUS
<1>2. CASE i = Len(s)
  <2>1. t[i + 1] = r /\ s # <<>> /\ Last(s) = s[i]
    BY <1>1, <1>2 DEF Last
  <2> QED
    BY <1>1, <2>1 DEF EndsWith
<1>3. CASE i # Len(s)
  <2>1. i \in 1..(Len(s) - 1) /\ t[i + 1] = s[i + 1]
    BY <1>1, <1>3
  <2> QED
    BY <1>1, <2>1 DEF Ordered
<1> QED
  BY <1>2, <1>3

(* What is left when a last response is dropped does not end in a good one. *)
LEMMA DroppedOrdered ==
  ASSUME NEW s \in Seq(Roles), Ordered(s), NEW R \in SUBSET Assistants
  PROVE  /\ Dropped(s, R) \in Seq(Roles) /\ Ordered(Dropped(s, R))
         /\ EndsWith(s, R) => Dropped(s, R) = Front(s) /\ ~EndsWith(Dropped(s, R), Good)
         /\ ~EndsWith(s, R) => Dropped(s, R) = s
<1>1. CASE ~EndsWith(s, R)
  BY <1>1 DEF Dropped
<1>2. CASE EndsWith(s, R)
  <2> DEFINE t == Front(s)
  <2>1. s # <<>> /\ s[Len(s)] \in Assistants /\ Dropped(s, R) = t
    BY <1>2 DEF EndsWith, Last, Dropped
  <2>2. Len(s) \in Nat \ {0}
    BY <2>1
  <2>3. t \in Seq(Roles) /\ Len(t) = Len(s) - 1 /\ \A i \in 1..Len(t) : t[i] = s[i]
    <3>1. Len(s) - 1 \in Nat /\ Len(s) - 1 <= Len(s) /\ t = SubSeq(s, 1, Len(s) - 1)
      BY <2>2 DEF Front
    <3>2. \A m \in 0..Len(s) :
            /\ SubSeq(s, 1, m) \in Seq(Roles) /\ Len(SubSeq(s, 1, m)) = m
            /\ \A i \in 1..m : SubSeq(s, 1, m)[i] = s[i]
      OBVIOUS
    <3>3. Len(s) - 1 \in 0..Len(s)
      BY <2>2
    <3> QED
      BY <3>1, <3>2, <3>3
  <2>4. Ordered(t)
    BY <2>2, <2>3 DEF Ordered
  <2>5. ~EndsWith(t, Good)
    <3> SUFFICES ASSUME t # <<>>, t[Len(t)] \in Good PROVE FALSE
      BY DEF EndsWith, Last
    <3>1. Len(t) \in 1..(Len(s) - 1) /\ Len(t) + 1 = Len(s) /\ s[Len(t)] \in Good
      BY <2>2, <2>3
    <3> QED
      BY <2>1, <3>1 DEF Ordered
  <2> QED
    BY <1>2, <2>1, <2>3, <2>4, <2>5
<1> QED
  BY <1>1, <1>2

(* The messages that a compaction keeps.                                   *)
LEMMA CompactedOrdered ==
  ASSUME saved \in Seq(Roles), Ordered(saved), NEW k \in CutPoints
  PROVE  /\ Compacted(k) \in Seq(Roles) /\ Ordered(Compacted(k))
         /\ saved # <<>> /\ Compacted(k) # <<>> /\ Last(Compacted(k)) = Last(saved)
<1> DEFINE n == Len(saved)
           s == SubSeq(saved, k, n)
           t == <<"summary">> \o s
<1>1. n \in Nat /\ k \in 2..n /\ saved[k] # "result"
  BY DEF CutPoints
<1>2. s \in Seq(Roles) /\ Len(s) = n - k + 1 /\ \A i \in 1..Len(s) : s[i] = saved[k + i - 1]
  BY <1>1
<1>3. /\ t \in Seq(Roles) /\ Len(t) = n - k + 2 /\ t[1] = "summary"
      /\ \A i \in 2..Len(t) : t[i] = saved[k + i - 2]
  BY <1>1, <1>2 DEF Roles
<1>4. Ordered(t)
  <2> SUFFICES ASSUME NEW i \in 1..(Len(t) - 1)
               PROVE  /\ t[i] = "calls" <=> t[i + 1] = "result"
                      /\ t[i] \in Good => t[i + 1] \notin Assistants
    BY DEF Ordered
  <2>1. i + 1 \in 2..Len(t) /\ t[i + 1] = saved[k + i - 1]
    BY <1>1, <1>3
  <2>2. CASE i = 1
    BY <1>1, <1>3, <2>1, <2>2 DEF Good
  <2>3. CASE i # 1
    <3>1. t[i] = saved[k + i - 2] /\ k + i - 2 \in 1..(n - 1) /\ (k + i - 2) + 1 = k + i - 1
      BY <1>1, <1>3, <2>3
    <3> QED
      BY <2>1, <3>1 DEF Ordered
  <2> QED
    BY <2>2, <2>3
<1>5. t # <<>> /\ saved # <<>> /\ t[Len(t)] = saved[n]
  BY <1>1, <1>3
<1>6. Compacted(k) = t
  BY DEF Compacted
<1> QED
  BY <1>3, <1>4, <1>5, <1>6 DEF Last

(* Bash results behind a transcript.                                       *)
Bash(n) == [i \in 1..n |-> "bash"]

LEMMA WithBash ==
  ASSUME NEW s \in Seq(Roles), Ordered(s), ~EndsWith(s, {"calls"}), NEW n \in Nat
  PROVE  /\ s \o Bash(n) \in Seq(Roles) /\ Ordered(s \o Bash(n))
         /\ n = 0 => s \o Bash(n) = s
         /\ n # 0 => s \o Bash(n) # <<>> /\ Last(s \o Bash(n)) = "bash"
<1> DEFINE b == Bash(n)
           t == s \o b
<1>1. b \in Seq(Roles) /\ Len(b) = n /\ \A i \in 1..n : b[i] = "bash"
  BY DEF Bash, Roles
<1>2. /\ t \in Seq(Roles) /\ Len(s) \in Nat /\ Len(t) = Len(s) + n
      /\ \A i \in 1..Len(t) : t[i] = IF i <= Len(s) THEN s[i] ELSE "bash"
  BY <1>1
<1>3. Ordered(t)
  <2> SUFFICES ASSUME NEW i \in 1..(Len(t) - 1)
               PROVE  /\ t[i] = "calls" <=> t[i + 1] = "result"
                      /\ t[i] \in Good => t[i + 1] \notin Assistants
    BY DEF Ordered
  <2>1. CASE i < Len(s)
    <3>1. i \in 1..(Len(s) - 1) /\ t[i] = s[i] /\ t[i + 1] = s[i + 1]
      BY <1>2, <2>1
    <3> QED
      BY <3>1 DEF Ordered
  <2>2. CASE i = Len(s)
    <3>1. t[i] = Last(s) /\ s # <<>> /\ t[i + 1] = "bash"
      BY <1>2, <2>2 DEF Last
    <3> QED
      BY <3>1 DEF EndsWith, Assistants, Failures
  <2>3. CASE i > Len(s)
    BY <1>2, <2>3 DEF Good
  <2> QED
    BY <1>2, <2>1, <2>2, <2>3
<1>4. CASE n = 0
  <2>1. b = <<>>
    BY <1>1, <1>4
  <2>2. s \o Bash(n) = s
    BY <2>1
  <2> QED
    BY <1>4, <2>2
<1>5. CASE n # 0
  <2>1. t # <<>> /\ Last(t) = "bash"
    BY <1>2, <1>5 DEF Last
  <2> QED
    BY <1>2, <1>3, <1>5, <2>1
<1> QED
  BY <1>4, <1>5

-----------------------------------------------------------------------------
(* The inductive invariant of the transcripts.  What makes it hold: a      *)
(* transcript that a run or a retry goes on from does not end in a good    *)
(* response, and ends in a failed one only if it was brought back; behind a *)
(* run that failed both transcripts end in the failed response; and what    *)
(* the session saved ends in a good response only if the agent has it too,  *)
(* so that rebuilding the messages from the session adds none.             *)

Texts(a, b) ==
  /\ a \in Seq(Roles) /\ b \in Seq(Roles)
  /\ Ordered(a) /\ Ordered(b)
  /\ EndsWith(b, Good) => EndsWith(a, Good)

InTools ==
  /\ phase = "tools" <=> EndsWith(shown, {"calls"})
  /\ phase = "tools" <=> EndsWith(saved, {"calls"})

Resumable(s) == ~EndsWith(s, Good) /\ (EndsWith(s, Failures) => restored)

TurnSound == phase \in {"poll", "turn"} => Resumable(shown)

Failed ==
  /\ last \in {"error", "fatal", "overflow", "length"}
  /\ phase \in {"stopped", "ending"} \/ \E c \in Calls : pc[c] = "post"

FailSound ==
  Failed => /\ EndsWith(shown, Failures) /\ EndsWith(saved, Failures)
            /\ EndsWith(Front(shown), Failures) => restored

RetrySound == \A c \in Calls : pc[c] = "retry" => Resumable(shown)

RecoverySound ==
  \A c \in Calls : pc[c] \in CompactionStages /\ why[c] = "retry" => ~EndsWith(shown, Good)

StagesSound == TurnSound /\ FailSound /\ RetrySound /\ RecoverySound

TextSound ==
  /\ Texts(shown, saved) /\ pendingBash \in Nat
  /\ InTools /\ StagesSound
  /\ refused => restored

TextInv == LoopInv /\ (~overlap => TextSound)

(* Where the calls are decides what is asked of the transcripts.           *)
LEMMA QuietNow ==
  ASSUME LoopType, LoopSound, ~active
  PROVE  phase = "none"
<1>1. CASE run = 0
  BY <1>1 DEF LoopSound, RunOfLoop
<1>2. CASE run # 0
  <2>1. run \in Calls /\ pc[run] = "run"
    BY <1>2, AgentSessionAssumption DEF LoopType, Calls, LoopSound, RunOfLoop
  <2>2. InLoop(run)
    BY <2>1 DEF InLoop
  <2> QED
    BY <2>1, <2>2 DEF LoopSound, ActiveIsLoop
<1> QED
  BY <1>1, <1>2

LEMMA QuietNext ==
  ASSUME LoopType', LoopSound', ~active'
  PROVE  phase' = "none" /\ StagesSound'
<1>1. \A c \in Calls : ~InLoop(c)'
  BY DEF LoopSound, ActiveIsLoop
<1>2. phase' = "none"
  <2>1. CASE run' = 0
    BY <2>1 DEF LoopSound, RunOfLoop
  <2>2. CASE run' # 0
    <3>1. run' \in Calls /\ pc'[run'] = "run"
      BY <2>2, AgentSessionAssumption DEF LoopType, Calls, LoopSound, RunOfLoop
    <3> QED
      BY <1>1, <3>1 DEF InLoop
  <2> QED
    BY <2>1, <2>2
<1>3. \A c \in Calls : pc'[c] # "post" /\ pc'[c] # "retry"
  BY <1>1 DEF InLoop
<1>4. \A c \in Calls : ~(pc'[c] \in CompactionStages /\ why'[c] = "retry")
  BY <1>1 DEF InLoop
<1> QED
  BY <1>2, <1>3, <1>4
     DEF StagesSound, TurnSound, FailSound, Failed, RetrySound, RecoverySound

(* While a run is under way no call is behind one.                         *)
LEMMA RunAlone ==
  ASSUME LoopType, LoopSound, phase # "none"
  PROVE  \A c \in Calls : /\ pc[c] # "post" /\ pc[c] # "retry"
                          /\ ~(pc[c] \in CompactionStages /\ why[c] = "retry")
<1>1. run \in Calls /\ pc[run] = "run"
  BY AgentSessionAssumption DEF LoopType, Calls, LoopSound, RunOfLoop
<1>2. InLoop(run)
  BY <1>1 DEF InLoop
<1>3. \A c \in Calls : InLoop(c) => c = run
  BY <1>1, <1>2 DEF LoopSound, OneLoop
<1> QED
  BY <1>1, <1>3 DEF InLoop, CompactionStages

LEMMA RunAloneNext ==
  ASSUME LoopType', LoopSound', phase' # "none"
  PROVE  /\ RetrySound' /\ RecoverySound'
         /\ \A c \in Calls : pc'[c] # "post"
<1>1. run' \in Calls /\ pc'[run'] = "run"
  BY AgentSessionAssumption DEF LoopType, Calls, LoopSound, RunOfLoop
<1>2. PICK r \in Calls : r = run' /\ pc'[r] = "run"
  BY <1>1
<1>3. \A c \in Calls : InLoop(c)' => c = r
  <2>1. InLoop(r)'
    BY <1>2 DEF InLoop
  <2> QED
    BY <2>1 DEF LoopSound, OneLoop
<1>4. \A c \in Calls : /\ pc'[c] # "post" /\ pc'[c] # "retry"
                       /\ ~(pc'[c] \in CompactionStages /\ why'[c] = "retry")
  BY <1>2, <1>3 DEF InLoop, CompactionStages
<1> QED
  BY <1>4 DEF RetrySound, RecoverySound

(* A call that is in the loop without a run is there alone.                *)
LEMMA CallAloneNext ==
  ASSUME LoopSound', NEW c \in Calls, InLoop(c)'
  PROVE  \A d \in Calls \ {c} : /\ pc'[d] # "post" /\ pc'[d] # "retry"
                                /\ ~(pc'[d] \in CompactionStages /\ why'[d] = "retry")
<1>1. \A d \in Calls \ {c} : ~InLoop(d)'
  BY DEF LoopSound, OneLoop
<1> QED
  BY <1>1 DEF InLoop

LEMMA AdmittedQuiet ==
  ASSUME LoopSound, NEW c \in Calls, Admitted(c)
  PROVE  ~active
<1>1. ~InLoop(c)
  BY DEF InLoop, Admitted, CompactionStages
<1>2. \A d \in Calls : ~InLoop(d)
  BY <1>1 DEF LoopSound, OneLoop
<1> QED
  BY <1>2 DEF LoopSound, ActiveIsLoop

-----------------------------------------------------------------------------
(* What the parts of the steps do to the transcripts.                      *)

LEMMA RecordEffect ==
  ASSUME Texts(shown, saved), InTools, NEW role \in Roles, RecordMessage(role),
         role = "result" <=> phase = "tools",
         role \in Assistants => ~EndsWith(shown, Good)
  PROVE  /\ Texts(shown', saved') /\ Front(shown') = shown
         /\ shown' # <<>> /\ Last(shown') = role
         /\ saved' # <<>> /\ Last(saved') = role
<1>1. shown' = Append(shown, role) /\ saved' = Append(saved, role)
  BY DEF RecordMessage
<1>2. Ordered(shown') /\ Ordered(saved')
  BY <1>1, AppendedOrdered DEF Texts, InTools
<1>3. /\ shown' \in Seq(Roles) /\ saved' \in Seq(Roles) /\ Front(shown') = shown
      /\ shown' # <<>> /\ Last(shown') = role
      /\ saved' # <<>> /\ Last(saved') = role
  BY <1>1, Appended DEF Texts
<1> QED
  BY <1>2, <1>3 DEF Texts, EndsWith

LEMMA FlushEffect ==
  ASSUME NEW m, Texts(m, saved), ~EndsWith(m, {"calls"}), ~EndsWith(saved, {"calls"}),
         pendingBash \in Nat, Flush(m)
  PROVE  /\ Texts(shown', saved') /\ pendingBash' \in Nat
         /\ ~EndsWith(shown', {"calls"}) /\ ~EndsWith(saved', {"calls"})
<1>1. shown' = m \o Bash(pendingBash) /\ saved' = saved \o Bash(pendingBash)
      /\ pendingBash' = 0
  BY DEF Flush, Bash
<1>2. /\ shown' \in Seq(Roles) /\ Ordered(shown')
      /\ saved' \in Seq(Roles) /\ Ordered(saved')
  BY <1>1, WithBash DEF Texts
<1>3. CASE pendingBash = 0
  <2>1. shown' = m /\ saved' = saved
    BY <1>1, <1>3, WithBash DEF Texts
  <2> QED
    BY <1>1, <2>1
<1>4. CASE pendingBash # 0
  <2>1. Last(shown') = "bash" /\ Last(saved') = "bash"
    BY <1>1, <1>4, WithBash DEF Texts
  <2> QED
    BY <1>1, <1>2, <2>1 DEF Texts, EndsWith, Good
<1> QED
  BY <1>3, <1>4

LEMMA QuietText ==
  ASSUME LoopType', LoopSound', ~active', Texts(shown', saved'), pendingBash' \in Nat,
         ~EndsWith(shown', {"calls"}), ~EndsWith(saved', {"calls"}), refused' => restored'
  PROVE  TextSound'
<1>1. phase' = "none" /\ StagesSound'
  BY QuietNext
<1>2. InTools'
  BY <1>1 DEF InTools, EndsWith
<1>3. Texts(shown, saved)'
  BY DEF Texts, Ordered, EndsWith
<1> QED
  BY <1>1, <1>2, <1>3 DEF TextSound

LEMMA SettlesText ==
  ASSUME LoopType', LoopSound', NEW c \in Calls, NEW m, Settles(c, m),
         Texts(m, saved), ~EndsWith(m, {"calls"}), ~EndsWith(saved, {"calls"}),
         pendingBash \in Nat, refused' => restored'
  PROVE  TextSound'
<1>1. ~active' /\ Flush(m)
  BY DEF Settles
<1> QED
  BY <1>1, FlushEffect, QuietText

(* A run that begins: what it goes on from is the last thing to look at.    *)
LEMMA ResumedText ==
  ASSUME LoopType', LoopSound', phase' \in {"poll", "turn"},
         Texts(shown', saved'), pendingBash' \in Nat,
         ~EndsWith(shown', {"calls"}), ~EndsWith(saved', {"calls"}),
         ~EndsWith(shown', Good), EndsWith(shown', Failures) => restored',
         refused' => restored'
  PROVE  TextSound'
<1>1. RetrySound' /\ RecoverySound' /\ \A c \in Calls : pc'[c] # "post"
  BY RunAloneNext
<1>2. TurnSound'
  BY DEF TurnSound, Resumable, EndsWith
<1>3. FailSound'
  BY <1>1 DEF FailSound, Failed
<1>4. InTools'
  BY DEF InTools, EndsWith
<1>5. Texts(shown, saved)'
  BY DEF Texts, Ordered, EndsWith
<1> QED
  BY <1>1, <1>2, <1>3, <1>4, <1>5 DEF TextSound, StagesSound

LEMMA ContinuesText ==
  ASSUME LoopType, LoopSound, LoopType', LoopSound',
         NEW c \in Calls, InLoop(c), pc[c] # "run", NEW m, Continues(c, m),
         Texts(m, saved), ~EndsWith(m, {"calls"}), ~EndsWith(saved, {"calls"}),
         pendingBash \in Nat, refused => restored, restored => restored',
         EndsWith(m, Assistants) /\ steering + followUps = 0 => restored'
  PROVE  TextSound'
<1>1. run = 0
  BY NoRunBetween
<1>2. CASE /\ ~EndsWith(m, Assistants) /\ StartsRun(c, "poll") /\ shown' = m
           /\ UNCHANGED <<saved, pendingBash, refused>>
  <2>1. ~EndsWith(m, Good) /\ ~EndsWith(m, Failures)
    BY <1>2 DEF EndsWith, Good, Assistants
  <2> QED
    BY <1>2, <2>1, ResumedText DEF StartsRun
<1>3. ASSUME NEW s \in {"poll", "turn"}, StartsRun(c, s),
             shown' = Append(m, "user"), saved' = Append(saved, "user"),
             UNCHANGED <<pendingBash, refused>>
      PROVE  TextSound'
  <2>1. /\ shown' \in Seq(Roles) /\ shown' # <<>> /\ Last(shown') = "user"
        /\ saved' \in Seq(Roles) /\ saved' # <<>> /\ Last(saved') = "user"
    BY <1>3, Appended DEF Texts, Roles
  <2>2. Ordered(shown') /\ Ordered(saved')
    BY <1>3, AppendedOrdered DEF Texts, Roles, Assistants, Failures
  <2>3. \A s1 \in {shown', saved'} :
          ~EndsWith(s1, {"calls"}) /\ ~EndsWith(s1, Good) /\ ~EndsWith(s1, Failures)
    BY <2>1 DEF EndsWith, Good, Failures
  <2>4. Texts(shown', saved')
    BY <2>1, <2>2, <2>3 DEF Texts
  <2> QED
    BY <1>3, <2>3, <2>4, ResumedText DEF StartsRun
<1>4. CASE /\ EndsWith(m, Assistants) /\ steering + followUps = 0
           /\ Settles(c, m)
  BY <1>4, SettlesText
<1> QED
  BY <1>1, <1>2, <1>3, <1>4 DEF Continues

LEMMA ReturnsText ==
  ASSUME LoopType, LoopSound, LoopType', LoopSound',
         NEW c \in Calls, InLoop(c), pc[c] # "run", NEW m, Returns(c, m, FALSE),
         Texts(m, saved), ~EndsWith(m, {"calls"}), ~EndsWith(saved, {"calls"}),
         pendingBash \in Nat, refused => restored, restored => restored'
  PROVE  TextSound'
<1>1. CASE steering + followUps > 0
  <2>1. steering + followUps # 0
    BY <1>1
  <2>2. Continues(c, m)
    BY <1>1 DEF Returns
  <2> QED
    BY <2>1, <2>2, ContinuesText
<1>2. CASE ~(steering + followUps > 0)
  <2>1. Settles(c, m) /\ UNCHANGED refused
    BY <1>2 DEF Returns
  <2> QED
    BY <2>1, SettlesText
<1> QED
  BY <1>1, <1>2

(* A call that waits, for a retry or in a compaction, or looks at its run. *)
LEMMA WaitsText ==
  ASSUME LoopSound', NEW c \in Calls, InLoop(c)', phase' = "none", pc'[c] # "post",
         Texts(shown', saved'), pendingBash' \in Nat,
         ~EndsWith(shown', {"calls"}), ~EndsWith(saved', {"calls"}),
         refused' => restored',
         pc'[c] = "retry" =>
           ~EndsWith(shown', Good) /\ (EndsWith(shown', Failures) => restored'),
         pc'[c] \in CompactionStages /\ why'[c] = "retry" => ~EndsWith(shown', Good)
  PROVE  TextSound'
<1>1. \A d \in Calls \ {c} : /\ pc'[d] # "post" /\ pc'[d] # "retry"
                             /\ ~(pc'[d] \in CompactionStages /\ why'[d] = "retry")
  BY CallAloneNext
<1>2. TurnSound' /\ FailSound'
  BY <1>1 DEF TurnSound, FailSound, Failed
<1>3. RetrySound'
  BY <1>1 DEF RetrySound, Resumable, EndsWith
<1>4. RecoverySound'
  BY <1>1 DEF RecoverySound, EndsWith
<1>5. InTools' /\ Texts(shown, saved)'
  BY DEF InTools, EndsWith, Texts, Ordered
<1> QED
  BY <1>2, <1>3, <1>4, <1>5 DEF TextSound, StagesSound

(* Steps that leave the transcripts alone and begin nothing.               *)
LEMMA SameText ==
  ASSUME TextSound, UNCHANGED <<phase, last, shown, saved, refused, restored>>,
         pendingBash' \in Nat,
         \A c \in Calls : pc'[c] \in {"post", "retry"} => pc[c] = pc'[c],
         \A c \in Calls : pc'[c] \in CompactionStages /\ why'[c] = "retry" =>
                           pc[c] \in CompactionStages /\ why[c] = "retry"
  PROVE  TextSound'
<1>1. Texts(shown, saved)' /\ InTools'
  BY DEF TextSound, Texts, Ordered, InTools, EndsWith
<1>2. TurnSound'
  BY DEF TextSound, StagesSound, TurnSound, Resumable, EndsWith
<1>3. FailSound'
  <2>1. Failed' => Failed
    BY DEF Failed
  <2> QED
    BY <2>1 DEF TextSound, StagesSound, FailSound, EndsWith
<1>4. RetrySound'
  BY DEF TextSound, StagesSound, RetrySound, Resumable, EndsWith
<1>5. RecoverySound'
  BY DEF TextSound, StagesSound, RecoverySound, EndsWith
<1> QED
  BY <1>1, <1>2, <1>3, <1>4, <1>5 DEF TextSound, StagesSound

(* The messages of the agent, or those rebuilt from the session.           *)
LEMMA Replaced ==
  ASSUME TextSound, NEW m \in {shown, saved}, Restores(m)
  PROVE  /\ Texts(m, saved) /\ (restored => restored')
         /\ EndsWith(m, {"calls"}) <=> phase = "tools"
         /\ ~EndsWith(shown, Good) => ~EndsWith(m, Good)
         /\ (EndsWith(shown, Failures) => restored) => (EndsWith(m, Failures) => restored')
<1>1. restored' <=> restored \/ (EndsWith(m, Failures) /\ m # shown)
  BY DEF Restores
<1> QED
  BY <1>1 DEF TextSound, Texts, InTools

(* What is kept, in the agent and in the session.                          *)
LEMMA AppendEffect ==
  ASSUME Texts(shown, saved), ~EndsWith(saved, {"calls"}), AppendCompactionEntry
  PROVE  /\ Texts(shown', saved')
         /\ ~EndsWith(shown', {"calls"}) /\ ~EndsWith(saved', {"calls"})
         /\ ~EndsWith(shown, Good) => ~EndsWith(shown', Good)
<1>1. PICK k \in CutPoints : saved' = Compacted(k) /\ shown' = Compacted(k)
  BY DEF AppendCompactionEntry
<1>2. /\ shown' = saved' /\ shown' \in Seq(Roles) /\ Ordered(shown')
      /\ saved # <<>> /\ shown' # <<>> /\ Last(shown') = Last(saved)
  BY <1>1, CompactedOrdered DEF Texts
<1>3. \A R : EndsWith(shown', R) <=> EndsWith(saved, R)
  BY <1>2 DEF EndsWith
<1> QED
  BY <1>2, <1>3 DEF Texts

-----------------------------------------------------------------------------
(* The steps inside a run.                                                 *)

LEMMA AgentText ==
  ASSUME LoopType, LoopSound, LoopType', LoopSound', TextSound,
         AgentPolls \/ AgentAnswers \/ AgentAborted \/ AgentFails \/ ToolResults
  PROVE  TextSound'
<1>1. /\ phase # "none" /\ phase' # "none"
      /\ UNCHANGED <<pendingBash, refused, restored>>
  BY DEF AgentPolls, Take, AgentAnswers, AgentAborted, AgentFails, ToolResults, Responds,
         AgentRest, retryVars
<1>2. /\ RetrySound' /\ RecoverySound'
      /\ \A c \in Calls : pc'[c] # "post"
  BY <1>1, RunAloneNext
<1>3. pendingBash' \in Nat /\ (refused' => restored')
  BY <1>1 DEF TextSound
<1>4. ASSUME NEW role \in Roles, RecordMessage(role), role = "result" <=> phase = "tools",
             role \in Assistants => phase = "turn",
             phase' = "tools" <=> role = "calls",
             phase' \in {"poll", "turn"} => role \notin Assistants,
             phase' \in {"stopped", "ending"} =>
               (last' \in {"error", "fatal", "overflow", "length"} => role \in Failures)
      PROVE  TextSound'
  <2>1. role \in Assistants => Resumable(shown)
    BY <1>4 DEF TextSound, StagesSound, TurnSound
  <2>2. /\ Texts(shown', saved') /\ Front(shown') = shown
        /\ shown' # <<>> /\ Last(shown') = role
        /\ saved' # <<>> /\ Last(saved') = role
    BY <1>4, <2>1, RecordEffect DEF TextSound, Resumable
  <2>3. \A R : (EndsWith(shown', R) <=> role \in R) /\ (EndsWith(saved', R) <=> role \in R)
    BY <2>2 DEF EndsWith
  <2>4. Texts(shown, saved)' /\ InTools'
    BY <1>4, <2>2 DEF Texts, Ordered, EndsWith, InTools
  <2>5. TurnSound'
    <3>1. phase' \in {"poll", "turn"} => ~EndsWith(shown', Good) /\ ~EndsWith(shown', Failures)
      BY <1>4, <2>3 DEF Assistants, Good, Failures
    <3> QED
      BY <3>1 DEF TurnSound, Resumable, EndsWith
  <2>6. FailSound'
    <3> SUFFICES ASSUME Failed'
                 PROVE  (/\ EndsWith(shown, Failures) /\ EndsWith(saved, Failures)
                         /\ EndsWith(Front(shown), Failures) => restored)'
      BY DEF FailSound
    <3>1. role \in Failures
      BY <1>2, <1>4 DEF Failed
    <3>2. EndsWith(shown', Failures) /\ EndsWith(saved', Failures)
      BY <2>3, <3>1
    <3>3. EndsWith(Front(shown'), Failures) => restored'
      BY <1>1, <2>1, <2>2, <3>1 DEF Resumable, Assistants
    <3> QED
      BY <3>2, <3>3 DEF EndsWith
  <2> QED
    BY <1>2, <1>3, <2>4, <2>5, <2>6 DEF TextSound, StagesSound
<1>5. CASE AgentPolls
  <2>1. CASE RecordMessage("user") /\ phase' = "turn"
    BY <1>4, <1>5, <2>1 DEF AgentPolls, Roles, Assistants, Failures
  <2>2. ASSUME UNCHANGED <<shown, saved>>,
               \/ phase = "poll" /\ phase' = "turn"
               \/ phase = "stopped" /\ phase' = "ending"
        PROVE  TextSound'
    <3>1. last' = last
      BY <1>5 DEF AgentPolls
    <3>2. Texts(shown, saved)' /\ InTools' /\ TurnSound'
      BY <1>1, <2>2 DEF TextSound, StagesSound, Texts, Ordered, InTools, EndsWith, TurnSound,
                        Resumable
    <3>3. FailSound'
      <4>1. Failed' => Failed
        BY <1>2, <2>2, <3>1 DEF Failed
      <4> QED
        BY <1>1, <2>2, <4>1 DEF TextSound, StagesSound, FailSound, EndsWith
    <3> QED
      BY <1>2, <1>3, <3>2, <3>3 DEF TextSound, StagesSound
  <2>3. CASE phase = "poll" /\ Take("turn")
    <3>1. CASE RecordMessage("user") /\ phase' = "turn"
      BY <2>1, <3>1
    <3>2. CASE UNCHANGED <<shown, saved>> /\ phase' = "turn"
      BY <2>2, <2>3, <3>2
    <3> QED
      BY <2>3, <3>1, <3>2 DEF Take
  <2>4. CASE phase = "stopped" /\ Take("ending")
    <3>1. CASE RecordMessage("user") /\ phase' = "turn"
      BY <2>1, <3>1
    <3>2. CASE UNCHANGED <<shown, saved>> /\ phase' = "ending"
      BY <2>2, <2>4, <3>2
    <3> QED
      BY <2>4, <3>1, <3>2 DEF Take
  <2> QED
    BY <1>5, <2>3, <2>4 DEF AgentPolls
<1>6. CASE AgentAnswers
  <2>1. PICK role \in {"calls", "answer"} :
          Responds(role, "good", IF role = "calls" THEN "tools" ELSE "stopped")
    BY <1>6 DEF AgentAnswers
  <2>2. /\ phase = "turn" /\ RecordMessage(role) /\ last' = "good"
        /\ phase' = IF role = "calls" THEN "tools" ELSE "stopped"
    BY <2>1 DEF Responds
  <2> QED
    BY <1>4, <2>2 DEF Roles, Assistants, Failures
<1>7. CASE AgentAborted
  BY <1>4, <1>7 DEF AgentAborted, Responds, Roles, Assistants, Failures
<1>8. CASE AgentFails
  <2>1. PICK role \in Failures :
          /\ phase = "turn" /\ RecordMessage(role) /\ phase' \in {"stopped", "ending"}
    BY <1>8 DEF AgentFails, Responds, Failures
  <2> QED
    BY <1>4, <2>1 DEF Roles, Assistants, Failures
<1>9. CASE ToolResults
  BY <1>4, <1>9 DEF ToolResults, Roles, Assistants, Failures
<1> QED
  BY <1>5, <1>6, <1>7, <1>8, <1>9

LEMMA AgentEndsText ==
  ASSUME LoopType, LoopSound, LoopSound', TextSound, AgentEnds
  PROVE  TextSound'
<1>1. /\ phase = "ending" /\ phase' = "none" /\ run # 0
      /\ UNCHANGED <<last, shown, saved, pendingBash, refused, restored>>
  BY DEF AgentEnds, LoopSound, RunOfLoop, retryVars, textVars, historyVars
<1>2. PICK c \in Calls : c = run
  BY <1>1, AgentSessionAssumption DEF LoopType, Calls
<1>3. Moves(c) /\ pc'[c] = "post"
  BY <1>2, GoesMoves DEF AgentEnds, CallStages
<1>4. \A d \in Calls \ {c} : /\ pc'[d] # "post" /\ pc'[d] # "retry"
                             /\ ~(pc'[d] \in CompactionStages /\ why'[d] = "retry")
  BY <1>3, CallAloneNext DEF InLoop
<1>5. Texts(shown, saved)' /\ InTools' /\ TurnSound'
  BY <1>1 DEF TextSound, Texts, Ordered, InTools, EndsWith, TurnSound
<1>6. FailSound'
  <2>1. Failed' => Failed
    BY <1>1 DEF Failed
  <2> QED
    BY <1>1, <2>1 DEF TextSound, StagesSound, FailSound, EndsWith
<1>7. RetrySound' /\ RecoverySound'
  BY <1>3, <1>4 DEF RetrySound, RecoverySound, CompactionStages
<1> QED
  BY <1>1, <1>5, <1>6, <1>7 DEF TextSound, StagesSound

-----------------------------------------------------------------------------
(* The steps of a call.                                                    *)

(* Those outside the loop.                                                 *)
LEMMA OutsideText ==
  ASSUME LoopType, LoopSound, LoopType', LoopSound', TextSound, NEW c \in Calls,
         \/ Submit(c) \/ Queue(c) \/ Admit(c) \/ Reject(c) \/ CheckBeforePrompt(c)
         \/ AgentSettled(c)
  PROVE  TextSound'
<1>1. ASSUME NEW s \in {"input", "done"}, Goes(c, s),
             UNCHANGED <<phase, last, shown, saved, pendingBash, refused, restored>>
      PROVE  TextSound'
  <2>1. Moves(c) /\ pc'[c] = s
    BY <1>1, GoesMoves DEF CallStages
  <2>2. /\ pendingBash' \in Nat
        /\ \A d \in Calls : pc'[d] \in {"post", "retry"} => pc[d] = pc'[d]
        /\ \A d \in Calls : pc'[d] \in CompactionStages /\ why'[d] = "retry" =>
                             pc[d] \in CompactionStages /\ why[d] = "retry"
    BY <1>1, <2>1 DEF Moves, CompactionStages, TextSound
  <2> QED
    BY <1>1, <2>2, SameText
<1>2. CASE Submit(c)
  BY <1>1, <1>2 DEF Submit, runVars, retryVars, textVars, historyVars
<1>3. CASE Queue(c)
  BY <1>1, <1>3 DEF Queue, runVars, retryVars, textVars
<1>4. CASE Admit(c)
  <2>1. ~active /\ ~active' /\ Flush(shown) /\ UNCHANGED <<refused, restored>>
    BY <1>4 DEF Admit, historyVars
  <2>2. phase = "none"
    BY <2>1, QuietNow
  <2>3. /\ Texts(shown', saved') /\ pendingBash' \in Nat
        /\ ~EndsWith(shown', {"calls"}) /\ ~EndsWith(saved', {"calls"})
    BY <2>1, <2>2, FlushEffect DEF TextSound, InTools
  <2>4. refused' => restored'
    BY <2>1 DEF TextSound
  <2> QED
    BY <2>1, <2>3, <2>4, QuietText
<1>5. CASE Reject(c)
  BY <1>1, <1>5 DEF Reject, runVars, retryVars, textVars, historyVars
<1>6. CASE CheckBeforePrompt(c)
  <2>1. /\ pc[c] = "preflight"
        /\ UNCHANGED <<active, saved, pendingBash, refused, restored>>
    BY <1>6 DEF CheckBeforePrompt
  <2>2. ~active /\ ~active'
    BY <2>1, AdmittedQuiet DEF Admitted
  <2>3. phase = "none"
    BY <2>2, QuietNow
  <2>4. /\ Texts(shown, saved) /\ pendingBash \in Nat /\ (refused => restored)
        /\ ~EndsWith(shown, {"calls"}) /\ ~EndsWith(saved, {"calls"})
    BY <2>3 DEF TextSound, InTools
  <2>5. shown' = shown \/ (LastShown({"overflow"}) /\ shown' = Dropped(shown, Assistants))
    BY <1>6 DEF CheckBeforePrompt
  <2>6. Texts(shown', saved) /\ ~EndsWith(shown', {"calls"})
    <3>1. CASE shown' = shown
      BY <2>4, <3>1
    <3>2. CASE LastShown({"overflow"}) /\ shown' = Dropped(shown, Assistants)
      <4>1. ~EndsWith(shown, Good)
        <5> SUFFICES ASSUME shown # <<>>, shown[Len(shown)] \in Good PROVE FALSE
          BY DEF EndsWith, Last
        <5>1. Len(shown) \in DOMAIN shown /\ \A i \in DOMAIN shown : i <= Len(shown)
          BY <2>4 DEF Texts
        <5>2. PICK i \in DOMAIN shown :
                shown[i] = "overflow" /\ \A j \in DOMAIN shown : j > i => shown[j] \notin Assistants
          BY <3>2 DEF LastShown
        <5>3. i \in Int /\ Len(shown) \in Int /\ i # Len(shown)
          BY <2>4, <5>2 DEF Texts, Good
        <5> QED
          BY <5>1, <5>2, <5>3 DEF Good, Assistants
      <4>2. /\ Dropped(shown, Assistants) \in Seq(Roles)
            /\ Ordered(Dropped(shown, Assistants))
            /\ ~EndsWith(Dropped(shown, Assistants), Good)
        BY <2>4, <4>1, DroppedOrdered DEF Texts
      <4>3. ~EndsWith(saved, Good)
        BY <2>4, <4>1 DEF Texts
      <4> QED
        BY <2>4, <3>2, <4>2, <4>3 DEF Texts, EndsWith, Good
    <3> QED
      BY <2>5, <3>1, <3>2
  <2>7. Texts(shown', saved') /\ ~EndsWith(saved', {"calls"}) /\ pendingBash' \in Nat
        /\ (refused' => restored')
    BY <2>1, <2>4, <2>6
  <2> QED
    BY <2>2, <2>6, <2>7, QuietText
<1>7. CASE AgentSettled(c)
  BY <1>1, <1>7 DEF AgentSettled, runVars, retryVars, textVars, historyVars
<1> QED
  BY <1>2, <1>3, <1>4, <1>5, <1>6, <1>7

LEMMA RunAgentPromptText ==
  ASSUME LoopType, LoopSound, LoopType', LoopSound', TextSound, ~overlap',
         NEW c \in Calls, RunAgentPrompt(c)
  PROVE  TextSound'
<1>1. pc[c] = "start" /\ \A d \in Calls \ {c} : ~InLoop(d)
  BY DEF RunAgentPrompt
<1>2. ~active
  BY <1>1, AdmittedQuiet DEF Admitted
<1>3. phase = "none" /\ run = 0
  BY <1>2, QuietNow DEF LoopSound, RunOfLoop
<1>4. /\ phase' = "poll" /\ RecordMessage("user") /\ pendingBash' = pendingBash
      /\ ~refused'
  BY <1>3 DEF RunAgentPrompt, StartsRun
<1>5. /\ Texts(shown', saved')
      /\ shown' # <<>> /\ Last(shown') = "user"
      /\ saved' # <<>> /\ Last(saved') = "user"
  BY <1>3, <1>4, RecordEffect DEF TextSound, Roles, Assistants, Failures
<1>6. /\ ~EndsWith(shown', {"calls"}) /\ ~EndsWith(saved', {"calls"})
      /\ ~EndsWith(shown', Good) /\ ~EndsWith(shown', Failures)
  BY <1>5 DEF EndsWith, Good, Failures
<1> QED
  BY <1>4, <1>5, <1>6, ResumedText DEF TextSound

(* A compaction behind a run begins.                                       *)
LEMMA BeginCompactionText ==
  ASSUME LoopType, LoopSound', TextSound, NEW c \in Calls, NEW o,
         BeginCompactionOf(c, o), phase = "none",
         o \in {"overflow", "length"} => EndsWith(shown, Failures) /\ EndsWith(saved, Failures),
         restored' = restored
  PROVE  TextSound'
<1>1. /\ phase' = "none" /\ saved' = saved /\ pendingBash' = pendingBash
      /\ refused' = refused
  BY DEF BeginCompactionOf, runVars
<1>2. /\ Texts(shown, saved) /\ pendingBash \in Nat /\ (refused => restored)
      /\ ~EndsWith(shown, {"calls"}) /\ ~EndsWith(saved, {"calls"})
  BY DEF TextSound, InTools
<1>3. CASE o \in {"overflow", "length"} /\ BeginOverflowRecovery(c)
  <2>1. BeginsCompaction(c, "retry") /\ shown' = Dropped(shown, Assistants)
    BY <1>3 DEF BeginOverflowRecovery
  <2>2. Moves(c) /\ pc'[c] = "memory" /\ InLoop(c)'
    BY <2>1, BeginsMoves DEF InLoop, CompactionStages
  <2>3. EndsWith(shown, Assistants) /\ ~EndsWith(saved, Good)
    BY <1>3 DEF EndsWith, Assistants, Failures, Good
  <2>4. shown' \in Seq(Roles) /\ Ordered(shown') /\ ~EndsWith(shown', Good)
    BY <1>2, <2>1, <2>3, DroppedOrdered DEF Texts
  <2>5. ~EndsWith(shown', {"calls"}) /\ Texts(shown', saved')
    BY <1>1, <1>2, <2>3, <2>4 DEF Texts, EndsWith, Good
  <2>6. ~EndsWith(saved', {"calls"}) /\ pendingBash' \in Nat /\ (refused' => restored')
    BY <1>1, <1>2
  <2> QED
    BY <1>1, <2>2, <2>4, <2>5, <2>6, WaitsText
<1>4. CASE BeginThresholdCompaction(c)
  <2>1. BeginsCompaction(c, "threshold") /\ shown' = shown
    BY <1>4 DEF BeginThresholdCompaction
  <2>2. Moves(c) /\ pc'[c] = "memory" /\ why'[c] = "threshold" /\ InLoop(c)'
    BY <2>1, BeginsMoves DEF InLoop, CompactionStages
  <2>3. /\ Texts(shown', saved') /\ pendingBash' \in Nat /\ (refused' => restored')
        /\ ~EndsWith(shown', {"calls"}) /\ ~EndsWith(saved', {"calls"})
    BY <1>1, <1>2, <2>1
  <2> QED
    BY <1>1, <2>2, <2>3, WaitsText
<1> QED
  BY <1>3, <1>4 DEF BeginCompactionOf

LEMMA PostRunText ==
  ASSUME LoopType, LoopSound, LoopType', LoopSound', TextSound, NEW c \in Calls, PostRun(c)
  PROVE  TextSound'
<1>1. pc[c] = "post" /\ InLoop(c) /\ restored' = restored
  BY DEF PostRun, PostRest, InLoop
<1>2. phase = "none"
  BY <1>1, NoRunBetween
<1>3. /\ Texts(shown, saved) /\ pendingBash \in Nat /\ (refused => restored)
      /\ ~EndsWith(shown, {"calls"}) /\ ~EndsWith(saved, {"calls"})
  BY <1>2 DEF TextSound, InTools
<1>4. last \in {"error", "fatal", "overflow", "length"} =>
        /\ EndsWith(shown, Failures) /\ EndsWith(saved, Failures)
        /\ EndsWith(Front(shown), Failures) => restored
  BY <1>1 DEF TextSound, StagesSound, FailSound, Failed
<1>5. CASE PrepareRetry(c)
  <2>1. /\ last = "error" /\ Goes(c, "retry") /\ shown' = Dropped(shown, Assistants)
        /\ UNCHANGED <<phase, saved, pendingBash, refused>>
    BY <1>5 DEF PrepareRetry, runVars
  <2>2. Moves(c) /\ pc'[c] = "retry" /\ InLoop(c)'
    BY <2>1, GoesMoves DEF CallStages, InLoop
  <2>3. EndsWith(shown, Assistants) /\ ~EndsWith(saved, Good)
    BY <1>4, <2>1 DEF EndsWith, Assistants, Failures, Good
  <2>4. /\ shown' \in Seq(Roles) /\ Ordered(shown') /\ ~EndsWith(shown', Good)
        /\ shown' = Front(shown)
    BY <1>3, <2>1, <2>3, DroppedOrdered DEF Texts
  <2>5. /\ ~EndsWith(shown', {"calls"}) /\ Texts(shown', saved')
        /\ ~EndsWith(saved', {"calls"})
    BY <1>3, <2>1, <2>3, <2>4 DEF Texts, EndsWith, Good
  <2>6. EndsWith(shown', Failures) => restored'
    BY <1>1, <1>4, <2>1, <2>4
  <2> QED
    BY <1>1, <1>2, <1>3, <2>1, <2>2, <2>4, <2>5, <2>6, WaitsText DEF CompactionStages
<1>6. CASE BeginCompactionOf(c, last)
  BY <1>1, <1>2, <1>4, <1>6, BeginCompactionText
<1>7. CASE Settles(c, shown) /\ UNCHANGED refused
  BY <1>1, <1>3, <1>7, SettlesText
<1>8. CASE Returns(c, shown, FALSE)
  BY <1>1, <1>3, <1>8, ReturnsText
<1> QED
  BY <1>5, <1>6, <1>7, <1>8 DEF PostRun

LEMMA RetryText ==
  ASSUME LoopType, LoopSound, LoopType', LoopSound', TextSound, NEW c \in Calls,
         RetryElapsed(c) \/ RetryCancelled(c)
  PROVE  TextSound'
<1>1. pc[c] = "retry" /\ InLoop(c) /\ restored' = restored
  BY DEF RetryElapsed, RetryCancelled, PostRest, InLoop
<1>2. phase = "none"
  BY <1>1, NoRunBetween
<1>3. /\ Texts(shown, saved) /\ pendingBash \in Nat /\ (refused => restored)
      /\ ~EndsWith(shown, {"calls"}) /\ ~EndsWith(saved, {"calls"})
  BY <1>2 DEF TextSound, InTools
<1>4. EndsWith(shown, Assistants) => restored
  <2>1. ~EndsWith(shown, Good) /\ (EndsWith(shown, Failures) => restored)
    BY <1>1 DEF TextSound, StagesSound, RetrySound, Resumable
  <2> QED
    BY <2>1 DEF EndsWith, Assistants, Good
<1>5. CASE Continues(c, shown)
  BY <1>1, <1>3, <1>4, <1>5, ContinuesText
<1>6. CASE BeginCompactionOf(c, "error")
  BY <1>1, <1>2, <1>6, BeginCompactionText
<1>7. CASE Returns(c, shown, FALSE)
  BY <1>1, <1>3, <1>7, ReturnsText
<1> QED
  BY <1>5, <1>6, <1>7 DEF RetryElapsed, RetryCancelled

(* The stages of a compaction.                                             *)
LEMMA GivesUpText ==
  ASSUME LoopType, LoopSound, LoopType', LoopSound', NEW c \in Calls,
         pc[c] \in CompactionStages, NEW m, GivesUp(c, m),
         Texts(m, saved), ~EndsWith(m, {"calls"}), ~EndsWith(saved, {"calls"}),
         pendingBash \in Nat, refused => restored, restored => restored'
  PROVE  TextSound'
<1>1. CASE why[c] = "prompt"
  <2>1. ~active
    BY <1>1, AdmittedQuiet DEF Admitted
  <2>2. shown' = m /\ UNCHANGED <<active, saved, pendingBash, refused>>
    BY <1>1 DEF GivesUp
  <2> QED
    BY <2>1, <2>2, QuietText
<1>2. CASE why[c] # "prompt"
  <2>1. InLoop(c) /\ pc[c] # "run" /\ Returns(c, m, FALSE)
    BY <1>2 DEF InLoop, GivesUp, CompactionStages
  <2> QED
    BY <2>1, ReturnsText
<1> QED
  BY <1>1, <1>2

(* A compaction that goes on with the given messages.                      *)
LEMMA NextStageText ==
  ASSUME LoopType, LoopSound, LoopType', LoopSound', TextSound, NEW c \in Calls,
         pc[c] \in CompactionStages, NEW s \in CompactionStages, Goes(c, s),
         UNCHANGED <<active, runVars, pendingBash, refused>>,
         Texts(shown', saved'), ~EndsWith(shown', {"calls"}), ~EndsWith(saved', {"calls"}),
         ~EndsWith(shown, Good) => ~EndsWith(shown', Good), restored => restored'
  PROVE  TextSound'
<1>1. Moves(c) /\ pc'[c] = s /\ why'[c] = why[c]
  BY GoesMoves DEF CallStages
<1>2. pendingBash' \in Nat /\ (refused' => restored')
  BY DEF TextSound
<1>3. CASE why[c] = "prompt"
  <2>1. ~active'
    BY <1>3, AdmittedQuiet DEF Admitted
  <2> QED
    BY <1>2, <2>1, QuietText
<1>4. CASE why[c] # "prompt"
  <2>1. InLoop(c) /\ pc[c] # "run" /\ InLoop(c)'
    BY <1>1, <1>4 DEF InLoop, CompactionStages
  <2>2. phase' = "none"
    BY <2>1, NoRunBetween DEF runVars
  <2>3. why'[c] = "retry" => ~EndsWith(shown', Good)
    BY <1>1 DEF TextSound, StagesSound, RecoverySound
  <2>4. pc'[c] # "post" /\ pc'[c] # "retry"
    BY <1>1 DEF CompactionStages
  <2> QED
    BY <1>2, <2>1, <2>2, <2>3, <2>4, WaitsText
<1> QED
  BY <1>3, <1>4

LEMMA CompactionText ==
  ASSUME LoopType, LoopSound, LoopType', LoopSound', TextSound, NEW c \in Calls,
         \/ CompactionMemory(c) \/ CompactionCancelled(c) \/ CompactionAppended(c)
         \/ CompactionReported(c)
  PROVE  TextSound'
<1>1. pc[c] \in CompactionStages
  BY DEF CompactionMemory, CompactionCancelled, CompactionAppended, CompactionReported,
         CompactionStages
<1>2. phase = "none"
  <2>1. CASE Admitted(c)
    BY <2>1, AdmittedQuiet, QuietNow
  <2>2. CASE ~Admitted(c)
    <3>1. InLoop(c) /\ pc[c] # "run"
      BY <1>1, <2>2 DEF InLoop, Admitted, CompactionStages
    <3> QED
      BY <3>1, NoRunBetween
  <2> QED
    BY <2>1, <2>2
<1>3. /\ Texts(shown, saved) /\ pendingBash \in Nat /\ (refused => restored)
      /\ ~EndsWith(shown, {"calls"}) /\ ~EndsWith(saved, {"calls"})
  BY <1>2 DEF TextSound, InTools
<1>4. CASE CompactionMemory(c)
  <2>1. PICK m \in {shown, saved} :
          /\ Restores(m)
          /\ \/ GivesUp(c, m)
             \/ /\ Goes(c, "hook") /\ shown' = m
                /\ UNCHANGED <<active, runVars, saved, pendingBash, refused>>
    BY <1>4 DEF CompactionMemory
  <2>2. /\ Texts(m, saved) /\ (restored => restored') /\ ~EndsWith(m, {"calls"})
        /\ ~EndsWith(shown, Good) => ~EndsWith(m, Good)
    BY <1>2, <2>1, Replaced
  <2>3. CASE GivesUp(c, m)
    BY <1>1, <1>3, <2>2, <2>3, GivesUpText
  <2>4. CASE /\ Goes(c, "hook") /\ shown' = m
             /\ UNCHANGED <<active, runVars, saved, pendingBash, refused>>
    <3>1. /\ Texts(shown', saved') /\ ~EndsWith(shown', {"calls"})
          /\ ~EndsWith(saved', {"calls"})
          /\ ~EndsWith(shown, Good) => ~EndsWith(shown', Good)
      BY <1>3, <2>2, <2>4
    <3> QED
      BY <1>1, <2>2, <2>4, <3>1, NextStageText DEF CompactionStages
  <2> QED
    BY <2>1, <2>3, <2>4
<1>5. CASE CompactionCancelled(c)
  <2>1. GivesUp(c, shown) /\ restored' = restored
    BY <1>5 DEF CompactionCancelled
  <2> QED
    BY <1>1, <1>3, <2>1, GivesUpText
<1>6. CASE CompactionAppended(c)
  <2>1. /\ Goes(c, "report") /\ AppendCompactionEntry
        /\ UNCHANGED <<active, runVars, pendingBash, refused, restored>>
    BY <1>6 DEF CompactionAppended, historyVars
  <2>2. /\ Texts(shown', saved')
        /\ ~EndsWith(shown', {"calls"}) /\ ~EndsWith(saved', {"calls"})
        /\ ~EndsWith(shown, Good) => ~EndsWith(shown', Good)
    BY <1>3, <2>1, AppendEffect
  <2> QED
    BY <1>1, <2>1, <2>2, NextStageText DEF CompactionStages
<1>7. CASE CompactionReported(c)
  <2>1. CASE GivesUp(c, shown) /\ restored' = restored
    BY <1>1, <1>3, <2>1, GivesUpText
  <2>2. CASE why[c] = "retry" /\ CompactionReported(c)
    <3> DEFINE m == Dropped(shown, Failures)
    <3>1. /\ restored' <=> restored \/ EndsWith(m, Failures)
          /\ Continues(c, m)
      BY <2>2 DEF CompactionReported, WithoutRetryable
    <3>2. InLoop(c) /\ pc[c] # "run"
      BY <1>1, <2>2 DEF InLoop, CompactionStages
    <3>3. ~EndsWith(shown, Good) /\ ~EndsWith(saved, Good)
      BY <1>1, <1>3, <2>2 DEF TextSound, StagesSound, RecoverySound, Texts
    <3>4. m \in Seq(Roles) /\ Ordered(m) /\ ~EndsWith(m, Good)
      BY <1>3, <3>3, DroppedOrdered DEF Texts, Assistants
    <3>5. Texts(m, saved) /\ ~EndsWith(m, {"calls"})
      BY <1>3, <3>3, <3>4 DEF Texts, EndsWith, Good
    <3>6. EndsWith(m, Assistants) => EndsWith(m, Failures)
      BY <3>4 DEF EndsWith, Assistants, Good
    <3> HIDE DEF m
    <3> QED
      BY <1>3, <3>1, <3>2, <3>5, <3>6, ContinuesText
  <2> QED
    BY <1>7, <2>1, <2>2 DEF CompactionReported
<1> QED
  BY <1>4, <1>5, <1>6, <1>7

LEMMA LoopText ==
  ASSUME LoopType, LoopSound, LoopType', LoopSound', TextSound, ~overlap',
         NEW c \in Calls, Submit(c) \/ LoopStep(c)
  PROVE  TextSound'
  BY OutsideText, RunAgentPromptText, PostRunText, RetryText, CompactionText DEF LoopStep

-----------------------------------------------------------------------------
(* The steps beside the loop.                                              *)

(* A manual compaction has the session to itself.                          *)
LEMMA ManualText ==
  ASSUME LoopType, LoopSound, LoopType', LoopSound', TextSound, ManualStep
  PROVE  TextSound'
<1>1. /\ manual \in CompactionStages
      /\ UNCHANGED <<active, phase, pendingBash, refused>>
  BY DEF ManualStep, ManualMemory, ManualCompaction, ManualReported, ManualRest,
         CompactionStages, loopVars, runVars
<1>2. ~active /\ ~active'
  BY <1>1 DEF LoopSound, ManualAlone
<1>3. phase = "none"
  BY <1>2, QuietNow
<1>4. /\ Texts(shown, saved) /\ pendingBash' \in Nat /\ (refused => restored)
      /\ ~EndsWith(shown, {"calls"}) /\ ~EndsWith(saved, {"calls"})
  BY <1>1, <1>3 DEF TextSound, InTools
<1>5. CASE ManualMemory
  <2>1. PICK m \in {shown, saved} : shown' = m /\ saved' = saved /\ Restores(m)
    BY <1>5 DEF ManualMemory, MemoryRuns
  <2>2. Texts(m, saved) /\ (restored => restored') /\ ~EndsWith(m, {"calls"})
    BY <1>3, <2>1, Replaced
  <2>3. Texts(shown', saved') /\ ~EndsWith(shown', {"calls"}) /\ ~EndsWith(saved', {"calls"})
    BY <1>4, <2>1, <2>2
  <2> QED
    BY <1>1, <1>2, <1>4, <2>2, <2>3, QuietText
<1>6. ASSUME UNCHANGED <<shown, saved, restored>> PROVE TextSound'
  <2>1. Texts(shown', saved') /\ ~EndsWith(shown', {"calls"}) /\ ~EndsWith(saved', {"calls"})
    BY <1>4, <1>6
  <2> QED
    BY <1>1, <1>2, <1>4, <1>6, <2>1, QuietText
<1>7. CASE AppendCompactionEntry /\ restored' = restored
  BY <1>1, <1>2, <1>4, <1>7, AppendEffect, QuietText
<1> QED
  BY <1>5, <1>6, <1>7 DEF ManualStep, ManualCompaction, ManualReported

(* A memory run replaces the messages at any time.                         *)
LEMMA MemoryText ==
  ASSUME TextSound, MemoryUpdated
  PROVE  TextSound'
<1>1. /\ UNCHANGED <<pc, why, phase, last, saved, pendingBash, refused>>
      /\ shown' \in {shown, saved} /\ Restores(shown')
  BY DEF MemoryUpdated, MemoryRuns, loopVars, runVars, retryVars
<1>2. PICK m \in {shown, saved} : shown' = m /\ Restores(m)
  BY <1>1
<1>3. /\ Texts(m, saved) /\ (restored => restored')
      /\ EndsWith(m, {"calls"}) <=> phase = "tools"
      /\ ~EndsWith(shown, Good) => ~EndsWith(m, Good)
      /\ (EndsWith(shown, Failures) => restored) => (EndsWith(m, Failures) => restored')
  BY <1>2, Replaced
<1>4. Texts(shown, saved)' /\ InTools'
  BY <1>1, <1>2, <1>3 DEF TextSound, Texts, Ordered, InTools, EndsWith
<1>5. ASSUME Resumable(shown) PROVE Resumable(shown)'
  BY <1>2, <1>3, <1>5 DEF Resumable, EndsWith
<1>6. TurnSound' /\ RetrySound'
  BY <1>1, <1>5 DEF TextSound, StagesSound, TurnSound, RetrySound
<1>7. RecoverySound'
  BY <1>1, <1>2, <1>3 DEF TextSound, StagesSound, RecoverySound, EndsWith
<1>8. FailSound'
  <2> SUFFICES ASSUME Failed
               PROVE  (/\ EndsWith(shown, Failures) /\ EndsWith(saved, Failures)
                       /\ EndsWith(Front(shown), Failures) => restored)'
    BY <1>1 DEF FailSound, Failed
  <2>1. /\ EndsWith(shown, Failures) /\ EndsWith(saved, Failures)
        /\ EndsWith(Front(shown), Failures) => restored
    BY DEF TextSound, StagesSound, FailSound
  <2>2. m # shown => restored'
    BY <1>2, <2>1 DEF Restores
  <2> QED
    BY <1>1, <1>2, <1>3, <2>1, <2>2 DEF EndsWith
<1> QED
  BY <1>1, <1>3, <1>4, <1>6, <1>7, <1>8 DEF TextSound, StagesSound

LEMMA BesideText ==
  ASSUME LoopType, LoopSound, LoopType', LoopSound', TextSound,
         \/ Steer \/ ClearQueue \/ RecordBashResult
         \/ (\E kind \in {"abort", "compact"} : Abort(kind))
         \/ UNCHANGED agentSessionVars
  PROVE  TextSound'
<1>1. CASE UNCHANGED <<pc, why, phase, last, shown, saved, refused, restored>>
           /\ pendingBash' \in Nat
  BY <1>1, SameText
<1>2. CASE Steer \/ ClearQueue
  BY <1>1, <1>2 DEF Steer, ClearQueue, loopVars, runVars, retryVars, textVars, TextSound
<1>3. CASE RecordBashResult
  <2>1. CASE active
    BY <1>1, <1>3, <2>1 DEF RecordBashResult, loopVars, runVars, retryVars, TextSound
  <2>2. CASE ~active
    <3>1. /\ RecordMessage("bash") /\ UNCHANGED <<active, pendingBash, refused, restored>>
      BY <1>3, <2>2 DEF RecordBashResult, loopVars
    <3>2. phase = "none"
      BY <2>2, QuietNow
    <3>3. /\ Texts(shown', saved')
          /\ shown' # <<>> /\ Last(shown') = "bash"
          /\ saved' # <<>> /\ Last(saved') = "bash"
      BY <3>1, <3>2, RecordEffect DEF TextSound, Roles, Assistants, Failures
    <3>4. ~EndsWith(shown', {"calls"}) /\ ~EndsWith(saved', {"calls"})
      BY <3>3 DEF EndsWith
    <3>5. pendingBash' \in Nat /\ (refused' => restored')
      BY <3>1 DEF TextSound
    <3> QED
      BY <2>2, <3>1, <3>3, <3>4, <3>5, QuietText
  <2> QED
    BY <2>1, <2>2
<1>4. ASSUME NEW kind \in {"abort", "compact"}, Abort(kind) PROVE TextSound'
  BY <1>1, <1>4 DEF Abort, loopVars, textVars, TextSound
<1>5. CASE UNCHANGED agentSessionVars
  BY <1>1, <1>5 DEF agentSessionVars, loopVars, runVars, retryVars, textVars, historyVars,
                    TextSound
<1> QED
  BY <1>2, <1>3, <1>4, <1>5

LEMMA TextStep == TextInv /\ [AgentSessionNext]_agentSessionVars => TextInv'
<1> SUFFICES ASSUME TextInv, [AgentSessionNext]_agentSessionVars PROVE TextInv'
  OBVIOUS
<1>1. LoopInv /\ LoopInv'
  BY LoopStepSound DEF TextInv
<1>2. ASSUME ~overlap' PROVE TextSound'
  <2>1. /\ LoopType /\ LoopType' /\ ~overlap
        /\ LoopSound /\ LoopSound' /\ TextSound
    BY <1>1, <1>2, LoopTypeStep DEF LoopInv, TextInv
  <2>2. CASE AgentPolls \/ AgentAnswers \/ AgentAborted \/ AgentFails \/ ToolResults
    BY <2>1, <2>2, AgentText
  <2>3. CASE AgentEnds
    BY <2>1, <2>3, AgentEndsText
  <2>4. ASSUME NEW c \in Calls, Submit(c) \/ LoopStep(c) PROVE TextSound'
    BY <1>2, <2>1, <2>4, LoopText
  <2>5. CASE ManualStep
    BY <2>1, <2>5, ManualText
  <2>6. CASE MemoryUpdated
    BY <2>1, <2>6, MemoryText
  <2>7. CASE \/ Steer \/ ClearQueue \/ RecordBashResult
             \/ (\E kind \in {"abort", "compact"} : Abort(kind))
             \/ UNCHANGED agentSessionVars
    BY <2>1, <2>7, BesideText
  <2> QED
    BY <2>2, <2>3, <2>4, <2>5, <2>6, <2>7 DEF AgentSessionNext, AgentStep
<1> QED
  BY <1>1, <1>2 DEF TextInv

LEMMA TextInit == AgentSessionInit => TextInv
<1> SUFFICES ASSUME AgentSessionInit PROVE TextInv
  OBVIOUS
<1>1. /\ shown = <<>> /\ saved = <<>> /\ pendingBash = 0 /\ phase = "none"
      /\ ~refused /\ \A c \in Calls : pc[c] = "idle"
  BY DEF AgentSessionInit
<1>2. Texts(shown, saved) /\ InTools
  BY <1>1 DEF Texts, Ordered, InTools, EndsWith
<1>3. StagesSound
  BY <1>1 DEF StagesSound, TurnSound, FailSound, Failed, RetrySound, RecoverySound,
              CompactionStages
<1> QED
  BY <1>1, <1>2, <1>3, LoopInit DEF TextInv, TextSound

(* Whatever is queued, recorded, aborted, retried or compacted meanwhile, a  *)
(* call of tools keeps its result next to it, and agent.continue refuses    *)
(* only where a failed response was brought back or was kept behind the    *)
(* dropped one.                                                            *)
THEOREM TranscriptAlwaysAcceptable == AgentSessionSpec => []TranscriptAcceptable
<1>1. TextInv => TranscriptAcceptable
  BY DEF TextInv, TextSound, Texts, Ordered, TranscriptAcceptable, ToolBatchUnbroken,
         ContinueAccepted
<1> QED
  BY <1>1, TextInit, TextStep, PTL DEF AgentSessionSpec

-----------------------------------------------------------------------------
(* The types.  A queued message and a bash result are events, so their      *)
(* number is bounded because that of the events is.                        *)

Phases == {"none", "poll", "turn", "tools", "stopped", "ending"}

TextTypes ==
  /\ shown \in Seq(Roles) /\ saved \in Seq(Roles)
  /\ since \in {"nothing", "entries", "response"}

Counters ==
  /\ steering \in Nat /\ followUps \in Nat /\ pendingBash \in Nat
  /\ events \in 0..MaxEvents
  /\ steering + followUps + pendingBash <= events

RunTypes == phase \in Phases /\ stopping \in BOOLEAN

RetryTypes ==
  /\ last \in Outcomes /\ retryAttempt \in 0..MaxRetries
  /\ retryAborted \in BOOLEAN /\ overflowRecoveryAttempted \in BOOLEAN

RestTypes ==
  /\ updating \in BOOLEAN
  /\ manual \in {"none", "abort", "compact"} \cup CompactionStages
  /\ refused \in BOOLEAN /\ restored \in BOOLEAN

TypesInv == LoopType /\ TextTypes /\ Counters /\ RunTypes /\ RetryTypes /\ RestTypes

LEMMA Bounds ==
  /\ MaxEvents \in Nat /\ MaxRetries \in Nat
BY AgentSessionAssumption

LEMMA RecordTyped ==
  ASSUME TextTypes, NEW role \in Roles, RecordMessage(role)
  PROVE  TextTypes'
BY DEF TextTypes, RecordMessage

LEMMA DroppedTyped ==
  ASSUME NEW s \in Seq(Roles), NEW R
  PROVE  Dropped(s, R) \in Seq(Roles)
<1>1. CASE s = <<>>
  BY <1>1 DEF Dropped, EndsWith
<1>2. CASE s # <<>>
  <2>1. Len(s) \in Nat \ {0}
    BY <1>2
  <2>2. Front(s) \in Seq(Roles)
    <3>1. \A n \in 0..Len(s) : SubSeq(s, 1, n) \in Seq(Roles)
      OBVIOUS
    <3>2. Len(s) - 1 \in 0..Len(s)
      BY <2>1
    <3> QED
      BY <3>1, <3>2 DEF Front
  <2> QED
    BY <2>2 DEF Dropped
<1> QED
  BY <1>1, <1>2

LEMMA FlushTyped ==
  ASSUME TextTypes, pendingBash \in Nat, NEW m \in Seq(Roles), Flush(m)
  PROVE  TextTypes' /\ pendingBash' = 0
<1>1. [i \in 1..pendingBash |-> "bash"] \in Seq(Roles)
  BY DEF Roles
<1>2. PICK bash \in Seq(Roles) : bash = [i \in 1..pendingBash |-> "bash"]
  BY <1>1
<1>3. shown' = m \o bash /\ saved' = saved \o bash
  BY <1>2 DEF Flush
<1>4. shown' \in Seq(Roles) /\ saved' \in Seq(Roles)
  BY <1>3 DEF TextTypes
<1>5. since' \in {"nothing", "entries", "response"} /\ pendingBash' = 0
  BY DEF Flush, TextTypes
<1> QED
  BY <1>4, <1>5 DEF TextTypes

(* What the loop of _runAgentPrompt may have changed when it goes on.       *)
OnTypes ==
  /\ TextTypes' /\ Counters' /\ RunTypes'
  /\ overflowRecoveryAttempted' \in BOOLEAN /\ refused' \in BOOLEAN

LEMMA SettlesTyped ==
  ASSUME TypesInv, NEW c \in Calls, NEW m \in Seq(Roles), Settles(c, m), UNCHANGED runVars,
         UNCHANGED queueVars, UNCHANGED overflowRecoveryAttempted, refused' \in BOOLEAN,
         events' = events
  PROVE  OnTypes
<1>1. TextTypes' /\ pendingBash' = 0
  BY FlushTyped DEF TypesInv, Counters, Settles
<1>2. Counters'
  BY <1>1 DEF TypesInv, Counters, queueVars
<1> QED
  BY <1>1, <1>2 DEF OnTypes, TypesInv, RunTypes, RetryTypes, runVars

LEMMA ContinuesTyped ==
  ASSUME TypesInv, NEW c \in Calls, NEW m \in Seq(Roles), Continues(c, m), events' = events
  PROVE  OnTypes
<1>0. /\ TextTypes /\ Counters /\ RunTypes /\ overflowRecoveryAttempted \in BOOLEAN
      /\ refused \in BOOLEAN
  BY DEF TypesInv, RetryTypes, RestTypes
<1>1. CASE /\ StartsRun(c, "poll") /\ shown' = m
           /\ UNCHANGED <<active, queueVars, saved, since, pendingBash,
                          overflowRecoveryAttempted, refused>>
  <2>1. RunTypes'
    BY <1>1 DEF StartsRun, RunTypes, Phases
  <2>2. Counters'
    BY <1>0, <1>1 DEF Counters, queueVars
  <2>3. TextTypes'
    BY <1>0, <1>1 DEF TextTypes
  <2> QED
    BY <1>0, <1>1, <2>1, <2>2, <2>3 DEF OnTypes
<1>2. CASE /\ steering + followUps > 0
           /\ StartsRun(c, IF steering > 0 THEN "turn" ELSE "poll")
           /\ steering' = IF steering > 0 THEN steering - 1 ELSE 0
           /\ followUps' = IF steering > 0 THEN followUps ELSE followUps - 1
           /\ shown' = Append(m, "user") /\ saved' = Append(saved, "user")
           /\ since' = IF since = "nothing" THEN "entries" ELSE since
           /\ UserStarts
           /\ UNCHANGED <<active, pendingBash, refused>>
  <2>1. RunTypes'
    BY <1>2 DEF StartsRun, RunTypes, Phases
  <2>2. Counters'
    <3>1. /\ steering \in Nat /\ followUps \in Nat /\ pendingBash \in Nat
          /\ events \in 0..MaxEvents /\ MaxEvents \in Nat
          /\ steering + followUps + pendingBash <= events
      BY <1>0, Bounds DEF Counters
    <3>2. steering' \in Nat /\ followUps' \in Nat /\ steering' + followUps' <= steering + followUps
      BY <1>2, <3>1
    <3> QED
      BY <1>2, <3>1, <3>2 DEF Counters
  <2>3. "user" \in Roles
    BY DEF Roles
  <2>4. TextTypes'
    BY <1>0, <1>2, <2>3 DEF TextTypes
  <2> QED
    BY <1>0, <1>2, <2>1, <2>2, <2>4 DEF OnTypes, UserStarts
<1>3. CASE /\ refused' = (refused \/ run = 0)
           /\ Settles(c, m)
           /\ UNCHANGED <<runVars, queueVars, overflowRecoveryAttempted>>
  <2>1. refused' \in BOOLEAN
    BY <1>3
  <2> QED
    BY <1>3, <2>1, SettlesTyped
<1> QED
  BY <1>1, <1>2, <1>3 DEF Continues

LEMMA ReturnsTyped ==
  ASSUME TypesInv, NEW c \in Calls, NEW m \in Seq(Roles), Returns(c, m, FALSE),
         events' = events
  PROVE  OnTypes
<1>1. CASE Continues(c, m)
  BY <1>1, ContinuesTyped
<1>2. CASE /\ Settles(c, m)
           /\ UNCHANGED <<runVars, queueVars, overflowRecoveryAttempted, refused>>
  <2>1. refused' \in BOOLEAN
    BY <1>2 DEF TypesInv, RestTypes
  <2> QED
    BY <1>2, <2>1, SettlesTyped
<1> QED
  BY <1>1, <1>2 DEF Returns

(* Nothing but the messages of the agent changes.                          *)
LEMMA StaysTyped ==
  ASSUME TypesInv, shown' \in Seq(Roles),
         UNCHANGED <<runVars, queueVars, overflowRecoveryAttempted, saved, since, pendingBash,
                     refused, events>>
  PROVE  OnTypes
BY DEF TypesInv, OnTypes, TextTypes, Counters, RunTypes, RetryTypes, RestTypes, runVars,
       queueVars

LEMMA GivesUpTyped ==
  ASSUME TypesInv, NEW c \in Calls, NEW m \in Seq(Roles), GivesUp(c, m), events' = events
  PROVE  OnTypes
<1>1. CASE Returns(c, m, FALSE)
  BY <1>1, ReturnsTyped
<1>2. CASE /\ shown' = m
           /\ UNCHANGED <<active, runVars, queueVars, overflowRecoveryAttempted, saved, since,
                          pendingBash, refused>>
  <2>1. shown' \in Seq(Roles)
    BY <1>2
  <2> QED
    BY <1>2, <2>1, StaysTyped
<1> QED
  BY <1>1, <1>2 DEF GivesUp

LEMMA EntryAppendedTyped ==
  ASSUME TextTypes, AppendCompactionEntry
  PROVE  TextTypes'
<1>1. PICK k \in CutPoints : saved' = Compacted(k) /\ shown' = Compacted(k)
  BY DEF AppendCompactionEntry
<1>2. Compacted(k) \in Seq(Roles)
  <2>1. k \in 2..Len(saved) /\ Len(saved) \in Nat /\ saved \in Seq(Roles)
    BY DEF CutPoints, TextTypes
  <2>2. SubSeq(saved, k, Len(saved)) \in Seq(Roles)
    BY <2>1
  <2>3. <<"summary">> \in Seq(Roles)
    BY DEF Roles
  <2> QED
    BY <2>2, <2>3 DEF Compacted
<1> QED
  BY <1>1, <1>2 DEF TextTypes, AppendCompactionEntry

(* The steps of a run of the agent.                                        *)
LEMMA AgentTyped ==
  ASSUME TypesInv, AgentStep
  PROVE  TextTypes' /\ Counters' /\ RunTypes' /\ RetryTypes' /\ RestTypes'
<1>0. /\ TextTypes /\ Counters /\ RunTypes /\ RetryTypes /\ RestTypes
      /\ MaxEvents \in Nat /\ MaxRetries \in Nat
  BY Bounds DEF TypesInv
<1>1. CASE AgentPolls
  <2>1. /\ UNCHANGED <<stopping, last, retryAttempt, retryAborted, pendingBash, events,
                        updating, manual, refused, restored>>
        /\ Take("turn") \/ Take("ending")
    BY <1>1 DEF AgentPolls, AgentRest
  <2>2. \/ /\ RecordMessage("user") /\ phase' = "turn"
           /\ overflowRecoveryAttempted' = FALSE
        \/ /\ phase' \in {"turn", "ending"}
           /\ UNCHANGED <<shown, saved, since, overflowRecoveryAttempted>>
    <3>1. ASSUME NEW stage \in {"turn", "ending"}, Take(stage)
          PROVE  \/ RecordMessage("user") /\ phase' = "turn" /\ UserStarts
                 \/ /\ phase' = stage
                    /\ UNCHANGED <<shown, saved, since, overflowRecoveryAttempted>>
      BY <3>1, Zenon DEF Take
    <3> QED
      BY <2>1, <3>1 DEF UserStarts
  <2>u. "user" \in Roles
    BY DEF Roles
  <2>3. steering' \in Nat /\ followUps' \in Nat /\ steering' + followUps' <= steering + followUps
    <3>1. steering \in Nat /\ followUps \in Nat
      BY <1>0 DEF Counters
    <3>2. ASSUME NEW stage, Take(stage)
          PROVE  \/ steering > 0 /\ steering' = steering - 1 /\ followUps' = followUps
                 \/ followUps > 0 /\ followUps' = followUps - 1 /\ steering' = steering
                 \/ steering' = steering /\ followUps' = followUps
      BY <3>2, Zenon DEF Take, queueVars
    <3>3. \/ steering > 0 /\ steering' = steering - 1 /\ followUps' = followUps
          \/ followUps > 0 /\ followUps' = followUps - 1 /\ steering' = steering
          \/ steering' = steering /\ followUps' = followUps
      BY <2>1, <3>2
    <3> QED
      BY <3>1, <3>3
  <2>4. Counters'
    <3>1. pendingBash' = pendingBash /\ events' = events
      BY <2>1
    <3>2. /\ steering \in Nat /\ followUps \in Nat /\ pendingBash \in Nat
          /\ events \in 0..MaxEvents /\ MaxEvents \in Nat
          /\ steering + followUps + pendingBash <= events
      BY <1>0 DEF Counters
    <3>3. steering' + followUps' + pendingBash <= events
      <4>1. PICK a \in Nat, b \in Nat : a = steering' /\ b = followUps'
        BY <2>3
      <4>2. a + b <= steering + followUps
        BY <2>3, <4>1
      <4>3. a + b + pendingBash <= events
        BY <3>2, <4>2
      <4> QED
        BY <4>1, <4>3
    <3> QED
      BY <2>3, <3>1, <3>2, <3>3 DEF Counters
  <2>5. TextTypes'
    <3>1. CASE RecordMessage("user")
      BY <1>0, <2>u, <3>1, RecordTyped
    <3>2. CASE UNCHANGED <<shown, saved, since>>
      BY <1>0, <3>2 DEF TextTypes
    <3> QED
      BY <2>2, <3>1, <3>2
  <2>6. RunTypes'
    BY <1>0, <2>1, <2>2 DEF RunTypes, Phases
  <2>7. RetryTypes' /\ RestTypes'
    BY <1>0, <2>1, <2>2 DEF RetryTypes, RestTypes
  <2> QED
    BY <2>4, <2>5, <2>6, <2>7
<1>2. ASSUME NEW role \in Roles, NEW outcome \in Outcomes, NEW stage \in Phases,
             Responds(role, outcome, stage), UNCHANGED events,
             overflowRecoveryAttempted' \in BOOLEAN
      PROVE  TextTypes' /\ Counters' /\ RunTypes' /\ RetryTypes' /\ RestTypes'
  <2>1. /\ RecordMessage(role) /\ phase' = stage /\ last' = outcome
        /\ retryAttempt' \in {0, retryAttempt}
        /\ UNCHANGED <<stopping, queueVars, retryAborted, pendingBash, updating, manual,
                        refused, restored>>
    BY <1>2 DEF Responds, AgentRest
  <2>2. TextTypes'
    BY <1>0, <2>1, RecordTyped
  <2>3. Counters'
    BY <1>0, <1>2, <2>1 DEF Counters, queueVars
  <2>4. RetryTypes'
    BY <1>0, <1>2, <2>1 DEF RetryTypes
  <2> QED
    BY <1>0, <2>1, <2>2, <2>3, <2>4 DEF RunTypes, RestTypes
<1>3. CASE AgentAnswers
  <2>1. \/ Responds("calls", "good", "tools")
        \/ Responds("answer", "good", "stopped")
    BY <1>3 DEF AgentAnswers
  <2>2. UNCHANGED events /\ overflowRecoveryAttempted' \in BOOLEAN
    BY <1>3 DEF AgentAnswers
  <2>3. {"calls", "answer"} \subseteq Roles /\ "good" \in Outcomes /\ {"tools", "stopped"} \subseteq Phases
    BY DEF Roles, Assistants, Outcomes, Phases
  <2> QED
    BY <1>2, <2>1, <2>2, <2>3
<1>4. CASE AgentAborted
  BY <1>2, <1>4 DEF AgentAborted, Roles, Assistants, Outcomes, Phases
<1>5. CASE AgentFails
  <2>1. /\ \/ Responds("error", "error", "ending")
           \/ Responds("error", "fatal", "ending")
           \/ Responds("overflow", "overflow", "ending")
           \/ Responds("overflow", "length", "stopped")
        /\ UNCHANGED events /\ overflowRecoveryAttempted' = overflowRecoveryAttempted
    BY <1>5 DEF AgentFails
  <2>2. /\ {"error", "overflow"} \subseteq Roles
        /\ {"error", "fatal", "overflow", "length"} \subseteq Outcomes
        /\ {"ending", "stopped"} \subseteq Phases
    BY DEF Roles, Assistants, Failures, Outcomes, Phases
  <2>3. overflowRecoveryAttempted' \in BOOLEAN
    BY <1>0, <2>1 DEF RetryTypes
  <2> QED
    BY <1>2, <2>1, <2>2, <2>3
<1>6. CASE ToolResults
  <2>1. /\ RecordMessage("result") /\ "result" \in Roles
        /\ phase' = "poll"
        /\ UNCHANGED <<stopping, queueVars, retryVars, pendingBash, events, updating, manual,
                        refused, restored>>
    BY <1>6 DEF ToolResults, AgentRest, Roles
  <2>2. TextTypes'
    BY <1>0, <2>1, RecordTyped
  <2> QED
    BY <1>0, <2>1, <2>2 DEF Counters, RunTypes, RetryTypes, RestTypes, queueVars, retryVars,
                            Phases
<1>7. CASE AgentEnds
  <2>1. /\ phase' = "none" /\ stopping' = FALSE
        /\ UNCHANGED <<queueVars, retryVars, textVars, updating, manual, historyVars>>
    BY <1>7 DEF AgentEnds
  <2> QED
    BY <1>0, <2>1
      DEF TextTypes, Counters, RunTypes, RetryTypes, RestTypes, queueVars, retryVars, textVars,
          historyVars, Phases
<1> QED
  BY <1>1, <1>3, <1>4, <1>5, <1>6, <1>7 DEF AgentStep

(* Steps of a call outside the loop.                                       *)
LEMMA OutsideTyped ==
  ASSUME TypesInv, NEW c \in Calls,
         \/ Submit(c) \/ Queue(c) \/ Admit(c) \/ Reject(c) \/ CheckBeforePrompt(c)
         \/ RunAgentPrompt(c) \/ AgentSettled(c)
  PROVE  TextTypes' /\ Counters' /\ RunTypes' /\ RetryTypes' /\ RestTypes'
<1>0. /\ TextTypes /\ Counters /\ RunTypes /\ RetryTypes /\ RestTypes
      /\ MaxEvents \in Nat /\ MaxRetries \in Nat
  BY Bounds DEF TypesInv
<1>1. CASE Submit(c) \/ Reject(c)
  <2>1. UNCHANGED <<runVars, queueVars, retryVars, textVars, updating, manual, historyVars>>
    BY <1>1 DEF Submit, Reject
  <2> QED
    BY <1>0, <2>1
      DEF TextTypes, Counters, RunTypes, RetryTypes, RestTypes, runVars, queueVars, retryVars,
          textVars, historyVars
<1>2. CASE Queue(c)
  <2>1. /\ UNCHANGED <<runVars, retryVars, textVars, updating, manual, refused, restored>>
        /\ events' = events + 1 /\ events < MaxEvents
        /\ \/ steering' = steering + 1 /\ followUps' = followUps
           \/ followUps' = followUps + 1 /\ steering' = steering
           \/ steering' = steering /\ followUps' = followUps
    BY <1>2 DEF Queue, Event, queueVars
  <2>2. pendingBash' = pendingBash
    BY <2>1 DEF textVars
  <2>3. Counters'
    BY <1>0, <2>1, <2>2 DEF Counters
  <2> QED
    BY <1>0, <2>1, <2>3
      DEF TextTypes, RunTypes, RetryTypes, RestTypes, runVars, retryVars, textVars
<1>3. CASE Admit(c)
  <2>1. /\ Flush(shown)
        /\ UNCHANGED <<runVars, queueVars, retryVars, updating, manual, historyVars>>
    BY <1>3 DEF Admit
  <2>2. TextTypes' /\ pendingBash' = 0
    BY <1>0, <2>1, FlushTyped DEF TextTypes, Counters
  <2>3. Counters'
    BY <1>0, <2>1, <2>2 DEF Counters, queueVars, historyVars
  <2> QED
    BY <1>0, <2>1, <2>2, <2>3
      DEF RunTypes, RetryTypes, RestTypes, runVars, retryVars, historyVars
<1>4. CASE CheckBeforePrompt(c)
  <2>1. /\ UNCHANGED <<runVars, queueVars, last, retryAttempt, retryAborted, saved, since,
                        pendingBash, updating, manual, refused, restored>>
        /\ \/ shown' = shown
           \/ shown' = Dropped(shown, Assistants)
        /\ overflowRecoveryAttempted' = TRUE \/ UNCHANGED overflowRecoveryAttempted
        /\ Event \/ UNCHANGED events
    BY <1>4 DEF CheckBeforePrompt
  <2>2. shown' \in Seq(Roles)
    BY <1>0, <2>1, DroppedTyped DEF TextTypes
  <2>3. TextTypes'
    BY <1>0, <2>1, <2>2 DEF TextTypes
  <2>4. Counters'
    BY <1>0, <2>1 DEF Counters, Event, queueVars
  <2>5. RetryTypes'
    BY <1>0, <2>1 DEF RetryTypes
  <2> QED
    BY <1>0, <2>1, <2>3, <2>4, <2>5 DEF RunTypes, RestTypes, runVars
<1>5. CASE RunAgentPrompt(c)
  <2>1. UNCHANGED <<queueVars, last, retryAttempt, retryAborted, updating, manual, events>>
    BY <1>5 DEF RunAgentPrompt
  <2>2. CASE /\ StartsRun(c, "poll") /\ RecordMessage("user") /\ UserStarts
             /\ refused' = FALSE /\ restored' = FALSE
             /\ UNCHANGED pendingBash
    <3>1. "user" \in Roles
      BY DEF Roles
    <3>2. TextTypes'
      BY <1>0, <2>2, <3>1, RecordTyped
    <3>3. Counters'
      BY <1>0, <2>1, <2>2 DEF Counters, queueVars
    <3>4. RunTypes'
      BY <2>2 DEF StartsRun, RunTypes, Phases
    <3> QED
      BY <1>0, <2>1, <2>2, <3>2, <3>3, <3>4 DEF RetryTypes, RestTypes, UserStarts
  <2>3. CASE /\ Settles(c, shown)
             /\ UNCHANGED <<runVars, overflowRecoveryAttempted, refused, restored>>
    <3>1. refused' \in BOOLEAN /\ UNCHANGED queueVars /\ events' = events
          /\ shown \in Seq(Roles)
      BY <1>0, <2>1, <2>3 DEF RestTypes, TextTypes
    <3>2. OnTypes
      BY <2>3, <3>1, SettlesTyped
    <3> QED
      BY <1>0, <2>1, <2>3, <3>2 DEF OnTypes, RetryTypes, RestTypes
  <2> QED
    BY <1>5, <2>2, <2>3 DEF RunAgentPrompt
<1>6. CASE AgentSettled(c)
  <2>1. /\ UNCHANGED <<runVars, queueVars, retryVars, textVars, historyVars>>
        /\ updating' = TRUE /\ manual' \in {manual, AfterIdle(manual)}
    BY <1>6 DEF AgentSettled
  <2>2. manual' \in {"none", "abort", "compact"} \cup CompactionStages
    BY <1>0, <2>1 DEF RestTypes, AfterIdle, CompactionStages
  <2> QED
    BY <1>0, <2>1, <2>2
      DEF TextTypes, Counters, RunTypes, RetryTypes, RestTypes, runVars, queueVars, retryVars,
          textVars, historyVars
<1> QED
  BY <1>1, <1>2, <1>3, <1>4, <1>5, <1>6

(* Behind a run.                                                           *)
LEMMA BeginTyped ==
  ASSUME TypesInv, NEW c \in Calls, NEW o, BeginCompactionOf(c, o)
  PROVE  OnTypes
<1>0. /\ TextTypes /\ Counters /\ RunTypes /\ overflowRecoveryAttempted \in BOOLEAN
      /\ refused \in BOOLEAN /\ MaxEvents \in Nat
  BY Bounds DEF TypesInv, RetryTypes, RestTypes
<1>1. /\ UNCHANGED <<runVars, queueVars, saved, since, pendingBash, refused>>
      /\ \/ /\ overflowRecoveryAttempted' = TRUE /\ shown' = Dropped(shown, Assistants)
            /\ UNCHANGED events
         \/ Event /\ UNCHANGED <<shown, overflowRecoveryAttempted>>
  BY DEF BeginCompactionOf, BeginOverflowRecovery, BeginThresholdCompaction
<1>2. shown' \in Seq(Roles) /\ overflowRecoveryAttempted' \in BOOLEAN
  BY <1>0, <1>1, DroppedTyped DEF TextTypes
<1>3. TextTypes'
  BY <1>0, <1>1, <1>2 DEF TextTypes
<1>4. Counters'
  BY <1>0, <1>1 DEF Counters, Event, queueVars
<1>5. RunTypes'
  BY <1>0, <1>1 DEF RunTypes, runVars
<1> QED
  BY <1>0, <1>1, <1>2, <1>3, <1>4, <1>5 DEF OnTypes

LEMMA PostTyped ==
  ASSUME TypesInv, NEW c \in Calls,
         PostRun(c) \/ RetryElapsed(c) \/ RetryCancelled(c)
  PROVE  TextTypes' /\ Counters' /\ RunTypes' /\ RetryTypes' /\ RestTypes'
<1>0. /\ TextTypes /\ Counters /\ RunTypes /\ RetryTypes /\ RestTypes
      /\ MaxEvents \in Nat /\ MaxRetries \in Nat /\ shown \in Seq(Roles)
      /\ last \in Outcomes /\ retryAttempt \in 0..MaxRetries /\ retryAborted \in BOOLEAN
      /\ "none" \in Outcomes /\ restored \in BOOLEAN
  BY Bounds DEF TypesInv, TextTypes, RetryTypes, Outcomes, RestTypes
<1>1. CASE PostRun(c)
  <2>1. last' = "none" /\ UNCHANGED <<retryAborted, updating, manual, restored>>
    BY <1>1 DEF PostRun, PostRest
  <2>2. OnTypes /\ retryAttempt' \in 0..MaxRetries
    <3>1. CASE PrepareRetry(c)
      <4>1. /\ UNCHANGED <<runVars, queueVars, overflowRecoveryAttempted, saved, since,
                            pendingBash, refused, events>>
            /\ shown' = Dropped(shown, Assistants)
            /\ retryAttempt < MaxRetries /\ retryAttempt' = retryAttempt + 1
        BY <3>1 DEF PrepareRetry
      <4>2. shown' \in Seq(Roles)
        BY <1>0, <4>1, DroppedTyped
      <4>3. OnTypes
        BY <4>1, <4>2, StaysTyped
      <4> QED
        BY <1>0, <4>1, <4>3
    <3>2. CASE ~PrepareRetry(c)
      <4>1. /\ retryAttempt' \in {0, retryAttempt}
            /\ \/ BeginCompactionOf(c, last)
               \/ /\ Settles(c, shown)
                  /\ UNCHANGED <<runVars, queueVars, overflowRecoveryAttempted, refused, events>>
               \/ Returns(c, shown, FALSE) /\ UNCHANGED events
        BY <1>1, <3>2 DEF PostRun
      <4>r. retryAttempt' \in 0..MaxRetries
        BY <1>0, <4>1
      <4>2. CASE BeginCompactionOf(c, last)
        BY <4>r, <4>2, BeginTyped
      <4>3. CASE /\ Settles(c, shown)
                 /\ UNCHANGED <<runVars, queueVars, overflowRecoveryAttempted, refused, events>>
        <5>1. refused' \in BOOLEAN
          BY <1>0, <4>3 DEF RestTypes
        <5>2. /\ Settles(c, shown) /\ UNCHANGED runVars /\ UNCHANGED queueVars
              /\ UNCHANGED overflowRecoveryAttempted /\ events' = events
              /\ shown \in Seq(Roles)
          BY <1>0, <4>3
        <5>3. OnTypes
          BY <5>1, <5>2, SettlesTyped
        <5> QED
          BY <4>r, <5>3
      <4>4. CASE Returns(c, shown, FALSE) /\ UNCHANGED events
        BY <1>0, <4>r, <4>4, ReturnsTyped
      <4> QED
        BY <4>1, <4>2, <4>3, <4>4
    <3> QED
      BY <3>1, <3>2
  <2> QED
    BY <1>0, <2>1, <2>2 DEF OnTypes, RetryTypes, RestTypes
<1>2. CASE RetryElapsed(c)
  <2>1. /\ Continues(c, shown) /\ events' = events
        /\ UNCHANGED <<last, retryAttempt, retryAborted, updating, manual, restored>>
    BY <1>2 DEF RetryElapsed, PostRest
  <2>2. OnTypes
    BY <1>0, <2>1, ContinuesTyped
  <2> QED
    BY <1>0, <2>1, <2>2 DEF OnTypes, RetryTypes, RestTypes
<1>3. CASE RetryCancelled(c)
  <2>1. /\ retryAttempt' = 0 /\ retryAborted' = FALSE
        /\ UNCHANGED <<last, updating, manual, restored>>
        /\ \/ BeginCompactionOf(c, "error")
           \/ Returns(c, shown, FALSE) /\ UNCHANGED events
    BY <1>3 DEF RetryCancelled
  <2>2. OnTypes
    <3>1. CASE BeginCompactionOf(c, "error")
      BY <3>1, BeginTyped
    <3>2. CASE Returns(c, shown, FALSE) /\ UNCHANGED events
      BY <1>0, <3>2, ReturnsTyped
    <3> QED
      BY <2>1, <3>1, <3>2
  <2>3. retryAttempt' \in 0..MaxRetries
    BY <1>0, <2>1
  <2>4. retryAborted' \in BOOLEAN
    BY <2>1
  <2> QED
    BY <1>0, <2>1, <2>2, <2>3, <2>4 DEF OnTypes, RetryTypes, RestTypes
<1> QED
  BY <1>1, <1>2, <1>3

(* Compactions.                                                            *)
LEMMA CompactionTyped ==
  ASSUME TypesInv, NEW c \in Calls,
         \/ CompactionMemory(c) \/ CompactionCancelled(c) \/ CompactionAppended(c)
         \/ CompactionReported(c)
  PROVE  TextTypes' /\ Counters' /\ RunTypes' /\ RetryTypes' /\ RestTypes'
<1>0. /\ TextTypes /\ Counters /\ RunTypes /\ RetryTypes /\ RestTypes
      /\ shown \in Seq(Roles) /\ saved \in Seq(Roles) /\ restored \in BOOLEAN
  BY DEF TypesInv, TextTypes, RestTypes
<1>1. ASSUME OnTypes, restored' \in BOOLEAN, UNCHANGED CompactionRest, UNCHANGED updating
      PROVE  TextTypes' /\ Counters' /\ RunTypes' /\ RetryTypes' /\ RestTypes'
  BY <1>0, <1>1 DEF OnTypes, CompactionRest, RetryTypes, RestTypes
<1>2. CASE CompactionMemory(c)
  <2>1. PICK m \in {shown, saved} :
          /\ Restores(m)
          /\ \/ GivesUp(c, m)
             \/ /\ shown' = m
                /\ UNCHANGED <<active, runVars, queueVars, overflowRecoveryAttempted, saved,
                               since, pendingBash, refused>>
    BY <1>2 DEF CompactionMemory
  <2>2. UNCHANGED CompactionRest /\ UNCHANGED updating /\ events' = events
    BY <1>2 DEF CompactionMemory, CompactionRest
  <2>3. m \in Seq(Roles) /\ restored' \in BOOLEAN
    BY <1>0, <2>1 DEF Restores
  <2>4. OnTypes
    <3>1. CASE GivesUp(c, m)
      BY <2>2, <2>3, <3>1, GivesUpTyped
    <3>2. CASE /\ shown' = m
               /\ UNCHANGED <<active, runVars, queueVars, overflowRecoveryAttempted, saved,
                              since, pendingBash, refused>>
      <4>1. shown' \in Seq(Roles)
        BY <2>3, <3>2
      <4>2. UNCHANGED <<runVars, queueVars, overflowRecoveryAttempted, saved, since,
                        pendingBash, refused, events>>
        BY <2>2, <3>2
      <4> QED
        BY <4>1, <4>2, StaysTyped
    <3> QED
      BY <2>1, <3>1, <3>2
  <2> QED
    BY <1>1, <2>2, <2>3, <2>4
<1>3. CASE CompactionCancelled(c)
  <2>1. GivesUp(c, shown) /\ UNCHANGED CompactionRest /\ UNCHANGED updating
        /\ restored' = restored /\ events' = events
    BY <1>3 DEF CompactionCancelled, CompactionRest
  <2>2. OnTypes
    BY <1>0, <2>1, GivesUpTyped
  <2>3. restored' \in BOOLEAN
    BY <1>0, <2>1
  <2> QED
    BY <1>1, <2>1, <2>2, <2>3
<1>4. CASE CompactionAppended(c)
  <2>1. /\ AppendCompactionEntry
        /\ UNCHANGED <<runVars, queueVars, retryVars, pendingBash, updating, manual,
                        historyVars>>
    BY <1>4 DEF CompactionAppended
  <2>2. TextTypes'
    BY <1>0, <2>1, EntryAppendedTyped
  <2> QED
    BY <1>0, <2>1, <2>2
      DEF Counters, RunTypes, RetryTypes, RestTypes, runVars, queueVars, retryVars, historyVars
<1>5. CASE CompactionReported(c)
  <2>1. UNCHANGED CompactionRest /\ UNCHANGED updating /\ events' = events
    BY <1>5 DEF CompactionReported, CompactionRest
  <2>2. CASE /\ restored' = (restored \/ EndsWith(Dropped(shown, Failures), Failures))
             /\ Continues(c, WithoutRetryable(shown))
    <3>1. WithoutRetryable(shown) \in Seq(Roles)
      BY <1>0, DroppedTyped DEF WithoutRetryable
    <3>2. OnTypes
      BY <2>1, <2>2, <3>1, ContinuesTyped
    <3>3. restored' \in BOOLEAN
      BY <2>2
    <3> QED
      BY <1>1, <2>1, <3>2, <3>3
  <2>3. CASE GivesUp(c, shown) /\ UNCHANGED restored
    <3>1. OnTypes
      BY <1>0, <2>1, <2>3, GivesUpTyped
    <3>2. restored' \in BOOLEAN
      BY <1>0, <2>3
    <3> QED
      BY <1>1, <2>1, <3>1, <3>2
  <2> QED
    BY <1>5, <2>2, <2>3 DEF CompactionReported
<1> QED
  BY <1>2, <1>3, <1>4, <1>5

LEMMA ManualTyped ==
  ASSUME TypesInv, ManualStep
  PROVE  TextTypes' /\ Counters' /\ RunTypes' /\ RetryTypes' /\ RestTypes'
<1>0. /\ TextTypes /\ Counters /\ RunTypes /\ RetryTypes /\ RestTypes
      /\ shown \in Seq(Roles) /\ saved \in Seq(Roles) /\ restored \in BOOLEAN
  BY DEF TypesInv, TextTypes, RestTypes
<1>1. /\ UNCHANGED <<ManualRest, updating>>
      /\ manual' \in {"none", "hook", "report"}
  BY DEF ManualStep, ManualMemory, ManualCompaction, ManualReported
<1>2. Counters' /\ RunTypes' /\ RetryTypes'
  BY <1>0, <1>1
    DEF ManualRest, Counters, RunTypes, RetryTypes, runVars, queueVars, retryVars
<1>3. TextTypes' /\ restored' \in BOOLEAN
  <2>1. CASE ManualMemory
    <3>1. shown' \in {shown, saved} /\ UNCHANGED <<saved, since>>
          /\ restored' = (restored \/ (EndsWith(shown', Failures) /\ shown' # shown))
      BY <2>1 DEF ManualMemory, MemoryRuns, Restores
    <3>2. restored' \in BOOLEAN
      BY <3>1
    <3> QED
      BY <1>0, <3>1, <3>2 DEF TextTypes
  <2>2. CASE AppendCompactionEntry /\ restored' = restored
    BY <1>0, <2>2, EntryAppendedTyped
  <2>3. CASE UNCHANGED <<shown, saved, since, restored>>
    BY <1>0, <2>3 DEF TextTypes
  <2> QED
    BY <2>1, <2>2, <2>3 DEF ManualStep, ManualCompaction, ManualReported
<1>4. RestTypes'
  BY <1>0, <1>1, <1>3 DEF ManualRest, RestTypes, CompactionStages
<1> QED
  BY <1>2, <1>3, <1>4

(* The embedder, and a memory run in the background.                       *)
LEMMA BesideTyped ==
  ASSUME TypesInv,
         \/ MemoryUpdated \/ Steer \/ ClearQueue \/ RecordBashResult
         \/ (\E kind \in {"abort", "compact"} : Abort(kind))
         \/ UNCHANGED agentSessionVars
  PROVE  TextTypes' /\ Counters' /\ RunTypes' /\ RetryTypes' /\ RestTypes'
<1>0. /\ TextTypes /\ Counters /\ RunTypes /\ RetryTypes /\ RestTypes
      /\ MaxEvents \in Nat
  BY Bounds DEF TypesInv
<1>1. CASE MemoryUpdated
  <2>1. /\ UNCHANGED <<runVars, queueVars, retryVars, saved, since, pendingBash, manual,
                        refused, events>>
        /\ updating' = FALSE /\ shown' \in {shown, saved}
        /\ restored' = (restored \/ (EndsWith(shown', Failures) /\ shown' # shown))
    BY <1>1 DEF MemoryUpdated, MemoryRuns, Restores
  <2>2. restored' \in BOOLEAN
    BY <2>1
  <2>3. TextTypes'
    BY <1>0, <2>1 DEF TextTypes
  <2> QED
    BY <1>0, <2>1, <2>2, <2>3
      DEF Counters, RunTypes, RetryTypes, RestTypes, runVars, queueVars, retryVars
<1>2. CASE Steer \/ ClearQueue
  <2>1. /\ UNCHANGED <<runVars, retryVars, textVars, updating, manual, refused, restored>>
        /\ events' = events + 1 /\ events < MaxEvents
        /\ \/ steering' = steering + 1 /\ followUps' = followUps
           \/ followUps' = followUps + 1 /\ steering' = steering
           \/ steering' = 0 /\ followUps' = 0
    BY <1>2 DEF Steer, ClearQueue, Event
  <2>2. pendingBash' = pendingBash
    BY <2>1 DEF textVars
  <2>3. Counters'
    BY <1>0, <2>1, <2>2 DEF Counters
  <2> QED
    BY <1>0, <2>1, <2>3
      DEF TextTypes, RunTypes, RetryTypes, RestTypes, runVars, retryVars, textVars
<1>3. CASE RecordBashResult
  <2>1. /\ UNCHANGED <<runVars, queueVars, retryVars, updating, manual, refused, restored>>
        /\ events' = events + 1 /\ events < MaxEvents
        /\ \/ pendingBash' = pendingBash + 1 /\ UNCHANGED <<shown, saved, since>>
           \/ pendingBash' = pendingBash /\ RecordMessage("bash")
    BY <1>3 DEF RecordBashResult, Event
  <2>2. Counters'
    BY <1>0, <2>1 DEF Counters, queueVars
  <2>3. TextTypes'
    <3>1. CASE RecordMessage("bash")
      BY <1>0, <3>1, RecordTyped DEF Roles
    <3>2. CASE UNCHANGED <<shown, saved, since>>
      BY <1>0, <3>2 DEF TextTypes
    <3> QED
      BY <2>1, <3>1, <3>2
  <2> QED
    BY <1>0, <2>1, <2>2, <2>3 DEF RunTypes, RetryTypes, RestTypes, runVars, retryVars
<1>4. ASSUME NEW kind \in {"abort", "compact"}, Abort(kind)
      PROVE  TextTypes' /\ Counters' /\ RunTypes' /\ RetryTypes' /\ RestTypes'
  <2>1. /\ UNCHANGED <<phase, queueVars, last, retryAttempt, overflowRecoveryAttempted, textVars,
                        updating, refused, restored>>
        /\ events' = events + 1 /\ events < MaxEvents
        /\ retryAborted' = (\E c \in Calls : pc[c] = "retry") /\ stopping' = (run # 0)
        /\ manual' \in {kind, AfterIdle(kind)}
    BY <1>4 DEF Abort, Event
  <2>2. retryAborted' \in BOOLEAN /\ stopping' \in BOOLEAN
    BY <2>1
  <2>3. manual' \in {"none", "abort", "compact"} \cup CompactionStages
    BY <1>4, <2>1 DEF AfterIdle, CompactionStages
  <2>4. Counters'
    BY <1>0, <2>1 DEF Counters, queueVars, textVars
  <2> QED
    BY <1>0, <2>1, <2>2, <2>3, <2>4
      DEF TextTypes, RunTypes, RetryTypes, RestTypes, textVars
<1>5. CASE UNCHANGED agentSessionVars
  BY <1>0, <1>5
    DEF TextTypes, Counters, RunTypes, RetryTypes, RestTypes, agentSessionVars, runVars,
        queueVars, retryVars, textVars, historyVars
<1> QED
  BY <1>1, <1>2, <1>3, <1>4, <1>5

LEMMA TypesStep == TypesInv /\ [AgentSessionNext]_agentSessionVars => TypesInv'
<1> SUFFICES ASSUME TypesInv, [AgentSessionNext]_agentSessionVars
    PROVE  TypesInv'
  OBVIOUS
<1>1. LoopType'
  BY LoopTypeStep DEF TypesInv
<1>2. TextTypes' /\ Counters' /\ RunTypes' /\ RetryTypes' /\ RestTypes'
  <2>1. ASSUME NEW c \in Calls, Submit(c) \/ LoopStep(c)
        PROVE  TextTypes' /\ Counters' /\ RunTypes' /\ RetryTypes' /\ RestTypes'
    BY <2>1, OutsideTyped, PostTyped, CompactionTyped DEF LoopStep
  <2> QED
    BY <2>1, AgentTyped, ManualTyped, BesideTyped DEF AgentSessionNext
<1> QED
  BY <1>1, <1>2 DEF TypesInv

LEMMA TypesInit == AgentSessionInit => TypesInv
<1> SUFFICES ASSUME AgentSessionInit
    PROVE  TypesInv
  OBVIOUS
<1>1. LoopType
  BY LoopInit DEF LoopInv
<1>2. TextTypes
  BY DEF AgentSessionInit, TextTypes
<1>3. Counters
  BY Bounds DEF AgentSessionInit, Counters
<1>4. RetryTypes
  <2>1. 0 \in 0..MaxRetries
    BY Bounds
  <2> QED
    BY <2>1 DEF AgentSessionInit, RetryTypes, Outcomes
<1>5. RunTypes /\ RestTypes
  BY DEF AgentSessionInit, RunTypes, RestTypes, Phases
<1> QED
  BY <1>1, <1>2, <1>3, <1>4, <1>5 DEF TypesInv

LEMMA TypesHold == TypesInv => AgentSessionTypeOK
<1> SUFFICES ASSUME TypesInv
    PROVE  AgentSessionTypeOK
  OBVIOUS
<1>1. {steering, followUps, pendingBash, events} \subseteq 0..MaxEvents
  BY Bounds DEF TypesInv, Counters
<1> QED
  BY <1>1 DEF TypesInv, LoopType, TextTypes, RunTypes, RetryTypes, RestTypes, Phases,
              AgentSessionTypeOK

-----------------------------------------------------------------------------
(* Session memory.  The inductive invariant says what the tree of entries   *)
(* is and what a run remembers of the branch it began on, beside the       *)
(* properties: a run that finds its branch current again finds there what  *)
(* it had read.                                                            *)

(* The entries form a tree: a branch holds its entry, only older ones, and   *)
(* the branch of each of them.                                              *)
TreeSound ==
  \A i \in DOMAIN entries :
    /\ entries[i].branch \subseteq 1..i /\ i \in entries[i].branch
    /\ \A j \in entries[i].branch : entries[j].branch \subseteq entries[i].branch
    /\ entries[i].kind # "none" => entries[i].type = "memory"
    /\ entries[i].type = "message" => entries[i].message # 0
    /\ entries[i].supersedes \subseteq DOMAIN entries

(* What a run remembers of the branch it began on.                          *)
RunSound(r) ==
  /\ r.leaf \in 0..Len(entries)
  /\ r.observed \subseteq UnprocessedMessages(r.leaf)
  /\ r.replaced \subseteq ActiveMemory(r.leaf, {"reflection"})
  /\ r.replaced # {} => r.reflections = 1
  /\ r.pool \subseteq {i \in DOMAIN entries : entries[i].kind = "observation"}

RunsSound == \A s \in Slots : RunSound(runs[s])

MemoryInv ==
  /\ TypeOK /\ TreeSound /\ RunsSound
  /\ SourcesOnBranch /\ ObservedOnce /\ ProvenanceKept
  /\ NothingUnsaved

(* Entries that may be appended to the branch of l.                         *)
Listed(l, list) ==
  /\ list \in Seq(Entry)
  /\ \A k \in DOMAIN list :
       /\ list[k].kind # "none" => list[k].type = "memory"
       /\ list[k].type = "message" => list[k].message # 0
       /\ list[k].type = "memory" => list[k].sources \subseteq Messages(l)
       /\ list[k].kind = "observation" =>
            k = 1 /\ list[k].sources \cap SourcesOf(Memories(l)) = {}
       /\ \A i \in list[k].supersedes :
            /\ i \in DOMAIN entries
            /\ entries[i].kind = "reflection" =>
                 \E m \in 1..(k - 1) : /\ list[m].kind = "reflection"
                                       /\ entries[i].sources \subseteq list[m].sources

(* The entries there were stay as they are.                                 *)
EntriesExtended ==
  /\ entries' \in Seq(Entry) /\ Len(entries') >= Len(entries)
  /\ \A i \in 1..Len(entries) : entries'[i] = entries[i]

LEMMA EntryTyped ==
  ASSUME TypeOK, NEW i \in 1..Len(entries)
  PROVE  /\ entries[i] \in Entry /\ entries[i].branch \subseteq Nat \ {0}
         /\ entries[i].sources \subseteq Nat \ {0} /\ entries[i].supersedes \subseteq Nat \ {0}
         /\ entries[i].message \in 0..MaxMessages /\ entries[i].kind \in Kinds \cup {"none"}
<1>1. entries[i] \in Entry
  BY DEF TypeOK
<1> QED
  BY <1>1 DEF Entry

LEMMA EntriesCounted ==
  ASSUME TypeOK
  PROVE  /\ Len(entries) \in Nat /\ DOMAIN entries = 1..Len(entries) /\ entries \in Seq(Entry)
         /\ leaf \in 0..Len(entries)
BY DEF TypeOK

LEMMA BranchKnown ==
  ASSUME TypeOK, TreeSound, NEW l \in 0..Len(entries)
  PROVE  /\ GetBranch(l) \subseteq 1..l /\ GetBranch(l) \subseteq DOMAIN entries
         /\ \A j \in GetBranch(l) : GetBranch(j) \subseteq GetBranch(l)
         /\ l # 0 => l \in GetBranch(l)
<1>1. CASE l = 0
  BY <1>1 DEF GetBranch
<1>2. CASE l # 0
  <2>1. l \in DOMAIN entries /\ Len(entries) \in Nat /\ DOMAIN entries = 1..Len(entries)
    BY <1>2, EntriesCounted
  <2>2. entries[l].branch \subseteq 1..l /\ GetBranch(l) = entries[l].branch
    BY <1>2, <2>1 DEF TreeSound, GetBranch
  <2> QED
    BY <1>2, <2>1, <2>2 DEF TreeSound, GetBranch
<1> QED
  BY <1>1, <1>2

LEMMA Concatenated ==
  ASSUME NEW S, NEW a \in Seq(S), NEW b \in Seq(S)
  PROVE  /\ a \o b \in Seq(S) /\ Len(a \o b) = Len(a) + Len(b)
         /\ \A i \in 1..Len(a) : (a \o b)[i] = a[i]
         /\ \A k \in 1..Len(b) : (a \o b)[Len(a) + k] = b[k]
<1>1. Len(a) \in Nat /\ Len(b) \in Nat
  OBVIOUS
<1>2. a \o b \in Seq(S) /\ Len(a \o b) = Len(a) + Len(b)
  OBVIOUS
<1>3. \A i \in 1..Len(a) : (a \o b)[i] = a[i]
  BY <1>1
<1>4. \A k \in 1..Len(b) : (a \o b)[Len(a) + k] = b[k]
  BY <1>1
<1> QED
  BY <1>2, <1>3, <1>4

LEMMA EntriesAppended ==
  ASSUME TypeOK, NEW list \in Seq(Entry), AppendEntries(list)
  PROVE  /\ EntriesExtended
         /\ Len(entries') = Len(entries) + Len(list)
         /\ \A k \in 1..Len(list) :
              LET e == entries'[Len(entries) + k] IN
              /\ e.type = list[k].type /\ e.kind = list[k].kind /\ e.message = list[k].message
              /\ e.sources = list[k].sources /\ e.supersedes = list[k].supersedes
              /\ e.branch = GetBranch(leaf) \cup (Len(entries) + 1)..(Len(entries) + k)
         /\ leaf' \in 0..Len(entries')
         /\ Len(list) = 0 => leaf' = leaf
         /\ Len(list) # 0 => leaf' = Len(entries) + Len(list)
<1> DEFINE n == Len(entries)
           b(k) == GetBranch(leaf) \cup (n + 1)..(n + k)
           more == [i \in 1..Len(list) |-> [list[i] EXCEPT !.branch = b(i)]]
<1>1. n \in Nat /\ Len(list) \in Nat /\ entries \in Seq(Entry)
  BY EntriesCounted
<1>2. GetBranch(leaf) \subseteq Nat \ {0}
  BY EntriesCounted, EntryTyped DEF GetBranch
<1>3. \A k \in 1..Len(list) :
        /\ more[k] \in Entry
        /\ more[k].type = list[k].type /\ more[k].kind = list[k].kind
        /\ more[k].message = list[k].message /\ more[k].sources = list[k].sources
        /\ more[k].supersedes = list[k].supersedes /\ more[k].branch = b(k)
  <2> TAKE k \in 1..Len(list)
  <2>1. list[k] \in Entry /\ b(k) \subseteq Nat \ {0}
    BY <1>1, <1>2
  <2>2. more[k] = [list[k] EXCEPT !.branch = b(k)]
    OBVIOUS
  <2> QED
    BY <2>1, <2>2 DEF Entry
<1>4. more \in Seq(Entry) /\ Len(more) = Len(list)
  BY <1>1, <1>3
<1>5. entries' = entries \o more /\ leaf' = IF list = <<>> THEN leaf ELSE n + Len(list)
  BY DEF AppendEntries
<1> HIDE DEF more, b
<1>6. /\ entries' \in Seq(Entry) /\ Len(entries') = n + Len(list)
      /\ \A i \in 1..n : entries'[i] = entries[i]
      /\ \A k \in 1..Len(list) : entries'[n + k] = more[k]
  <2>0. entries \in Seq(Entry) /\ more \in Seq(Entry)
    BY <1>1, <1>4
  <2>1. /\ entries \o more \in Seq(Entry) /\ Len(entries \o more) = Len(entries) + Len(more)
        /\ \A i \in 1..Len(entries) : (entries \o more)[i] = entries[i]
        /\ \A k \in 1..Len(more) : (entries \o more)[Len(entries) + k] = more[k]
    BY ONLY <2>0, Concatenated
  <2> QED
    BY <2>1, <1>4, <1>5
<1>7. Len(list) = 0 <=> list = <<>>
  BY <1>1
<1>8. leaf' \in 0..Len(entries')
  BY <1>1, <1>5, <1>6, <1>7, EntriesCounted
<1> QED
  BY <1>1, <1>3, <1>5, <1>6, <1>7, <1>8 DEF b, EntriesExtended

(* What a position shows does not change when entries are appended.         *)
LEMMA BranchStays ==
  ASSUME TypeOK, TreeSound, EntriesExtended, NEW l \in 0..Len(entries)
  PROVE  /\ l \in 0..Len(entries') /\ GetBranch(l)' = GetBranch(l)
         /\ Messages(l)' = Messages(l) /\ Memories(l)' = Memories(l)
         /\ SourcesOf(Memories(l))' = SourcesOf(Memories(l))
         /\ UnprocessedMessages(l)' = UnprocessedMessages(l)
         /\ \A kinds : ActiveMemory(l, kinds)' = ActiveMemory(l, kinds)
         /\ Shown(l)' = Shown(l) /\ Context(l)' = Context(l)
<1>0. Len(entries) \in Nat /\ DOMAIN entries = 1..Len(entries) /\ Len(entries') \in Nat
      /\ DOMAIN entries' = 1..Len(entries')
  BY EntriesCounted DEF EntriesExtended
<1>1. GetBranch(l)' = GetBranch(l) /\ l \in 0..Len(entries')
  BY <1>0 DEF GetBranch, EntriesExtended
<1>2. \A i \in GetBranch(l) : entries'[i] = entries[i]
  BY <1>0, BranchKnown DEF EntriesExtended
<1>3. Messages(l)' = Messages(l) /\ Memories(l)' = Memories(l)
  BY <1>1, <1>2 DEF Messages, Memories
<1>4. \A i \in Memories(l) \cup Messages(l) : entries'[i] = entries[i]
  BY <1>2 DEF Memories, Messages
<1>5. SourcesOf(Memories(l))' = SourcesOf(Memories(l))
  BY <1>3, <1>4 DEF SourcesOf
<1>6. UnprocessedMessages(l)' = UnprocessedMessages(l)
  BY <1>3, <1>5 DEF UnprocessedMessages
<1>7. ASSUME NEW kinds
      PROVE  ActiveMemory(l, kinds)' = ActiveMemory(l, kinds)
  <2>1. UNION {entries'[i].supersedes : i \in Memories(l)'} =
          UNION {entries[i].supersedes : i \in Memories(l)}
    BY <1>3, <1>4
  <2> QED
    BY <1>3, <1>4, <2>1 DEF ActiveMemory
<1>8. Shown(l)' = Shown(l)
  BY <1>1, <1>2, <1>3 DEF Shown
<1>9. \A i \in Shown(l) : entries'[i] = entries[i]
  BY <1>4 DEF Shown
<1>10. Context(l)' = Context(l)
  BY <1>8, <1>9 DEF Context
<1> QED
  BY <1>1, <1>3, <1>5, <1>6, <1>7, <1>8, <1>10

(* The sources of what is remembered of a branch are messages of it.        *)
LEMMA SourcesKnown ==
  ASSUME TypeOK, TreeSound, SourcesOnBranch, NEW l \in 0..Len(entries), NEW j \in Memories(l)
  PROVE  /\ j \in DOMAIN entries /\ entries[j].sources \subseteq Messages(l)
         /\ entries[j].sources \subseteq SourcesOf(Memories(l))
<1>1. j \in GetBranch(l) /\ j \in DOMAIN entries /\ entries[j].type = "memory"
  BY BranchKnown DEF Memories
<1>2. GetBranch(j) \subseteq GetBranch(l)
  BY <1>1, BranchKnown
<1>3. entries[j].sources \subseteq Messages(j)
  BY <1>1 DEF SourcesOnBranch
<1> QED
  BY <1>1, <1>2, <1>3 DEF Messages, SourcesOf

-----------------------------------------------------------------------------
(* Appending entries.                                                      *)

LEMMA RunStays ==
  ASSUME TypeOK, TreeSound, EntriesExtended, NEW r \in Run, RunSound(r)
  PROVE  RunSound(r)'
<1>1. PICK l \in 0..Len(entries) : l = r.leaf
  BY DEF RunSound
<1>2. /\ l \in 0..Len(entries') /\ UnprocessedMessages(l)' = UnprocessedMessages(l)
      /\ \A kinds : ActiveMemory(l, kinds)' = ActiveMemory(l, kinds)
  BY BranchStays
<1>3. \A i \in DOMAIN entries : i \in DOMAIN entries' /\ entries'[i] = entries[i]
  BY EntriesCounted DEF EntriesExtended
<1> QED
  BY <1>1, <1>2, <1>3 DEF RunSound

LEMMA RunsKept ==
  ASSUME TypeOK, TreeSound, RunsSound, EntriesExtended,
         \A s \in Slots : runs'[s] = runs[s] \/ RunSound(runs[s])'
  PROVE  RunsSound'
<1> SUFFICES ASSUME NEW s \in Slots, runs'[s] = runs[s]
    PROVE  RunSound(runs[s])'
  BY DEF RunsSound
<1>1. PICK r \in Run : r = runs[s]
  BY DEF TypeOK
<1>2. RunSound(r)'
  BY <1>1, RunStays DEF RunsSound
<1> QED
  BY <1>1, <1>2

LEMMA AppendKeeps ==
  ASSUME TypeOK, TreeSound, SourcesOnBranch, ObservedOnce, ProvenanceKept,
         NEW list, Listed(leaf, list), AppendEntries(list)
  PROVE  TreeSound' /\ SourcesOnBranch' /\ ObservedOnce' /\ ProvenanceKept'
<1> DEFINE n == Len(entries)
<1>0. n \in Nat /\ DOMAIN entries = 1..n /\ list \in Seq(Entry) /\ Len(list) \in Nat
      /\ DOMAIN list = 1..Len(list)
  BY EntriesCounted DEF Listed
<1>1. PICK l \in 0..n : l = leaf
  BY EntriesCounted
<1>2. /\ EntriesExtended /\ Len(entries') = n + Len(list)
      /\ \A k \in 1..Len(list) :
           /\ entries'[n + k].type = list[k].type /\ entries'[n + k].kind = list[k].kind
           /\ entries'[n + k].message = list[k].message
           /\ entries'[n + k].sources = list[k].sources
           /\ entries'[n + k].supersedes = list[k].supersedes
           /\ entries'[n + k].branch = GetBranch(l) \cup (n + 1)..(n + k)
  BY <1>0, <1>1, EntriesAppended
<1>3. DOMAIN entries' = 1..(n + Len(list)) /\ \A i \in 1..n : entries'[i] = entries[i]
  BY <1>2 DEF EntriesExtended
<1>4. \A i \in DOMAIN entries' : i \in 1..n \/ \E k \in 1..Len(list) : i = n + k
  <2> TAKE i \in DOMAIN entries'
  <2>1. i \notin 1..n => i - n \in 1..Len(list) /\ i = n + (i - n)
    BY <1>0, <1>3
  <2> QED
    BY <2>1
<1>5. /\ GetBranch(l) \subseteq 1..l /\ GetBranch(l) \subseteq 1..n
      /\ \A j \in GetBranch(l) : entries[j].branch \subseteq GetBranch(l)
  <2>1. \A j \in 1..n : GetBranch(j) = entries[j].branch
    BY <1>0 DEF GetBranch
  <2> QED
    BY <1>0, <2>1, BranchKnown
<1>l. Listed(l, list)
  BY <1>1
<1> HIDE DEF n
<1>6. ASSUME NEW k \in 1..Len(list)
      PROVE  /\ n + k \in DOMAIN entries' /\ n + k \notin 1..n
             /\ list[k].kind # "none" => list[k].type = "memory"
             /\ list[k].type = "message" => list[k].message # 0
             /\ list[k].type = "memory" => list[k].sources \subseteq Messages(l)
             /\ list[k].kind = "observation" =>
                  k = 1 /\ list[k].sources \cap SourcesOf(Memories(l)) = {}
             /\ \A i \in list[k].supersedes :
                  /\ i \in 1..n
                  /\ entries[i].kind = "reflection" =>
                       \E m \in 1..(k - 1) : /\ list[m].kind = "reflection"
                                             /\ entries[i].sources \subseteq list[m].sources
  BY <1>0, <1>3, <1>l DEF Listed
<1>7. TreeSound'
  <2> SUFFICES ASSUME NEW i \in DOMAIN entries'
      PROVE  /\ entries'[i].branch \subseteq 1..i /\ i \in entries'[i].branch
             /\ \A j \in entries'[i].branch : entries'[j].branch \subseteq entries'[i].branch
             /\ entries'[i].kind # "none" => entries'[i].type = "memory"
             /\ entries'[i].type = "message" => entries'[i].message # 0
             /\ entries'[i].supersedes \subseteq DOMAIN entries'
    BY DEF TreeSound
  <2>1. CASE i \in 1..n
    <3>1. entries'[i] = entries[i]
      BY <2>1, <1>3
    <3>2. /\ entries[i].branch \subseteq 1..i /\ i \in entries[i].branch
          /\ \A j \in entries[i].branch : entries[j].branch \subseteq entries[i].branch
          /\ entries[i].kind # "none" => entries[i].type = "memory"
          /\ entries[i].type = "message" => entries[i].message # 0
          /\ entries[i].supersedes \subseteq 1..n
      BY <2>1, <1>0 DEF TreeSound
    <3>3. \A j \in entries[i].branch : j \in 1..n /\ entries'[j] = entries[j]
      BY <2>1, <3>2, <1>0, <1>3
    <3>4. 1..n \subseteq DOMAIN entries'
      BY <1>0, <1>3
    <3> QED
      BY <3>1, <3>2, <3>3, <3>4
  <2>2. ASSUME NEW k \in 1..Len(list), i = n + k
        PROVE  /\ entries'[i].branch \subseteq 1..i /\ i \in entries'[i].branch
               /\ \A j \in entries'[i].branch : entries'[j].branch \subseteq entries'[i].branch
               /\ entries'[i].kind # "none" => entries'[i].type = "memory"
               /\ entries'[i].type = "message" => entries'[i].message # 0
               /\ entries'[i].supersedes \subseteq DOMAIN entries'
    <3>1. entries'[i].branch = GetBranch(l) \cup (n + 1)..(n + k)
      BY <2>2, <1>2
    <3>2. entries'[i].branch \subseteq 1..i /\ i \in entries'[i].branch
      BY <2>2, <3>1, <1>0, <1>5
    <3>3. ASSUME NEW j \in entries'[i].branch
          PROVE  entries'[j].branch \subseteq entries'[i].branch
      <4>1. CASE j \in GetBranch(l)
        BY <4>1, <3>1, <1>3, <1>5
      <4>2. CASE j \in (n + 1)..(n + k)
        <5>1. j - n \in 1..Len(list) /\ j = n + (j - n) /\ j - n <= k
          BY <4>2, <2>2, <1>0
        <5>2. entries'[j].branch = GetBranch(l) \cup (n + 1)..j
          BY <5>1, <1>2
        <5> QED
          BY <5>2, <4>2, <3>1, <1>0
      <4> QED
        BY <3>1, <3>3, <4>1, <4>2
    <3>4. entries'[i].supersedes \subseteq DOMAIN entries'
      BY <2>2, <1>0, <1>2, <1>3, <1>6
    <3>5. /\ entries'[i].kind = list[k].kind /\ entries'[i].type = list[k].type
          /\ entries'[i].message = list[k].message
      BY <2>2, <1>2
    <3>6. /\ list[k].kind # "none" => list[k].type = "memory"
          /\ list[k].type = "message" => list[k].message # 0
      BY <1>6
    <3> QED
      BY <3>2, <3>3, <3>4, <3>5, <3>6
  <2> QED
    BY <2>1, <2>2, <1>4
<1>8. SourcesOnBranch'
  <2> SUFFICES ASSUME NEW i \in DOMAIN entries', entries'[i].type = "memory"
      PROVE  entries'[i].sources \subseteq Messages(i)'
    BY DEF SourcesOnBranch
  <2>1. CASE i \in 1..n
    <3>1. Messages(i)' = Messages(i)
      BY <2>1, <1>0, <1>2, BranchStays DEF n
    <3> QED
      BY <2>1, <3>1, <1>0, <1>3 DEF SourcesOnBranch
  <2>2. ASSUME NEW k \in 1..Len(list), i = n + k
        PROVE  entries'[i].sources \subseteq Messages(i)'
    <3>1. entries'[i].sources \subseteq Messages(l)
      BY <2>2, <1>2, <1>6
    <3>2. Messages(l)' = Messages(l)
      BY <1>2, BranchStays DEF n
    <3>3. GetBranch(i)' = entries'[i].branch /\ GetBranch(l)' \subseteq GetBranch(i)'
      <4>1. i # 0 /\ GetBranch(l)' = GetBranch(l)
        BY <2>2, <1>0, <1>2, BranchStays DEF n
      <4> QED
        BY <4>1, <2>2, <1>2 DEF GetBranch
    <3> QED
      BY <3>1, <3>2, <3>3 DEF Messages
  <2> QED
    BY <2>1, <2>2, <1>4
<1>9. ObservedOnce'
  <2> SUFFICES ASSUME NEW i \in DOMAIN entries', NEW j \in DOMAIN entries',
                      i \in entries'[j].branch, i # j,
                      entries'[i].kind = "observation", entries'[j].kind = "observation"
      PROVE  entries'[i].sources \cap entries'[j].sources = {}
    BY DEF ObservedOnce
  <2>1. CASE j \in 1..n
    <3>1. i \in 1..n
      BY <2>1, <1>0, <1>3 DEF TreeSound
    <3> QED
      BY <2>1, <3>1, <1>0, <1>3 DEF ObservedOnce
  <2>2. ASSUME NEW k \in 1..Len(list), j = n + k
        PROVE  entries'[i].sources \cap entries'[j].sources = {}
    <3>1. /\ k = 1 /\ entries'[j].sources = list[k].sources
          /\ list[k].sources \cap SourcesOf(Memories(l)) = {}
          /\ entries'[j].branch = GetBranch(l) \cup (n + 1)..(n + k)
      BY <2>2, <1>2, <1>6
    <3>2. i \in GetBranch(l)
      BY <3>1, <2>2, <1>0
    <3>3. entries'[i] = entries[i] /\ entries[i].type = "memory" /\ i \in Memories(l)
      BY <3>2, <1>0, <1>3, <1>5 DEF TreeSound, Memories
    <3>4. entries[i].sources \subseteq SourcesOf(Memories(l))
      BY <3>3, SourcesKnown DEF n
    <3> QED
      BY <3>1, <3>3, <3>4
  <2> QED
    BY <2>1, <2>2, <1>4
<1>10. ProvenanceKept'
  <2> SUFFICES ASSUME NEW e \in DOMAIN entries', NEW i \in entries'[e].supersedes,
                      entries'[i].kind = "reflection"
      PROVE  \E j \in entries'[e].branch :
               /\ j > i /\ entries'[j].kind = "reflection"
               /\ entries'[i].sources \subseteq entries'[j].sources
    BY DEF ProvenanceKept
  <2>1. CASE e \in 1..n
    <3>1. entries'[e] = entries[e] /\ i \in 1..n /\ entries'[i] = entries[i]
      BY <2>1, <1>0, <1>3 DEF TreeSound
    <3>2. PICK j \in entries[e].branch :
             j > i /\ entries[j].kind = "reflection" /\ entries[i].sources \subseteq entries[j].sources
      BY <2>1, <3>1, <1>0 DEF ProvenanceKept
    <3>3. j \in 1..n
      BY <2>1, <3>2, <1>0 DEF TreeSound
    <3> QED
      BY <3>1, <3>2, <3>3, <1>3
  <2>2. ASSUME NEW k \in 1..Len(list), e = n + k
        PROVE  \E j \in entries'[e].branch :
                 /\ j > i /\ entries'[j].kind = "reflection"
                 /\ entries'[i].sources \subseteq entries'[j].sources
    <3>1. i \in list[k].supersedes /\ i \in 1..n /\ entries'[i] = entries[i]
      BY <2>2, <1>2, <1>3, <1>6
    <3>2. PICK m \in 1..(k - 1) :
             list[m].kind = "reflection" /\ entries[i].sources \subseteq list[m].sources
      BY <3>1, <1>6
    <3>3. m \in 1..Len(list) /\ m <= k /\ n + m \in (n + 1)..(n + k) /\ n + m > i
      BY <2>2, <3>1, <3>2, <1>0
    <3>4. n + m \in entries'[e].branch
      BY <2>2, <3>3, <1>2
    <3>5. entries'[n + m].kind = "reflection" /\ entries'[n + m].sources = list[m].sources
      BY <3>2, <3>3, <1>2
    <3> QED
      BY <3>1, <3>2, <3>3, <3>4, <3>5
  <2> QED
    BY <2>1, <2>2, <1>4
<1> QED
  BY <1>7, <1>8, <1>9, <1>10

(* Nothing that was shown is lost, unless a compaction is appended.         *)
LEMMA AppendShows ==
  ASSUME TypeOK, TreeSound, NEW list \in Seq(Entry), AppendEntries(list),
         \A k \in DOMAIN list : list[k].type # "compaction"
  PROVE  /\ Context(leaf) \subseteq Context(leaf)'
         /\ Len(list) # 0 /\ list[1].type = "message" => list[1].message \in Context(leaf)'
<1> DEFINE n == Len(entries)
<1>0. n \in Nat /\ DOMAIN entries = 1..n /\ Len(list) \in Nat /\ DOMAIN list = 1..Len(list)
  BY EntriesCounted
<1>1. PICK l \in 0..n : l = leaf
  BY EntriesCounted
<1>2. /\ EntriesExtended /\ Len(entries') = n + Len(list)
      /\ \A k \in 1..Len(list) :
           /\ entries'[n + k].type = list[k].type /\ entries'[n + k].message = list[k].message
           /\ entries'[n + k].branch = GetBranch(l) \cup (n + 1)..(n + k)
      /\ Len(list) = 0 => leaf' = leaf
      /\ Len(list) # 0 => leaf' = n + Len(list)
  BY <1>1, EntriesAppended
<1>3. /\ GetBranch(l)' = GetBranch(l) /\ Messages(l)' = Messages(l) /\ Context(l)' = Context(l)
      /\ GetBranch(l) \subseteq 1..l
      /\ \A i \in GetBranch(l) : i \in 1..n /\ entries'[i] = entries[i]
  BY <1>0, <1>2, BranchStays, BranchKnown DEF EntriesExtended
<1> HIDE DEF n
<1>4. CASE Len(list) = 0
  BY <1>1, <1>2, <1>3, <1>4 DEF Context, Shown, Messages, GetBranch
<1>5. CASE Len(list) # 0
  <2>1. PICK l1 \in 1..(n + Len(list)) : l1 = n + Len(list) /\ l1 = leaf'
    BY <1>0, <1>2, <1>5
  <2>2. GetBranch(l1)' = GetBranch(l) \cup (n + 1)..l1
    <3>1. Len(list) \in 1..Len(list) /\ l1 # 0
      BY <1>0, <1>5, <2>1
    <3> QED
      BY <3>1, <2>1, <1>2 DEF GetBranch
  <2>3. \A i \in (n + 1)..l1 :
          /\ i \notin GetBranch(l) /\ entries'[i].type # "compaction"
          /\ \A j \in GetBranch(l) : j < i
    <3> TAKE i \in (n + 1)..l1
    <3>1. i - n \in 1..Len(list) /\ i = n + (i - n)
      BY <1>0, <2>1
    <3>2. entries'[i].type = list[i - n].type
      BY <3>1, <1>2
    <3> QED
      BY <3>1, <3>2, <1>0, <1>3
  <2> DEFINE compacted == {i \in GetBranch(l) : entries[i].type = "compaction"}
             newest == {i \in compacted : \A j \in compacted : j <= i}
             visible(i) == \A c \in newest : i > c \/ i \in entries[c].sources
  <2>4. {i \in GetBranch(l1)' : entries'[i].type = "compaction"} = compacted
    BY <2>2, <2>3, <1>3
  <2>5. \A c \in newest : entries'[c] = entries[c] /\ c \in GetBranch(l)
    BY <1>3
  <2>6. Shown(l1)' = {i \in Messages(l1)' : visible(i)}
    <3>1. Shown(l1)' = {i \in Messages(l1)' : \A c \in newest : i > c \/ i \in entries'[c].sources}
      BY <2>4 DEF Shown
    <3> QED
      BY <3>1, <2>5
  <2>7. Shown(l) = {i \in Messages(l) : visible(i)}
    BY DEF Shown
  <2>8. \A i \in Shown(l) : i \in Shown(l1)' /\ entries'[i] = entries[i]
    BY <2>2, <2>6, <2>7, <1>3 DEF Messages
  <2>9. Context(l) \subseteq Context(l1)'
    BY <2>8 DEF Context
  <2>10. ASSUME list[1].type = "message"
         PROVE  list[1].message \in Context(l1)'
    <3>1. n + 1 \in (n + 1)..l1 /\ 1 \in 1..Len(list)
      BY <1>0, <1>5, <2>1
    <3>2. entries'[n + 1].type = "message" /\ entries'[n + 1].message = list[1].message
      BY <3>1, <2>10, <1>2
    <3>3. n + 1 \in Messages(l1)'
      BY <3>1, <3>2, <2>2 DEF Messages
    <3>4. visible(n + 1)
      <4> SUFFICES ASSUME NEW c \in newest
          PROVE  n + 1 > c
        OBVIOUS
      <4>1. c \in GetBranch(l) /\ c \in Nat
        BY <2>5, <1>0, <1>3
      <4> QED
        BY <4>1, <3>1, <2>3, <1>0
    <3>5. n + 1 \in Shown(l1)'
      BY <3>3, <3>4, <2>6
    <3> QED
      BY <3>2, <3>5 DEF Context
  <2>11. Context(leaf) = Context(l) /\ Context(leaf)' = Context(l1)'
    BY <1>1, <2>1 DEF Context, Shown, Messages, GetBranch
  <2> QED
    BY <2>9, <2>10, <2>11
<1> QED
  BY <1>4, <1>5

-----------------------------------------------------------------------------
(* The entries a run writes.                                               *)

LEMMA Repeated ==
  ASSUME NEW k \in 0..1, NEW e \in Entry
  PROVE  /\ Repeat(k, e) \in Seq(Entry) /\ Len(Repeat(k, e)) = k
         /\ DOMAIN Repeat(k, e) = 1..k
         /\ \A i \in 1..k : i = 1 /\ Repeat(k, e)[i] = e
BY DEF Repeat

LEMMA MemoryEntry ==
  ASSUME NEW kind \in Kinds, NEW S \in SUBSET (Nat \ {0}), NEW T \in SUBSET (Nat \ {0}),
         MaxMessages \in Nat
  PROVE  LET e == Memory(kind, S, T) IN
         /\ e \in Entry /\ e.type = "memory" /\ e.kind = kind
         /\ e.sources = S /\ e.supersedes = T
BY DEF Memory, Entry

LEMMA OnlyListed ==
  ASSUME TypeOK, NEW l \in 0..Len(entries), NEW k \in 0..1, NEW e \in Entry,
         e.type = "memory", e.sources \subseteq Messages(l),
         e.kind = "observation" => e.sources \cap SourcesOf(Memories(l)) = {},
         \A i \in e.supersedes : i \in DOMAIN entries /\ entries[i].kind # "reflection"
  PROVE  /\ Listed(l, Repeat(k, e))
         /\ \A i \in DOMAIN Repeat(k, e) : Repeat(k, e)[i].kind = e.kind
BY Repeated DEF Listed

LEMMA BothListed ==
  ASSUME NEW l, NEW a, NEW b, Listed(l, a), Listed(l, b),
         \A i \in DOMAIN b : b[i].kind # "observation"
  PROVE  Listed(l, a \o b)
<1>1. /\ a \in Seq(Entry) /\ b \in Seq(Entry) /\ Len(a) \in Nat /\ Len(b) \in Nat
      /\ DOMAIN a = 1..Len(a) /\ DOMAIN b = 1..Len(b)
  BY DEF Listed
<1>2. /\ a \o b \in Seq(Entry) /\ Len(a \o b) = Len(a) + Len(b)
      /\ \A i \in 1..Len(a) : (a \o b)[i] = a[i]
      /\ \A k \in 1..Len(b) : (a \o b)[Len(a) + k] = b[k]
  BY <1>1, Concatenated
<1> DEFINE c == a \o b
           Fits(s, k) ==
             /\ s[k].kind # "none" => s[k].type = "memory"
             /\ s[k].type = "message" => s[k].message # 0
             /\ s[k].type = "memory" => s[k].sources \subseteq Messages(l)
             /\ s[k].kind = "observation" =>
                  k = 1 /\ s[k].sources \cap SourcesOf(Memories(l)) = {}
             /\ \A i \in s[k].supersedes :
                  /\ i \in DOMAIN entries
                  /\ entries[i].kind = "reflection" =>
                       \E m \in 1..(k - 1) : /\ s[m].kind = "reflection"
                                             /\ entries[i].sources \subseteq s[m].sources
<1>3. (\A k \in 1..Len(a) : Fits(a, k)) /\ (\A k \in 1..Len(b) : Fits(b, k))
  BY <1>1 DEF Listed
<1> HIDE DEF c
<1>c. /\ c \in Seq(Entry) /\ Len(c) = Len(a) + Len(b) /\ DOMAIN c = 1..(Len(a) + Len(b))
      /\ \A i \in 1..Len(a) : c[i] = a[i]
      /\ \A k \in 1..Len(b) : c[Len(a) + k] = b[k]
  BY <1>1, <1>2 DEF c
<1>4. ASSUME NEW k \in 1..Len(a)
      PROVE  Fits(c, k)
  <2>1. c[k] = a[k] /\ \A m \in 1..(k - 1) : c[m] = a[m]
    BY <1>1, <1>c
  <2> QED
    BY <2>1, <1>3
<1>5. ASSUME NEW k \in 1..Len(b)
      PROVE  Fits(c, Len(a) + k)
  <2>1. c[Len(a) + k] = b[k] /\ b[k].kind # "observation"
    BY <1>1, <1>c
  <2>2. ASSUME NEW i \in b[k].supersedes, entries[i].kind = "reflection"
        PROVE  \E m \in 1..(Len(a) + k - 1) : /\ c[m].kind = "reflection"
                                              /\ entries[i].sources \subseteq c[m].sources
    <3>1. PICK m \in 1..(k - 1) : b[m].kind = "reflection" /\ entries[i].sources \subseteq b[m].sources
      BY <2>2, <1>3
    <3>2. m \in 1..Len(b) /\ Len(a) + m \in 1..(Len(a) + k - 1)
      BY <1>1
    <3>3. c[Len(a) + m] = b[m]
      BY <3>2, <1>c
    <3> QED
      BY <3>1, <3>2, <3>3
  <2> QED
    BY <2>1, <2>2, <1>3
<1>6. \A k \in DOMAIN c : k \in 1..Len(a) \/ (k - Len(a) \in 1..Len(b) /\ k = Len(a) + (k - Len(a)))
  BY <1>1, <1>c
<1>7. \A k \in DOMAIN c : Fits(c, k)
  BY <1>4, <1>5, <1>6
<1> QED
  BY <1>7, <1>c DEF Listed, c

LEMMA RunTyped ==
  ASSUME NEW r \in Run
  PROVE  /\ r.stage \in Stages /\ r.force \in BOOLEAN /\ r.leaf \in Nat
         /\ r.observed \subseteq Nat \ {0} /\ r.replaced \subseteq Nat \ {0}
         /\ r.pool \subseteq Nat \ {0} /\ r.wrote \subseteq Nat \ {0}
         /\ r.observations \in 0..1 /\ r.traces \in 0..1 /\ r.reflections \in 0..1
BY DEF Run

(* The lists that Record and DropperAnswers append.                         *)
LEMMA WrittenListed ==
  ASSUME TypeOK, TreeSound, SourcesOnBranch, NEW r \in Run, RunSound(r),
         NEW pruned \in SUBSET r.pool
  PROVE  /\ Listed(r.leaf, Observed(r)) /\ Listed(r.leaf, Consolidated(r, pruned))
         /\ Listed(r.leaf, Observed(r) \o Consolidated(r, pruned))
         /\ \A k \in DOMAIN Observed(r) : Observed(r)[k].type = "memory"
         /\ \A k \in DOMAIN Consolidated(r, pruned) : Consolidated(r, pruned)[k].type = "memory"
         /\ Len(Observed(r)) = r.observations + r.traces
         /\ r.observations = 1 => Observed(r)[1].kind = "observation"
<1>0. PICK l \in 0..Len(entries) : l = r.leaf
  BY DEF RunSound
<1>k. {"observation", "trace", "reflection", "supersedes"} = Kinds /\ MaxMessages \in Nat
  BY LimitsAssumption DEF Kinds
<1>t. Len(entries) \in Nat /\ DOMAIN entries = 1..Len(entries) /\ Messages(l) \subseteq Nat \ {0}
  BY EntriesCounted, BranchKnown DEF Messages
<1>1. /\ r.observed \subseteq Messages(l) /\ r.observed \cap SourcesOf(Memories(l)) = {}
  BY <1>0 DEF RunSound, UnprocessedMessages
<1> DEFINE R == ReflectionSources(r)
<1>2. /\ R \subseteq Messages(l)
      /\ \A i \in r.replaced : /\ i \in DOMAIN entries
                               /\ entries[i].sources \subseteq R
  <2>1. \A kinds : ActiveMemory(l, kinds) \subseteq Memories(l)
    BY DEF ActiveMemory
  <2>2. \A i \in Memories(l) : i \in DOMAIN entries /\ entries[i].sources \subseteq Messages(l)
    BY SourcesKnown
  <2>3. R = SourcesOf(ActiveMemory(l, {"reflection", "observation"})) \cup r.observed
    BY <1>0 DEF ReflectionSources
  <2>4. SourcesOf(ActiveMemory(l, {"reflection", "observation"})) \subseteq Messages(l)
    BY <2>1, <2>2 DEF SourcesOf
  <2>5. r.replaced \subseteq ActiveMemory(l, {"reflection", "observation"})
    BY <1>0 DEF RunSound, ActiveMemory
  <2> QED
    BY <2>1, <2>2, <2>3, <2>4, <2>5, <1>1 DEF SourcesOf
<1>3. /\ \A i \in r.pool : i \in DOMAIN entries /\ entries[i].kind = "observation"
      /\ r.replaced # {} => r.reflections = 1
  BY DEF RunSound
<1> HIDE DEF R
<1>4. /\ r.observed \in SUBSET (Nat \ {0}) /\ R \in SUBSET (Nat \ {0}) /\ {} \in SUBSET (Nat \ {0})
      /\ r.replaced \in SUBSET (Nat \ {0}) /\ pruned \in SUBSET (Nat \ {0})
      /\ r.observations \in 0..1 /\ r.traces \in 0..1 /\ r.reflections \in 0..1
  BY <1>1, <1>2, <1>t, RunTyped
<1> DEFINE o  == Memory("observation", r.observed, {})
           tr == Memory("trace", r.observed, {})
           re == Memory("reflection", R, {})
           su == Memory("supersedes", R, r.replaced)
           pr == Memory("supersedes", r.observed, pruned)
           nS == IF r.replaced = {} THEN 0 ELSE 1
           nP == IF pruned = {} THEN 0 ELSE 1
<1>5. /\ o \in Entry /\ o.type = "memory" /\ o.kind = "observation" /\ o.sources = r.observed
      /\ o.supersedes = {}
  BY <1>4, <1>k, MemoryEntry
<1>6. /\ tr \in Entry /\ tr.type = "memory" /\ tr.kind = "trace" /\ tr.sources = r.observed
      /\ tr.supersedes = {}
  BY <1>4, <1>k, MemoryEntry
<1>7. /\ re \in Entry /\ re.type = "memory" /\ re.kind = "reflection" /\ re.sources = R
      /\ re.supersedes = {}
  <2>1. "reflection" \in Kinds /\ MaxMessages \in Nat
    BY <1>k
  <2>2. R \in SUBSET (Nat \ {0}) /\ {} \in SUBSET (Nat \ {0})
    BY <1>4
  <2> QED
    BY ONLY <2>1, <2>2, MemoryEntry DEF re
<1>8. /\ su \in Entry /\ su.type = "memory" /\ su.kind = "supersedes" /\ su.sources = R
      /\ su.supersedes = r.replaced
  BY <1>4, <1>k, MemoryEntry
<1>9. /\ pr \in Entry /\ pr.type = "memory" /\ pr.kind = "supersedes" /\ pr.sources = r.observed
      /\ pr.supersedes = pruned
  BY <1>4, <1>k, MemoryEntry
<1>n. nS \in 0..1 /\ nP \in 0..1
  OBVIOUS
<1>o. /\ Observed(r) = Repeat(r.observations, o) \o Repeat(r.traces, tr)
      /\ Consolidated(r, pruned) =
           (Repeat(r.reflections, re) \o Repeat(nS, su)) \o Repeat(nP, pr)
  BY DEF Observed, Consolidated, R
<1> HIDE DEF o, tr, re, su, pr, nS, nP
<1>10. /\ Listed(l, Repeat(r.observations, o))
       /\ Listed(l, Repeat(r.traces, tr))
       /\ \A i \in DOMAIN Repeat(r.traces, tr) : Repeat(r.traces, tr)[i].kind # "observation"
  BY <1>1, <1>4, <1>5, <1>6, OnlyListed
<1>11. Listed(l, Observed(r))
  BY <1>10, <1>o, BothListed
<1>12. /\ Listed(l, Repeat(nP, pr))
       /\ \A i \in DOMAIN Repeat(nP, pr) : Repeat(nP, pr)[i].kind # "observation"
  BY <1>1, <1>3, <1>9, <1>n, OnlyListed
<1> DEFINE rs == Repeat(r.reflections, re) \o Repeat(nS, su)
<1>13. /\ rs \in Seq(Entry) /\ Len(rs) = r.reflections + nS
       /\ \A i \in 1..Len(rs) : rs[i] \in {re, su}
       /\ r.reflections = 1 => Len(rs) # 0 /\ rs[1] = re
       /\ nS = 1 => r.reflections = 1 /\ rs[1] = re
       /\ \A i \in 1..Len(rs) : rs[i] = re \/ (i = 2 /\ nS = 1)
  <2>1. /\ Repeat(r.reflections, re) \in Seq(Entry) /\ Len(Repeat(r.reflections, re)) = r.reflections
        /\ \A i \in 1..r.reflections : i = 1 /\ Repeat(r.reflections, re)[i] = re
    BY <1>4, <1>7, Repeated
  <2>2. /\ Repeat(nS, su) \in Seq(Entry) /\ Len(Repeat(nS, su)) = nS
        /\ \A i \in 1..nS : i = 1 /\ Repeat(nS, su)[i] = su
    BY <1>n, <1>8, Repeated
  <2>3. /\ rs \in Seq(Entry) /\ Len(rs) = r.reflections + nS
        /\ \A i \in 1..r.reflections : rs[i] = re
        /\ \A k \in 1..nS : rs[r.reflections + k] = su
    <3>1. /\ rs \in Seq(Entry) /\ Len(rs) = Len(Repeat(r.reflections, re)) + Len(Repeat(nS, su))
          /\ \A i \in 1..Len(Repeat(r.reflections, re)) : rs[i] = Repeat(r.reflections, re)[i]
          /\ \A k \in 1..Len(Repeat(nS, su)) :
               rs[Len(Repeat(r.reflections, re)) + k] = Repeat(nS, su)[k]
      <4>1. Repeat(r.reflections, re) \in Seq(Entry) /\ Repeat(nS, su) \in Seq(Entry)
        BY <2>1, <2>2
      <4> QED
        BY ONLY <4>1, Concatenated DEF rs
    <3> QED
      BY <3>1, <2>1, <2>2
  <2>4. nS = 1 => r.reflections = 1
    BY <1>3 DEF nS
  <2> HIDE DEF rs
  <2>5. CASE r.reflections = 0
    <3>1. nS = 0
      BY <2>4, <2>5, <1>n
    <3> QED
      BY <2>5, <3>1, <2>3
  <2>6. CASE r.reflections = 1 /\ nS = 0
    BY <2>6, <2>3
  <2>7. CASE r.reflections = 1 /\ nS = 1
    <3>1. rs[1] = re /\ rs[2] = su /\ Len(rs) = 2
      BY <2>7, <2>3
    <3> QED
      BY <2>7, <3>1, <2>3
  <2> QED
    BY <2>5, <2>6, <2>7, <1>4, <1>n
<1> HIDE DEF rs
<1>14. Listed(l, rs) /\ \A i \in DOMAIN rs : rs[i].kind # "observation" /\ rs[i].type = "memory"
  <2>1. DOMAIN rs = 1..Len(rs) /\ Len(rs) \in Nat
    BY <1>13
  <2>2. \A i \in DOMAIN rs :
          /\ rs[i].kind \in {"reflection", "supersedes"} /\ rs[i].type = "memory"
          /\ rs[i].sources = R
    BY <1>13, <1>7, <1>8, <2>1
  <2>3. ASSUME NEW k \in DOMAIN rs, NEW i \in rs[k].supersedes
        PROVE  /\ i \in DOMAIN entries
               /\ \E m \in 1..(k - 1) : rs[m].kind = "reflection" /\ entries[i].sources \subseteq rs[m].sources
    <3>1. rs[k] # re /\ k = 2 /\ nS = 1 /\ rs[k] = su
      BY <2>1, <2>3, <1>7, <1>13
    <3>2. i \in r.replaced /\ rs[1] = re /\ 1 \in 1..(k - 1)
      BY <2>3, <3>1, <1>8, <1>13
    <3> QED
      BY <3>2, <1>2, <1>7
  <2> QED
    BY <2>1, <2>2, <2>3, <1>2, <1>13 DEF Listed
<1>15. Listed(l, Consolidated(r, pruned))
  BY <1>12, <1>14, <1>o, BothListed DEF rs
<1>16. \A k \in DOMAIN Consolidated(r, pruned) :
          /\ Consolidated(r, pruned)[k].kind # "observation"
          /\ Consolidated(r, pruned)[k].type = "memory"
  <2>1. Repeat(nP, pr) \in Seq(Entry) /\ Len(Repeat(nP, pr)) = nP
        /\ \A i \in 1..nP : Repeat(nP, pr)[i] = pr
    BY <1>n, <1>9, Repeated
  <2>2. /\ Consolidated(r, pruned) \in Seq(Entry) /\ Len(Consolidated(r, pruned)) = Len(rs) + nP
        /\ \A i \in 1..Len(rs) : Consolidated(r, pruned)[i] = rs[i]
        /\ \A k \in 1..nP : Consolidated(r, pruned)[Len(rs) + k] = pr
    <3>1. /\ rs \o Repeat(nP, pr) \in Seq(Entry)
          /\ Len(rs \o Repeat(nP, pr)) = Len(rs) + Len(Repeat(nP, pr))
          /\ \A i \in 1..Len(rs) : (rs \o Repeat(nP, pr))[i] = rs[i]
          /\ \A k \in 1..Len(Repeat(nP, pr)) :
               (rs \o Repeat(nP, pr))[Len(rs) + k] = Repeat(nP, pr)[k]
      <4>1. rs \in Seq(Entry) /\ Repeat(nP, pr) \in Seq(Entry)
        BY <2>1, <1>13
      <4> QED
        BY ONLY <4>1, Concatenated
    <3>2. Consolidated(r, pruned) = rs \o Repeat(nP, pr)
      BY <1>o DEF rs
    <3> QED
      BY <3>1, <3>2, <2>1
  <2>3. Len(rs) \in Nat /\ DOMAIN rs = 1..Len(rs)
        /\ DOMAIN Consolidated(r, pruned) = 1..(Len(rs) + nP)
    BY <1>13, <2>2
  <2>4. \A k \in DOMAIN Consolidated(r, pruned) :
          k \in 1..Len(rs) \/ (k - Len(rs) \in 1..nP /\ k = Len(rs) + (k - Len(rs)))
    BY <2>3, <1>n
  <2> QED
    BY <2>2, <2>3, <2>4, <1>9, <1>14
<1>17. Listed(l, Observed(r) \o Consolidated(r, pruned))
  BY <1>11, <1>15, <1>16, BothListed
<1>18. /\ \A k \in DOMAIN Observed(r) : Observed(r)[k].type = "memory"
       /\ Len(Observed(r)) = r.observations + r.traces
       /\ r.observations = 1 => Observed(r)[1].kind = "observation"
  <2>1. /\ Repeat(r.observations, o) \in Seq(Entry) /\ Len(Repeat(r.observations, o)) = r.observations
        /\ \A i \in 1..r.observations : Repeat(r.observations, o)[i] = o
    BY <1>4, <1>5, Repeated
  <2>2. /\ Repeat(r.traces, tr) \in Seq(Entry) /\ Len(Repeat(r.traces, tr)) = r.traces
        /\ \A i \in 1..r.traces : Repeat(r.traces, tr)[i] = tr
    BY <1>4, <1>6, Repeated
  <2>3. /\ Observed(r) \in Seq(Entry) /\ Len(Observed(r)) = r.observations + r.traces
        /\ \A i \in 1..r.observations : Observed(r)[i] = o
        /\ \A k \in 1..r.traces : Observed(r)[r.observations + k] = tr
    <3>1. /\ Observed(r) \in Seq(Entry)
          /\ Len(Observed(r)) = Len(Repeat(r.observations, o)) + Len(Repeat(r.traces, tr))
          /\ \A i \in 1..Len(Repeat(r.observations, o)) : Observed(r)[i] = Repeat(r.observations, o)[i]
          /\ \A k \in 1..Len(Repeat(r.traces, tr)) :
               Observed(r)[Len(Repeat(r.observations, o)) + k] = Repeat(r.traces, tr)[k]
      <4>1. /\ Repeat(r.observations, o) \in Seq(Entry)
            /\ Repeat(r.traces, tr) \in Seq(Entry)
            /\ Observed(r) = Repeat(r.observations, o) \o Repeat(r.traces, tr)
        BY <2>1, <2>2, <1>o
      <4> QED
        BY ONLY <4>1, Concatenated
    <3> QED
      BY <3>1, <2>1, <2>2
  <2>4. DOMAIN Observed(r) = 1..(r.observations + r.traces)
    BY <2>3
  <2>5. \A k \in DOMAIN Observed(r) :
          k \in 1..r.observations
          \/ (k - r.observations \in 1..r.traces /\ k = r.observations + (k - r.observations))
    BY <2>4, <1>4
  <2>6. \A k \in DOMAIN Observed(r) : Observed(r)[k] \in {o, tr}
    BY <2>3, <2>5
  <2>7. r.observations = 1 => Observed(r)[1] = o
    BY <2>3
  <2> QED
    BY <2>3, <2>6, <2>7, <1>5, <1>6
<1> QED
  BY <1>0, <1>11, <1>15, <1>16, <1>17, <1>18

-----------------------------------------------------------------------------
(* Steps.                                                                  *)

LEMMA ContextTyped ==
  ASSUME TypeOK, TreeSound, NEW l \in 0..Len(entries)
  PROVE  /\ Context(l) \subseteq 1..MaxMessages
         /\ Shown(l) \subseteq Messages(l) /\ Messages(l) \subseteq DOMAIN entries
         /\ \A i \in Messages(l) : entries[i].message \in 1..MaxMessages
<1>1. Shown(l) \subseteq Messages(l) /\ Messages(l) \subseteq DOMAIN entries
  BY BranchKnown DEF Shown, Messages
<1>2. \A i \in Messages(l) : entries[i].message \in 1..MaxMessages
  <2> TAKE i \in Messages(l)
  <2>1. i \in DOMAIN entries /\ entries[i].type = "message"
    BY <1>1 DEF Messages
  <2>2. entries[i].message \in 0..MaxMessages /\ entries[i].message # 0
    BY <2>1, EntriesCounted, EntryTyped DEF TreeSound
  <2> QED
    BY <2>2, LimitsAssumption
<1> QED
  BY <1>1, <1>2 DEF Context

LEMMA StayStep ==
  ASSUME MemoryInv, TypeOK', entries' = entries, NothingUnsaved',
         \A s \in Slots : runs'[s] = runs[s] \/ RunSound(runs[s])'
  PROVE  MemoryInv'
<1>0. TypeOK /\ TreeSound /\ RunsSound /\ SourcesOnBranch /\ ObservedOnce /\ ProvenanceKept
  BY DEF MemoryInv
<1>1. EntriesExtended
  BY <1>0, EntriesCounted DEF EntriesExtended
<1>2. TreeSound' /\ SourcesOnBranch' /\ ObservedOnce' /\ ProvenanceKept'
  BY <1>0 DEF TreeSound, SourcesOnBranch, ObservedOnce, ProvenanceKept, Messages, GetBranch
<1>3. RunsSound'
  BY <1>0, <1>1, RunsKept
<1> QED
  BY <1>2, <1>3 DEF MemoryInv

LEMMA AppendStep ==
  ASSUME MemoryInv, TypeOK', NEW list, Listed(leaf, list), AppendEntries(list), NothingUnsaved',
         \A s \in Slots : runs'[s] = runs[s] \/ RunSound(runs[s])'
  PROVE  MemoryInv'
<1>0. TypeOK /\ TreeSound /\ RunsSound /\ SourcesOnBranch /\ ObservedOnce /\ ProvenanceKept
  BY DEF MemoryInv
<1>1. EntriesExtended
  BY <1>0, EntriesAppended DEF Listed
<1>2. TreeSound' /\ SourcesOnBranch' /\ ObservedOnce' /\ ProvenanceKept'
  BY <1>0, AppendKeeps
<1>3. RunsSound'
  BY <1>0, <1>1, RunsKept
<1> QED
  BY <1>2, <1>3 DEF MemoryInv

LEMMA MessageListed ==
  ASSUME TypeOK, emitting # 0
  PROVE  /\ Listed(leaf, <<Message(emitting)>>)
         /\ Message(emitting).type = "message" /\ Message(emitting).message = emitting
<1>1. /\ Message(emitting) \in Entry /\ Message(emitting).type = "message"
      /\ Message(emitting).kind = "none" /\ Message(emitting).supersedes = {}
      /\ Message(emitting).message = emitting
  BY DEF TypeOK, Message, Entry
<1> QED
  BY <1>1 DEF Listed

(* A compaction shows what it kept.                                         *)
LEMMA CompactionShows ==
  ASSUME TypeOK, TreeSound, NEW kept \in SUBSET Shown(leaf),
         AppendEntries(<<Compaction(kept)>>)
  PROVE  /\ Listed(leaf, <<Compaction(kept)>>)
         /\ {entries[i].message : i \in kept} \subseteq Context(leaf)'
<1> DEFINE n == Len(entries)
           e == Compaction(kept)
           list == <<e>>
<1>0. n \in Nat /\ DOMAIN entries = 1..n /\ MaxMessages \in Nat
  BY EntriesCounted, LimitsAssumption
<1>1. PICK l \in 0..n : l = leaf
  BY EntriesCounted
<1>2. Shown(leaf) = Shown(l) /\ kept \subseteq Messages(l) /\ kept \subseteq Nat \ {0}
  BY <1>0, <1>1, ContextTyped DEF Shown, Messages, GetBranch
<1>3. /\ e \in Entry /\ e.type = "compaction" /\ e.kind = "none" /\ e.supersedes = {}
      /\ e.sources = kept
  BY <1>0, <1>2 DEF Compaction, Entry
<1> HIDE DEF e
<1>4. list \in Seq(Entry) /\ Len(list) = 1 /\ DOMAIN list = 1..1 /\ list[1] = e
  BY <1>3
<1>5. Listed(leaf, list)
  BY <1>3, <1>4 DEF Listed
<1>6. AppendEntries(list)
  BY DEF e
<1> HIDE DEF list, n
<1>7. /\ EntriesExtended /\ Len(entries') = n + 1 /\ leaf' = n + 1
      /\ entries'[n + 1].type = "compaction" /\ entries'[n + 1].sources = kept
      /\ entries'[n + 1].branch = GetBranch(l) \cup (n + 1)..(n + 1)
  <2>1. /\ EntriesExtended /\ Len(entries') = n + Len(list)
        /\ \A k \in 1..Len(list) :
             LET new == entries'[n + k] IN
             /\ new.type = list[k].type /\ new.kind = list[k].kind
             /\ new.message = list[k].message
             /\ new.sources = list[k].sources /\ new.supersedes = list[k].supersedes
             /\ new.branch = GetBranch(leaf) \cup (n + 1)..(n + k)
        /\ Len(list) # 0 => leaf' = n + Len(list)
    BY <1>0, <1>4, <1>6, EntriesAppended DEF n
  <2>2. 1 \in 1..Len(list) /\ GetBranch(leaf) = GetBranch(l)
    BY <1>1, <1>4 DEF GetBranch
  <2> QED
    BY <2>1, <2>2, <1>3, <1>4
<1>8. /\ GetBranch(l) \subseteq 1..n /\ Messages(l)' = Messages(l)
      /\ \A i \in GetBranch(l) : entries'[i] = entries[i]
  <2>1. GetBranch(l) \subseteq 1..l /\ GetBranch(l) \subseteq 1..n
    BY <1>0, BranchKnown DEF n
  <2>2. Messages(l)' = Messages(l)
    BY <1>7, BranchStays DEF n
  <2> QED
    BY <2>1, <2>2, <1>7 DEF EntriesExtended, n
<1>9. PICK p \in 1..(n + 1) : p = n + 1
  BY <1>0
<1>10. GetBranch(p)' = GetBranch(l) \cup {p}
  BY <1>0, <1>7, <1>9 DEF GetBranch
<1>11. \A i \in kept : i \in Messages(p)' /\ entries'[i] = entries[i]
  BY <1>2, <1>8, <1>10 DEF Messages
<1>12. \A i \in kept : i \in Shown(p)'
  <2> DEFINE compacted == {i \in GetBranch(p)' : entries'[i].type = "compaction"}
             newest == {i \in compacted : \A j \in compacted : j <= i}
  <2>1. p \in compacted /\ \A j \in compacted : j <= p /\ j \in Nat
    BY <1>0, <1>7, <1>8, <1>9, <1>10
  <2>2. \A c \in newest : c = p
    BY <2>1, <1>9, <1>0
  <2>3. \A i \in kept : \A c \in newest : i \in entries'[c].sources
    BY <2>2, <1>7, <1>9
  <2>4. Shown(p)' = {i \in Messages(p)' : \A c \in newest : i > c \/ i \in entries'[c].sources}
    BY DEF Shown
  <2> QED
    BY <2>3, <2>4, <1>11
<1>13. {entries[i].message : i \in kept} \subseteq Context(p)'
  BY <1>11, <1>12 DEF Context
<1>14. Context(leaf)' = Context(p)'
  BY <1>7, <1>9 DEF Context, Shown, Messages, GetBranch
<1> QED
  BY <1>5, <1>13, <1>14 DEF list, e

LEMMA FreshRun ==
  ASSUME TypeOK, NEW force \in BOOLEAN
  PROVE  /\ NewRun(force) \in Run /\ RunSound(NewRun(force))
         /\ NoRunYet \in Run /\ RunSound(NoRunYet)
<1>1. leaf \in Nat /\ leaf \in 0..Len(entries) /\ 0 \in 0..Len(entries)
  BY EntriesCounted
<1>2. /\ NewRun(force) \in Run /\ NewRun(force).leaf = leaf /\ NewRun(force).observed = {}
      /\ NewRun(force).replaced = {} /\ NewRun(force).pool = {}
  BY <1>1 DEF NewRun, Run, Stages
<1>3. /\ NoRunYet \in Run /\ NoRunYet.leaf = 0 /\ NoRunYet.observed = {}
      /\ NoRunYet.replaced = {} /\ NoRunYet.pool = {}
  BY DEF NoRunYet, Run, Stages
<1> QED
  BY <1>1, <1>2, <1>3 DEF RunSound

LEMMA TurnKeeps ==
  ASSUME MemoryInv, Prompt \/ EmitMessage \/ Settle
  PROVE  MemoryInv'
<1>0. TypeOK /\ NothingUnsaved
  BY DEF MemoryInv
<1>1. entries' = entries /\ leaf' = leaf /\ runs' = runs /\ memoryRun' = memoryRun
      /\ compactor' = compactor /\ awaited' = awaited /\ compactions' = compactions
      /\ scheduled' = scheduled
  BY DEF Prompt, EmitMessage, Settle, session, compaction
<1>2. /\ messages' \in 0..MaxMessages /\ emitting' \in 0..MaxMessages
      /\ transcript' \subseteq 1..MaxMessages /\ agent' \in {"idle", "prompted", "running"}
      /\ settled' \in 0..MaxSettled
  <2>1. /\ messages \in 0..MaxMessages /\ emitting \in 0..MaxMessages
        /\ transcript \subseteq 1..MaxMessages /\ agent \in {"idle", "prompted", "running"}
        /\ settled \in 0..MaxSettled /\ MaxMessages \in Nat /\ MaxSettled \in Nat
    BY <1>0, LimitsAssumption DEF TypeOK
  <2>2. CASE Prompt
    BY <2>1, <2>2 DEF Prompt
  <2>3. CASE EmitMessage
    <3>1. messages + 1 \in 1..MaxMessages /\ messages + 1 \in 0..MaxMessages
      BY <2>1, <2>3 DEF EmitMessage
    <3> QED
      BY <2>1, <2>3, <3>1 DEF EmitMessage
  <2>4. CASE Settle
    BY <2>1, <2>4 DEF Settle
  <2> QED
    BY <2>2, <2>3, <2>4
<1>3. TypeOK'
  BY <1>0, <1>1, <1>2 DEF TypeOK
<1>4. \/ transcript' = transcript /\ emitting' = emitting
      \/ /\ transcript' = transcript \cup {messages + 1} /\ emitting' = messages + 1
         /\ emitting = 0 /\ messages + 1 # 0
  <2>1. CASE Prompt \/ Settle
    BY <2>1 DEF Prompt, Settle
  <2>2. CASE EmitMessage
    <3>1. messages + 1 # 0
      BY <1>0 DEF TypeOK
    <3> QED
      BY <2>2, <3>1 DEF EmitMessage
  <2> QED
    BY <2>1, <2>2
<1>5. Context(leaf)' = Context(leaf)
  BY <1>1 DEF Context, Shown, Messages, GetBranch
<1>6. NothingUnsaved'
  BY <1>0, <1>4, <1>5 DEF NothingUnsaved
<1> QED
  BY <1>1, <1>3, <1>6, StayStep

LEMMA PersistKeeps ==
  ASSUME MemoryInv, PersistMessage
  PROVE  MemoryInv'
<1>0. TypeOK /\ TreeSound /\ NothingUnsaved
  BY DEF MemoryInv
<1> DEFINE list == <<Message(emitting)>>
<1>1. /\ emitting # 0 /\ AppendEntries(list) /\ emitting' = 0 /\ messages' = messages
      /\ agent' = agent /\ settled' = settled /\ transcript' = transcript /\ runs' = runs
      /\ memoryRun' = memoryRun /\ compactor' = compactor /\ awaited' = awaited
      /\ compactions' = compactions /\ scheduled' = scheduled
  BY DEF PersistMessage, compaction
<1>2. /\ Listed(leaf, list) /\ list \in Seq(Entry) /\ Len(list) = 1
      /\ list[1].type = "message" /\ list[1].message = emitting
      /\ \A k \in DOMAIN list : list[k].type # "compaction"
  <2>1. Listed(leaf, list) /\ Message(emitting).type = "message"
        /\ Message(emitting).message = emitting
    BY <1>0, <1>1, MessageListed
  <2> QED
    BY <2>1 DEF Listed
<1> HIDE DEF list
<1>3. entries' \in Seq(Entry) /\ leaf' \in 0..Len(entries')
  BY <1>0, <1>1, <1>2, EntriesAppended DEF EntriesExtended
<1>4. TypeOK'
  <2>1. 0 \in 0..MaxMessages
    BY LimitsAssumption
  <2> QED
    BY <2>1, <1>0, <1>1, <1>3 DEF TypeOK
<1>5. Context(leaf) \subseteq Context(leaf)' /\ emitting \in Context(leaf)'
  BY <1>0, <1>1, <1>2, AppendShows
<1>6. NothingUnsaved'
  BY <1>0, <1>1, <1>5 DEF NothingUnsaved
<1> QED
  BY <1>1, <1>2, <1>4, <1>6, AppendStep

LEMMA NavigateKeeps ==
  ASSUME MemoryInv, NEW target \in 0..Len(entries), Navigate(target)
  PROVE  MemoryInv'
<1>0. TypeOK /\ TreeSound
  BY DEF MemoryInv
<1>1. /\ leaf' = target /\ transcript' = Context(target) /\ entries' = entries
      /\ messages' = messages /\ emitting' = emitting /\ agent' = agent /\ settled' = settled
      /\ runs' = runs /\ memoryRun' = memoryRun /\ compactor' = compactor
      /\ awaited' = awaited /\ compactions' = compactions /\ scheduled' = scheduled
  BY DEF Navigate, turn, compaction
<1>2. TypeOK'
  BY <1>0, <1>1, ContextTyped DEF TypeOK
<1>3. Context(leaf)' = Context(target)
  BY <1>1 DEF Context, Shown, Messages, GetBranch
<1>4. NothingUnsaved'
  BY <1>1, <1>3 DEF NothingUnsaved
<1> QED
  BY <1>1, <1>2, <1>4, StayStep

LEMMA StartKeeps ==
  ASSUME MemoryInv, ScheduleMemory \/ ForcedRun \/ BeginCompaction
  PROVE  MemoryInv'
<1>0. TypeOK /\ NothingUnsaved
  BY DEF MemoryInv
<1>1. /\ entries' = entries /\ leaf' = leaf /\ transcript' = transcript /\ emitting' = emitting
      /\ messages' = messages /\ agent' = agent
  BY DEF ScheduleMemory, ForcedRun, BeginCompaction, session, turn
<1>2. FreeSlots # {} => FreeSlot \in Slots
  BY DEF FreeSlots, FreeSlot
<1>3. /\ settled' \in 0..MaxSettled /\ scheduled' \in 0..MaxScheduled
      /\ compactions' \in 0..MaxCompactions
  <2>1. /\ settled \in 0..MaxSettled /\ scheduled \in 0..MaxScheduled
        /\ compactions \in 0..MaxCompactions /\ MaxSettled \in Nat /\ MaxScheduled \in Nat
        /\ MaxCompactions \in Nat
    BY <1>0, LimitsAssumption DEF TypeOK
  <2>2. CASE ScheduleMemory
    <3>1. /\ settled > 0 /\ settled' = settled - 1 /\ compactions' = compactions
          /\ \/ scheduled < MaxScheduled /\ scheduled' = scheduled + 1
             \/ scheduled' = scheduled
      BY <2>2 DEF ScheduleMemory, compaction
    <3>2. settled' \in 0..MaxSettled
      BY <2>1, <3>1
    <3>3. scheduled' \in 0..MaxScheduled
      BY <2>1, <3>1
    <3> QED
      BY <2>1, <3>1, <3>2, <3>3
  <2>3. CASE ForcedRun
    BY <2>1, <2>3 DEF ForcedRun, turn
  <2>4. CASE BeginCompaction
    BY <2>1, <2>4 DEF BeginCompaction, turn
  <2> QED
    BY <2>2, <2>3, <2>4
<1>4. /\ compactor' \in Compactors /\ awaited' \in Slots \cup {NoRun}
      /\ memoryRun' \in Slots \cup {NoRun}
  BY <1>0, <1>2
    DEF TypeOK, ScheduleMemory, ForcedRun, BeginCompaction, compaction, StartRun, Compactors
<1>5. \/ runs' = runs
      \/ \E force \in BOOLEAN : FreeSlot \in Slots /\ runs' = [runs EXCEPT ![FreeSlot] = NewRun(force)]
  BY <1>2 DEF ScheduleMemory, ForcedRun, BeginCompaction, StartRun
<1>6. /\ runs' \in [Slots -> Run]
      /\ \A s \in Slots : runs'[s] = runs[s] \/ RunSound(runs[s])'
  <2>1. CASE runs' = runs
    BY <2>1, <1>0 DEF TypeOK
  <2>2. ASSUME NEW force \in BOOLEAN, FreeSlot \in Slots,
               runs' = [runs EXCEPT ![FreeSlot] = NewRun(force)]
        PROVE  /\ runs' \in [Slots -> Run]
               /\ \A s \in Slots : runs'[s] = runs[s] \/ RunSound(runs[s])'
    <3>1. PICK r \in Run : r = NewRun(force) /\ RunSound(r)
      BY <1>0, FreshRun
    <3>2. RunSound(r)'
      BY <3>1, <1>1
        DEF RunSound, UnprocessedMessages, ActiveMemory, SourcesOf, Messages, Memories, GetBranch
    <3>3. runs' \in [Slots -> Run] /\ \A s \in Slots : runs'[s] = runs[s] \/ runs'[s] = r
      BY <2>2, <3>1, <1>0 DEF TypeOK
    <3> QED
      BY <3>2, <3>3
  <2> QED
    BY <2>1, <2>2, <1>5
<1>7. TypeOK'
  BY <1>0, <1>1, <1>3, <1>4, <1>6 DEF TypeOK
<1>8. NothingUnsaved'
  BY <1>0, <1>1 DEF NothingUnsaved, Context, Shown, Messages, GetBranch
<1> QED
  BY <1>1, <1>6, <1>7, <1>8, StayStep

LEMMA CompactionKeeps ==
  ASSUME MemoryInv, AppendCompaction
  PROVE  MemoryInv'
<1>0. TypeOK /\ TreeSound /\ NothingUnsaved
  BY DEF MemoryInv
<1>1. /\ messages' = messages /\ emitting' = emitting /\ agent' = agent /\ settled' = settled
      /\ runs' = runs /\ memoryRun' = memoryRun /\ awaited' = awaited
      /\ compactions' = compactions /\ scheduled' = scheduled /\ compactor' = "none"
  BY DEF AppendCompaction, turn
<1>2. "none" \in Compactors
  BY DEF Compactors
<1>3. CASE UNCHANGED <<session, transcript>>
  <2>1. entries' = entries /\ leaf' = leaf /\ transcript' = transcript
    BY <1>3 DEF session
  <2>2. TypeOK'
    BY <2>1, <1>0, <1>1, <1>2 DEF TypeOK
  <2>3. NothingUnsaved'
    BY <2>1, <1>0, <1>1 DEF NothingUnsaved, Context, Shown, Messages, GetBranch
  <2> QED
    BY <2>1, <2>2, <2>3, <1>1, StayStep
<1>4. CASE ~(UNCHANGED <<session, transcript>>)
  <2>1. PICK kept \in SUBSET Shown(leaf) :
          /\ AppendEntries(<<Compaction(kept)>>)
          /\ transcript' = {entries[i].message : i \in kept}
    <3>1. PICK first \in Shown(leaf) :
            /\ AppendEntries(<<Compaction({i \in Shown(leaf) : i >= first})>>)
            /\ transcript' = {entries[i].message : i \in {i \in Shown(leaf) : i >= first}}
      BY <1>4 DEF AppendCompaction
    <3>2. {i \in Shown(leaf) : i >= first} \in SUBSET Shown(leaf)
      OBVIOUS
    <3> QED
      BY <3>1, <3>2
  <2>2. /\ Listed(leaf, <<Compaction(kept)>>)
        /\ {entries[i].message : i \in kept} \subseteq Context(leaf)'
    BY <2>1, <1>0, CompactionShows
  <2>3. transcript' \subseteq 1..MaxMessages
    <3>1. leaf \in 0..Len(entries)
      BY <1>0, EntriesCounted
    <3>2. \A i \in kept : entries[i].message \in 1..MaxMessages
      BY <3>1, <1>0, ContextTyped
    <3> QED
      BY <3>2, <2>1
  <2>4. entries' \in Seq(Entry) /\ leaf' \in 0..Len(entries')
    BY <2>1, <2>2, <1>0, EntriesAppended DEF EntriesExtended, Listed
  <2>5. TypeOK'
    BY <2>3, <2>4, <1>0, <1>1, <1>2 DEF TypeOK
  <2>6. NothingUnsaved'
    BY <2>1, <2>2 DEF NothingUnsaved
  <2> QED
    BY <2>1, <2>2, <2>5, <2>6, <1>1, AppendStep
<1> QED
  BY <1>3, <1>4

(* The run s settles.                                                       *)
LEMMA EndKeeps ==
  ASSUME MemoryInv, NEW s \in Slots, EndRun(s), UNCHANGED session,
         transcript' = transcript \/ transcript' = Context(leaf)
  PROVE  MemoryInv'
<1>0. TypeOK /\ TreeSound /\ NothingUnsaved
  BY DEF MemoryInv
<1>1. /\ entries' = entries /\ leaf' = leaf /\ messages' = messages /\ emitting' = emitting
      /\ agent' = agent /\ settled' = settled /\ compactions' = compactions
      /\ scheduled' = scheduled /\ runs' = [runs EXCEPT ![s] = NoRunYet]
  BY DEF EndRun, session, turn
<1>2. /\ memoryRun' \in Slots \cup {NoRun} /\ awaited' \in Slots \cup {NoRun}
      /\ compactor' \in Compactors
  BY <1>0 DEF EndRun, TypeOK, Compactors
<1>3. transcript' \subseteq 1..MaxMessages
  <2>1. leaf \in 0..Len(entries)
    BY <1>0, EntriesCounted
  <2>2. Context(leaf) \subseteq 1..MaxMessages
    BY <2>1, <1>0, ContextTyped
  <2> QED
    BY <2>2, <1>0 DEF TypeOK
<1>4. PICK r \in Run : r = NoRunYet /\ RunSound(r)
  BY <1>0, FreshRun
<1>5. RunSound(r)'
  BY <1>1, <1>4
    DEF RunSound, UnprocessedMessages, ActiveMemory, SourcesOf, Messages, Memories, GetBranch
<1>6. runs' \in [Slots -> Run] /\ \A t \in Slots : runs'[t] = runs[t] \/ runs'[t] = r
  BY <1>0, <1>1, <1>4 DEF TypeOK
<1>7. \A t \in Slots : runs'[t] = runs[t] \/ RunSound(runs[t])'
  BY <1>5, <1>6
<1>8. TypeOK'
  BY <1>0, <1>1, <1>2, <1>3, <1>6 DEF TypeOK
<1>9. NothingUnsaved'
  BY <1>0, <1>1 DEF NothingUnsaved, Context, Shown, Messages, GetBranch
<1> QED
  BY <1>1, <1>7, <1>8, <1>9, StayStep

(* The run s goes on as r, and the session stays.                           *)
LEMMA GoOnKeeps ==
  ASSUME MemoryInv, NEW s \in Slots, NEW r \in Run, RunSound(r),
         runs' = [runs EXCEPT ![s] = r], UNCHANGED session, Continue
  PROVE  MemoryInv'
<1>0. TypeOK /\ TreeSound /\ NothingUnsaved
  BY DEF MemoryInv
<1>1. /\ entries' = entries /\ leaf' = leaf /\ messages' = messages /\ emitting' = emitting
      /\ agent' = agent /\ settled' = settled /\ transcript' = transcript
      /\ memoryRun' = memoryRun /\ compactor' = compactor /\ awaited' = awaited
      /\ compactions' = compactions /\ scheduled' = scheduled
  BY DEF Continue, session, turn, compaction
<1>2. RunSound(r)'
  BY <1>1
    DEF RunSound, UnprocessedMessages, ActiveMemory, SourcesOf, Messages, Memories, GetBranch
<1>3. runs' \in [Slots -> Run] /\ \A t \in Slots : runs'[t] = runs[t] \/ runs'[t] = r
  BY <1>0 DEF TypeOK
<1>4. \A t \in Slots : runs'[t] = runs[t] \/ RunSound(runs[t])'
  BY <1>2, <1>3
<1>5. TypeOK'
  BY <1>0, <1>1, <1>3 DEF TypeOK
<1>6. NothingUnsaved'
  BY <1>0, <1>1 DEF NothingUnsaved, Context, Shown, Messages, GetBranch
<1> QED
  BY <1>1, <1>4, <1>5, <1>6, StayStep

(* The run s goes on as r and appends what the memory of the session gains. *)
LEMMA WriteKeeps ==
  ASSUME MemoryInv, NEW s \in Slots, NEW r \in Run, runs' = [runs EXCEPT ![s] = r],
         NEW list, Listed(leaf, list), AppendEntries(list), Continue,
         \A k \in DOMAIN list : list[k].type = "memory",
         RunSound(r)'
  PROVE  MemoryInv'
<1>0. TypeOK /\ TreeSound /\ NothingUnsaved
  BY DEF MemoryInv
<1>1. /\ messages' = messages /\ emitting' = emitting
      /\ agent' = agent /\ settled' = settled /\ transcript' = transcript
      /\ memoryRun' = memoryRun /\ compactor' = compactor /\ awaited' = awaited
      /\ compactions' = compactions /\ scheduled' = scheduled
  BY DEF Continue, turn, compaction
<1>2. runs' \in [Slots -> Run] /\ \A t \in Slots : runs'[t] = runs[t] \/ runs'[t] = r
  BY <1>0 DEF TypeOK
<1>3. \A t \in Slots : runs'[t] = runs[t] \/ RunSound(runs[t])'
  BY <1>2
<1>4. entries' \in Seq(Entry) /\ leaf' \in 0..Len(entries')
  BY <1>0, EntriesAppended DEF EntriesExtended, Listed
<1>5. TypeOK'
  BY <1>0, <1>1, <1>2, <1>4 DEF TypeOK
<1>6. Context(leaf) \subseteq Context(leaf)'
  BY <1>0, AppendShows DEF Listed
<1>7. NothingUnsaved'
  BY <1>0, <1>1, <1>6 DEF NothingUnsaved
<1> QED
  BY <1>3, <1>5, <1>7, AppendStep

(* A run in another stage is the same run otherwise.                        *)
LEMMA StageSet ==
  ASSUME NEW r \in Run, NEW stage \in Stages
  PROVE  LET r1 == [r EXCEPT !.stage = stage] IN
         /\ r1 \in Run /\ r1.leaf = r.leaf /\ r1.observed = r.observed
         /\ r1.replaced = r.replaced /\ r1.reflections = r.reflections /\ r1.pool = r.pool
BY DEF Run

LEMMA RecordKeeps ==
  ASSUME MemoryInv, NEW s \in Slots, NEW r \in Run, RunSound(r), leaf = r.leaf,
         Record(s, r), Continue
  PROVE  MemoryInv'
<1>0. TypeOK /\ TreeSound /\ SourcesOnBranch
  BY DEF MemoryInv
<1> DEFINE fresh == (Len(entries) + 1)..(Len(entries) + r.observations)
           pool == ActiveMemory(leaf, {"observation"}) \cup fresh
           wrote == (Len(entries) + 1)..(Len(entries) + r.observations + r.traces)
           a == [r EXCEPT !.stage = "dropping", !.pool = pool, !.wrote = wrote]
           b == [r EXCEPT !.stage = "refreshing"]
<1>1. \/ AppendEntries(Observed(r)) /\ runs' = [runs EXCEPT ![s] = a]
      \/ AppendEntries(Observed(r) \o Consolidated(r, {})) /\ runs' = [runs EXCEPT ![s] = b]
  BY DEF Record
<1>2. /\ Listed(leaf, Observed(r)) /\ Listed(leaf, Consolidated(r, {}))
      /\ Listed(leaf, Observed(r) \o Consolidated(r, {}))
      /\ \A k \in DOMAIN Observed(r) : Observed(r)[k].type = "memory"
      /\ \A k \in DOMAIN Consolidated(r, {}) : Consolidated(r, {})[k].type = "memory"
      /\ Len(Observed(r)) = r.observations + r.traces
      /\ r.observations = 1 => Observed(r)[1].kind = "observation"
  <2>1. {} \in SUBSET r.pool
    OBVIOUS
  <2> QED
    BY <2>1, <1>0, WrittenListed
<1>3. r.observations \in 0..1 /\ r.traces \in 0..1 /\ Len(entries) \in Nat
      /\ DOMAIN entries = 1..Len(entries)
  BY <1>0, RunTyped, EntriesCounted
<1>4. CASE AppendEntries(Observed(r)) /\ runs' = [runs EXCEPT ![s] = a]
  <2>1. PICK p \in SUBSET (Nat \ {0}) : p = pool
    <3>1. Memories(leaf) \subseteq DOMAIN entries
      <4>1. leaf \in 0..Len(entries)
        BY <1>0, EntriesCounted
      <4> QED
        BY <4>1, <1>0, BranchKnown DEF Memories
    <3>2. pool \subseteq Nat \ {0}
      BY <3>1, <1>3 DEF ActiveMemory
    <3> QED
      BY <3>2
  <2>2. PICK w \in SUBSET (Nat \ {0}) : w = wrote
    BY <1>3
  <2>3. PICK r1 \in Run : /\ r1 = a /\ r1.leaf = r.leaf /\ r1.observed = r.observed
                          /\ r1.replaced = r.replaced /\ r1.reflections = r.reflections
                          /\ r1.pool = p
    <3>1. a = [r EXCEPT !.stage = "dropping", !.pool = p, !.wrote = w]
      BY <2>1, <2>2
    <3> QED
      BY <3>1 DEF Run, Stages
  <2>4. /\ EntriesExtended /\ Len(entries') = Len(entries) + r.observations + r.traces
        /\ \A k \in 1..Len(Observed(r)) : entries'[Len(entries) + k].kind = Observed(r)[k].kind
    BY <1>0, <1>2, <1>3, <1>4, EntriesAppended DEF Listed
  <2>5. RunSound(r)'
    BY <2>4, <1>0, RunStays
  <2>6. \A i \in p : i \in DOMAIN entries' /\ entries'[i].kind = "observation"
    <3> TAKE i \in p
    <3>0. DOMAIN entries' = 1..(Len(entries) + r.observations + r.traces)
      BY <2>4 DEF EntriesExtended
    <3>1. CASE i \in ActiveMemory(leaf, {"observation"})
      <4>1. leaf \in 0..Len(entries)
        BY <1>0, EntriesCounted
      <4>2. i \in DOMAIN entries /\ entries[i].kind = "observation"
        BY <3>1, <4>1, <1>0, BranchKnown DEF ActiveMemory, Memories
      <4> QED
        BY <4>2, <3>0, <2>4, <1>3 DEF EntriesExtended
    <3>2. CASE i \in fresh
      <4>1. r.observations = 1 /\ i = Len(entries) + 1 /\ 1 \in 1..Len(Observed(r))
        BY <3>2, <1>2, <1>3
      <4> QED
        BY <4>1, <3>0, <2>4, <1>2, <1>3
    <3> QED
      BY <3>1, <3>2, <2>1
  <2>7. RunSound(r1)'
    BY <2>3, <2>5, <2>6 DEF RunSound
  <2>8. runs' = [runs EXCEPT ![s] = r1] /\ AppendEntries(Observed(r))
    BY <2>3, <1>4
  <2> QED
    BY <2>7, <2>8, <1>2, WriteKeeps
<1>5. CASE AppendEntries(Observed(r) \o Consolidated(r, {})) /\ runs' = [runs EXCEPT ![s] = b]
  <2>1. PICK r1 \in Run : /\ r1 = b /\ r1.leaf = r.leaf /\ r1.observed = r.observed
                          /\ r1.replaced = r.replaced /\ r1.reflections = r.reflections
                          /\ r1.pool = r.pool
    BY StageSet DEF Stages
  <2>2. PICK list : list = Observed(r) \o Consolidated(r, {})
    OBVIOUS
  <2>3. Listed(leaf, list) /\ AppendEntries(list)
    BY <2>2, <1>2, <1>5
  <2>4. \A k \in DOMAIN list : list[k].type = "memory"
    <3>1. Observed(r) \in Seq(Entry) /\ Consolidated(r, {}) \in Seq(Entry)
      BY <1>2 DEF Listed
    <3>2. /\ list \in Seq(Entry) /\ Len(list) = Len(Observed(r)) + Len(Consolidated(r, {}))
          /\ \A i \in 1..Len(Observed(r)) : list[i] = Observed(r)[i]
          /\ \A k \in 1..Len(Consolidated(r, {})) :
               list[Len(Observed(r)) + k] = Consolidated(r, {})[k]
      BY ONLY <3>1, <2>2, Concatenated
    <3>3. /\ DOMAIN Observed(r) = 1..Len(Observed(r)) /\ Len(Observed(r)) \in Nat
          /\ DOMAIN Consolidated(r, {}) = 1..Len(Consolidated(r, {}))
          /\ Len(Consolidated(r, {})) \in Nat
      BY <3>1
    <3>4. \A k \in DOMAIN list :
            \/ k \in 1..Len(Observed(r))
            \/ \E j \in 1..Len(Consolidated(r, {})) : k = Len(Observed(r)) + j
      <4> TAKE k \in DOMAIN list
      <4>1. k \in 1..(Len(Observed(r)) + Len(Consolidated(r, {})))
        BY <3>2
      <4>2. CASE k \notin 1..Len(Observed(r))
        <5>1. k - Len(Observed(r)) \in 1..Len(Consolidated(r, {}))
          BY <3>3, <4>1, <4>2
        <5>2. k = Len(Observed(r)) + (k - Len(Observed(r)))
          BY <3>3, <4>1
        <5> QED
          BY <5>1, <5>2
      <4> QED
        BY <4>2
    <3>5. \A j \in 1..Len(Observed(r)) : list[j].type = "memory"
      BY <3>2, <3>3, <1>2
    <3>6. \A j \in 1..Len(Consolidated(r, {})) : list[Len(Observed(r)) + j].type = "memory"
      BY <3>2, <3>3, <1>2
    <3> QED
      BY <3>4, <3>5, <3>6
  <2>5. EntriesExtended
    BY <2>3, <1>0, EntriesAppended DEF Listed
  <2>6. RunSound(r)'
    BY <2>5, <1>0, RunStays
  <2>7. RunSound(r1)'
    BY <2>1, <2>6 DEF RunSound
  <2>8. runs' = [runs EXCEPT ![s] = r1]
    BY <2>1, <1>5
  <2> QED
    BY <2>3, <2>4, <2>7, <2>8, WriteKeeps
<1> QED
  BY <1>1, <1>4, <1>5

LEMMA ConsiderKeeps ==
  ASSUME MemoryInv, NEW s \in Slots, NEW r \in Run, RunSound(r), leaf = r.leaf,
         Consider(s, r), Continue
  PROVE  MemoryInv'
<1>1. CASE runs' = [runs EXCEPT ![s] = [r EXCEPT !.stage = "reflecting"]] /\ UNCHANGED session
  <2>1. PICK r1 \in Run : /\ r1 = [r EXCEPT !.stage = "reflecting"] /\ r1.leaf = r.leaf
                          /\ r1.observed = r.observed /\ r1.replaced = r.replaced
                          /\ r1.reflections = r.reflections /\ r1.pool = r.pool
    BY StageSet DEF Stages
  <2>2. RunSound(r1)
    BY <2>1 DEF RunSound
  <2> QED
    BY <2>1, <2>2, <1>1, GoOnKeeps
<1>2. CASE Record(s, r)
  BY <1>2, RecordKeeps
<1> QED
  BY <1>1, <1>2 DEF Consider

LEMMA SourcesSelected ==
  ASSUME TypeOK, TreeSound, NEW l \in 0..Len(entries)
  PROVE  /\ SelectObservationSources(UnprocessedMessages(l)) \subseteq UnprocessedMessages(l)
         /\ SelectObservationSources(UnprocessedMessages(l)) \subseteq Nat \ {0}
<1>1. UnprocessedMessages(l) \subseteq DOMAIN entries
  BY ContextTyped DEF UnprocessedMessages
<1>2. UnprocessedMessages(l) \subseteq Nat \ {0}
  BY <1>1, EntriesCounted
<1> QED
  BY <1>2 DEF SelectObservationSources

(* What the answers of the models change in a run.                          *)
LEMMA ObservingSet ==
  ASSUME NEW r \in Run, NEW S \in SUBSET (Nat \ {0})
  PROVE  LET r1 == [r EXCEPT !.stage = "observing", !.observed = S] IN
         /\ r1 \in Run /\ r1.leaf = r.leaf /\ r1.observed = S /\ r1.replaced = r.replaced
         /\ r1.reflections = r.reflections /\ r1.pool = r.pool
BY DEF Run, Stages

LEMMA ObservedSet ==
  ASSUME NEW r \in Run, NEW o \in 0..1, NEW t \in 0..1
  PROVE  \E r1 \in Run : /\ r1 = [r EXCEPT !.observations = o, !.traces = t]
                         /\ r1.leaf = r.leaf /\ r1.observed = r.observed
                         /\ r1.replaced = r.replaced /\ r1.reflections = r.reflections
                         /\ r1.pool = r.pool
<1> DEFINE r1 == [r EXCEPT !.observations = o, !.traces = t]
<1>1. /\ r1 \in Run /\ r1.leaf = r.leaf /\ r1.observed = r.observed
      /\ r1.replaced = r.replaced /\ r1.reflections = r.reflections /\ r1.pool = r.pool
  BY DEF Run
<1>2. r1 = [r EXCEPT !.observations = o, !.traces = t]
  OBVIOUS
<1> HIDE DEF r1
<1> QED
  BY ONLY <1>1, <1>2, Zenon

LEMMA AuthorizedKeeps ==
  ASSUME MemoryInv, NEW s \in Slots, Authorized(s)
  PROVE  MemoryInv'
<1>0. TypeOK /\ TreeSound /\ RunsSound
  BY DEF MemoryInv
<1>1. PICK r \in Run : r = runs[s] /\ RunSound(r)
  BY <1>0 DEF TypeOK, RunsSound
<1>2. CASE GiveUp(s)
  BY <1>2, EndKeeps DEF GiveUp
<1>3. CASE /\ IsCurrentBranch(r) /\ Continue /\ UNCHANGED session
           /\ runs' = [runs EXCEPT ![s].stage = "observing",
                        ![s].observed = SelectObservationSources(UnprocessedMessages(r.leaf))]
  <2>1. PICK S \in SUBSET (Nat \ {0}) :
          /\ S = SelectObservationSources(UnprocessedMessages(r.leaf))
          /\ S \subseteq UnprocessedMessages(r.leaf)
    <3>1. r.leaf \in 0..Len(entries)
      BY <1>1 DEF RunSound
    <3> QED
      BY <3>1, <1>0, SourcesSelected
  <2>2. PICK r1 \in Run : /\ r1 = [r EXCEPT !.stage = "observing", !.observed = S]
                          /\ r1.leaf = r.leaf /\ r1.observed = S /\ r1.replaced = r.replaced
                          /\ r1.reflections = r.reflections /\ r1.pool = r.pool
    BY ObservingSet
  <2>3. runs' = [runs EXCEPT ![s] = r1]
    BY <1>0, <1>1, <1>3, <2>1, <2>2 DEF TypeOK, Run
  <2>4. RunSound(r1)
    BY <1>1, <2>1, <2>2 DEF RunSound
  <2> QED
    BY <1>3, <2>3, <2>4, GoOnKeeps
<1>4. CASE IsCurrentBranch(r) /\ Consider(s, r) /\ Continue
  BY <1>1, <1>4, ConsiderKeeps DEF IsCurrentBranch
<1> QED
  BY <1>1, <1>2, <1>3, <1>4 DEF Authorized

LEMMA ObserverKeeps ==
  ASSUME MemoryInv, NEW s \in Slots, ObserverAnswers(s)
  PROVE  MemoryInv'
<1>0. TypeOK /\ RunsSound
  BY DEF MemoryInv
<1>1. PICK r \in Run : r = runs[s] /\ RunSound(r)
  BY <1>0 DEF TypeOK, RunsSound
<1>2. CASE GiveUp(s)
  BY <1>2, EndKeeps DEF GiveUp
<1>3. ASSUME IsCurrentBranch(r), Continue, NEW o \in 0..1, NEW t \in 0..1,
             Consider(s, [r EXCEPT !.observations = o, !.traces = t])
      PROVE  MemoryInv'
  <2>1. PICK r1 \in Run : /\ r1 = [r EXCEPT !.observations = o, !.traces = t]
                          /\ r1.leaf = r.leaf /\ r1.observed = r.observed
                          /\ r1.replaced = r.replaced /\ r1.reflections = r.reflections
                          /\ r1.pool = r.pool
    <3>1. r \in Run /\ o \in 0..1 /\ t \in 0..1
      BY <1>3
    <3> QED
      BY ONLY <3>1, ObservedSet, Zenon
  <2>2. RunSound(r1) /\ leaf = r1.leaf
    BY <1>1, <1>3, <2>1 DEF RunSound, IsCurrentBranch
  <2>3. Consider(s, r1)
    BY <1>3, <2>1
  <2> QED
    BY <1>3, <2>2, <2>3, ConsiderKeeps
<1> QED
  BY <1>1, <1>2, <1>3 DEF ObserverAnswers

LEMMA ReflectorKeeps ==
  ASSUME MemoryInv, NEW s \in Slots, ReflectorAnswers(s)
  PROVE  MemoryInv'
<1>0. TypeOK /\ TreeSound /\ RunsSound
  BY DEF MemoryInv
<1>1. PICK r \in Run : r = runs[s] /\ RunSound(r)
  BY <1>0 DEF TypeOK, RunsSound
<1>2. CASE GiveUp(s)
  BY <1>2, EndKeeps DEF GiveUp
<1>3. ASSUME IsCurrentBranch(r), Continue, NEW n \in 0..1,
             NEW replaced \in SUBSET Supersedable(r, n),
             Record(s, [r EXCEPT !.reflections = n, !.replaced = replaced])
      PROVE  MemoryInv'
  <2>1. /\ replaced \subseteq ActiveMemory(r.leaf, {"reflection"})
        /\ replaced # {} => n = 1
    BY DEF Supersedable
  <2>2. replaced \in SUBSET (Nat \ {0})
    <3>1. r.leaf \in 0..Len(entries)
      BY <1>1 DEF RunSound
    <3>2. ActiveMemory(r.leaf, {"reflection"}) \subseteq DOMAIN entries
      BY <3>1, <1>0, BranchKnown DEF ActiveMemory, Memories
    <3> QED
      BY <2>1, <3>2, <1>0, EntriesCounted
  <2>3. PICK r1 \in Run : /\ r1 = [r EXCEPT !.reflections = n, !.replaced = replaced]
                          /\ r1.leaf = r.leaf /\ r1.observed = r.observed
                          /\ r1.replaced = replaced /\ r1.reflections = n
                          /\ r1.pool = r.pool
    <3>1. n \in 0..1 /\ r \in Run
      BY <1>3
    <3>2. PICK r1 : r1 = [r EXCEPT !.reflections = n, !.replaced = replaced]
      OBVIOUS
    <3>3. /\ r1 \in Run /\ r1.leaf = r.leaf /\ r1.observed = r.observed
          /\ r1.replaced = replaced /\ r1.reflections = n /\ r1.pool = r.pool
      BY <2>2, <3>1, <3>2 DEF Run
    <3> QED
      BY <3>2, <3>3
  <2>4. RunSound(r1) /\ leaf = r1.leaf
    BY <1>1, <1>3, <2>1, <2>3 DEF RunSound, IsCurrentBranch
  <2>5. Record(s, r1)
    BY <1>3, <2>3
  <2> QED
    BY <1>3, <2>4, <2>5, RecordKeeps
<1> QED
  BY <1>1, <1>2, <1>3 DEF ReflectorAnswers

LEMMA DropperKeeps ==
  ASSUME MemoryInv, NEW s \in Slots, DropperAnswers(s)
  PROVE  MemoryInv'
<1>0. TypeOK /\ TreeSound /\ RunsSound /\ SourcesOnBranch
  BY DEF MemoryInv
<1>1. PICK r \in Run : r = runs[s] /\ RunSound(r)
  BY <1>0 DEF TypeOK, RunsSound
<1>2. CASE GiveUp(s)
  BY <1>2, EndKeeps DEF GiveUp
<1>3. ASSUME IsCurrentBranch(r), Continue, NEW pruned \in SUBSET r.pool,
             AppendEntries(Consolidated(r, pruned)),
             runs' = [runs EXCEPT ![s].stage = "refreshing"]
      PROVE  MemoryInv'
  <2>1. PICK r1 \in Run : /\ r1 = [r EXCEPT !.stage = "refreshing"]
                          /\ r1.leaf = r.leaf /\ r1.observed = r.observed
                          /\ r1.replaced = r.replaced /\ r1.reflections = r.reflections
                          /\ r1.pool = r.pool
    BY StageSet DEF Stages
  <2>2. runs' = [runs EXCEPT ![s] = r1]
    BY <1>0, <1>1, <1>3, <2>1 DEF TypeOK, Run
  <2>3. PICK list : list = Consolidated(r, pruned)
    OBVIOUS
  <2>4. /\ Listed(leaf, list) /\ AppendEntries(list)
        /\ \A k \in DOMAIN list : list[k].type = "memory"
    <3>1. /\ Listed(r.leaf, list)
          /\ \A k \in DOMAIN list : list[k].type = "memory"
      BY <1>0, <1>1, <1>3, <2>3, WrittenListed
    <3> QED
      BY <3>1, <1>3, <2>3 DEF IsCurrentBranch
  <2>5. EntriesExtended
    BY <2>4, <1>0, EntriesAppended DEF Listed
  <2>6. RunSound(r)'
    BY <2>5, <1>0, <1>1, RunStays
  <2>7. RunSound(r1)'
    BY <2>1, <2>6 DEF RunSound
  <2> QED
    BY <1>3, <2>2, <2>4, <2>7, WriteKeeps
<1> QED
  BY <1>1, <1>2, <1>3 DEF DropperAnswers

LEMMA FailKeeps ==
  ASSUME MemoryInv, NEW s \in Slots, RunFails(s)
  PROVE  MemoryInv'
<1>0. TypeOK /\ RunsSound
  BY DEF MemoryInv
<1>1. PICK r \in Run : r = runs[s] /\ RunSound(r)
  BY <1>0 DEF TypeOK, RunsSound
<1>2. PICK r1 \in Run : /\ r1 = [r EXCEPT !.stage = "failed"]
                        /\ r1.leaf = r.leaf /\ r1.observed = r.observed
                        /\ r1.replaced = r.replaced /\ r1.reflections = r.reflections
                        /\ r1.pool = r.pool
  BY StageSet DEF Stages
<1>3. runs' = [runs EXCEPT ![s] = r1] /\ Continue /\ UNCHANGED session
  BY <1>0, <1>1, <1>2 DEF RunFails, TypeOK, Run
<1>4. RunSound(r1)
  BY <1>1, <1>2 DEF RunSound
<1> QED
  BY <1>3, <1>4, GoOnKeeps

LEMMA RunStepKeeps ==
  ASSUME MemoryInv, NEW s \in Slots, RunStep(s)
  PROVE  MemoryInv'
<1>1. CASE FailedRunEnds(s)
  BY <1>1, EndKeeps DEF FailedRunEnds, GiveUp
<1>2. CASE Refresh(s)
  BY <1>2, EndKeeps DEF Refresh
<1> QED
  BY <1>1, <1>2, AuthorizedKeeps, ObserverKeeps, ReflectorKeeps, DropperKeeps, FailKeeps
    DEF RunStep

LEMMA MemoryStutters ==
  ASSUME MemoryInv, UNCHANGED vars
  PROVE  MemoryInv'
<1>0. TypeOK /\ NothingUnsaved
  BY DEF MemoryInv
<1>1. /\ entries' = entries /\ leaf' = leaf /\ messages' = messages /\ emitting' = emitting
      /\ transcript' = transcript /\ agent' = agent /\ settled' = settled /\ runs' = runs
      /\ memoryRun' = memoryRun /\ compactor' = compactor /\ awaited' = awaited
      /\ scheduled' = scheduled /\ compactions' = compactions
  BY DEF vars, session, turn, compaction
<1>2. TypeOK'
  BY <1>0, <1>1 DEF TypeOK
<1>3. NothingUnsaved'
  BY <1>0, <1>1 DEF NothingUnsaved, Context, Shown, Messages, GetBranch
<1> QED
  BY <1>1, <1>2, <1>3, StayStep

LEMMA MemoryStep == MemoryInv /\ [Next]_vars => MemoryInv'
<1> SUFFICES ASSUME MemoryInv, [Next]_vars
    PROVE  MemoryInv'
  OBVIOUS
<1>1. CASE Prompt \/ EmitMessage \/ Settle
  BY <1>1, TurnKeeps
<1>2. CASE ScheduleMemory \/ ForcedRun \/ BeginCompaction
  BY <1>2, StartKeeps
<1> QED
  BY <1>1, <1>2, PersistKeeps, NavigateKeeps, CompactionKeeps, RunStepKeeps, MemoryStutters
    DEF Next

LEMMA MemoryBegins == Init => MemoryInv
<1> SUFFICES ASSUME Init
    PROVE  MemoryInv
  OBVIOUS
<1>1. TypeOK
  <2>1. /\ MaxMessages \in Nat /\ MaxSettled \in Nat /\ MaxScheduled \in Nat
        /\ MaxCompactions \in Nat
    BY LimitsAssumption
  <2>2. NoRunYet \in Run
    BY DEF NoRunYet, Run, Stages
  <2>3. entries \in Seq(Entry) /\ leaf \in 0..Len(entries)
    BY DEF Init
  <2>4. runs \in [Slots -> Run] /\ compactor \in Compactors /\ transcript \subseteq 1..MaxMessages
    BY <2>2 DEF Init, Compactors
  <2> QED
    BY <2>1, <2>3, <2>4 DEF Init, TypeOK
<1>2. DOMAIN entries = {}
  BY DEF Init
<1>3. TreeSound /\ SourcesOnBranch /\ ObservedOnce /\ ProvenanceKept
  BY <1>2 DEF TreeSound, SourcesOnBranch, ObservedOnce, ProvenanceKept
<1>4. RunsSound
  <2>1. RunSound(NoRunYet)
    BY <1>1, FreshRun
  <2> QED
    BY <2>1 DEF Init, RunsSound
<1>5. NothingUnsaved
  BY DEF Init, NothingUnsaved
<1> QED
  BY <1>1, <1>3, <1>4, <1>5 DEF MemoryInv

LEMMA MemoryAlways == Spec => []MemoryInv
  BY MemoryBegins, MemoryStep, PTL DEF Spec

(* What a branch remembers is about its own messages, covers each of them   *)
(* once and loses no reflection that nothing newer stands for.             *)
THEOREM MemoryAlwaysOnBranch == Spec => []MemoryOnBranch
<1>1. MemoryInv => MemoryOnBranch
  BY DEF MemoryInv, MemoryOnBranch
<1> QED
  BY <1>1, MemoryAlways, PTL

THEOREM NothingEverUnsaved == Spec => []NothingUnsaved
<1>1. MemoryInv => NothingUnsaved
  BY DEF MemoryInv
<1> QED
  BY <1>1, MemoryAlways, PTL

(* Agent session and session memory keep the types of their variables, for  *)
(* any number of prompts, retries, messages, events and memory runs.       *)
THEOREM SessionTypeCorrect == MCSafety => []SessionTypeOK
<1>1. MCInit => MemoryInv /\ TypesInv
  BY MemoryBegins, TypesInit DEF MCInit
<1>2. MemoryInv /\ TypesInv /\ [MCNext]_mcVars => MemoryInv' /\ TypesInv'
  <2> SUFFICES ASSUME MemoryInv, TypesInv, [MCNext]_mcVars
      PROVE  MemoryInv' /\ TypesInv'
    OBVIOUS
  <2>1. [Next]_vars /\ [AgentSessionNext]_agentSessionVars
    BY DEF MCNext, MemoryNext, PromptsNext, mcVars
  <2> QED
    BY <2>1, MemoryStep, TypesStep
<1>3. MemoryInv /\ TypesInv => SessionTypeOK
  BY TypesHold DEF MemoryInv, SessionTypeOK
<1> QED
  BY <1>1, <1>2, <1>3, PTL DEF MCSafety

=============================================================================
