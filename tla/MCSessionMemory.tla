--------------------------- MODULE MCSessionMemory ---------------------------
(* Model checking of agent-session.ts: the memory of a session              *)
(* (SessionMemory) or the prompts, retries and compactions around the runs  *)
(* of the agent (AgentSession), one of the two in each behaviour.           *)
EXTENDS SessionMemory, AgentSession

VARIABLE subject

mcVars == <<vars, agentSessionVars, subject>>

MCInit == Init /\ AgentSessionInit /\ subject \in {"memory", "prompts"}

MemoryNext == subject = "memory" /\ Next /\ UNCHANGED <<agentSessionVars, subject>>
PromptsNext ==
  subject = "prompts" /\ AgentSessionNext /\ UNCHANGED <<vars, subject>>

MCNext == MemoryNext \/ PromptsNext

MCSafety == MCInit /\ [][MCNext]_mcVars

MCSpec == MCSafety /\ MemoryFairness /\ AgentSessionFairness

(* Prompts that were let in together are not followed any further.         *)
OnePromptAtATime == ~overlap

(* Both keep the types of their variables.                                 *)
SessionTypeOK == TypeOK /\ AgentSessionTypeOK

=============================================================================
