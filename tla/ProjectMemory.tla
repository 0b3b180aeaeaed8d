---------------------------- MODULE ProjectMemory ----------------------------
(***************************************************************************)
(* The project memory that the agents of one repository share,             *)
(* packages/coding-agent/src/core/project-memory.ts, and how               *)
(* agent-session.ts records candidates, promotes and forgets them.  Every  *)
(* agent is a process with a session of its own; a statement or an explicit *)
(* transaction is one step, and so is what happens between two awaits.      *)
(*                                                                         *)
(* Records are numbered as they are created; a text stands for its          *)
(* normalized content.  The full-text search (external) finds any candidate *)
(* or none.  All texts have the same size.                                 *)
(***************************************************************************)
EXTENDS Integers, FiniteSets

CONSTANTS
  Agents,      \* processes, each with one session
  Texts,       \* contents a reflection or an edit may have
  CoreMax,     \* records that fit into core memory
  MaxPrompts   \* dialogs that are opened                       (bound)

ASSUME ProjectAssumption ==
  CoreMax \in Nat /\ MaxPrompts \in Nat /\ IsFiniteSet(Texts) /\ Texts # {}

VARIABLES
  records,     \* table records, with record_search
  evidence,    \* table evidence: record and session
  agent,       \* what each agent is doing
  forgetting,  \* the record whose _forgetProjectMemory awaits the user, 0 for none
  prompts      \* dialogs opened so far

projectVars == <<records, evidence, agent, forgetting, prompts>>

Tiers == {"candidate", "archive", "core", "forgotten"}
RecordIds == 1..Cardinality(Texts)

(* pc is the step that comes next.  found is what addCandidate found, 0 for *)
(* nothing; list the candidates still to be shown, current the one shown.   *)
AgentState ==
  [pc : {"idle", "commit", "choose", "fits", "demote", "edit", "editCommit", "approve"},
   text : Texts, found : 0..Cardinality(Texts), list : SUBSET RecordIds,
   current : 0..Cardinality(Texts), core : SUBSET RecordIds]

IdleAgent == [pc |-> "idle", text |-> CHOOSE t \in Texts : TRUE, found |-> 0,
              list |-> {}, current |-> 0, core |-> {}]

ProjectTypeOK ==
  /\ records \subseteq [id : RecordIds, text : Texts, tier : Tiers]
  /\ evidence \subseteq RecordIds \X Agents
  /\ agent \in [Agents -> AgentState]
  /\ forgetting \in [Agents -> 0..Cardinality(Texts)]
  /\ prompts \in 0..MaxPrompts

ProjectInit ==
  /\ records = {}
  /\ evidence = {}
  /\ agent = [a \in Agents |-> IdleAgent]
  /\ forgetting = [a \in Agents |-> 0]
  /\ prompts = 0

WithTier(tiers) == {r.id : r \in {r \in records : r.tier \in tiers}}
SetTier(id, tier) ==
  records' = {IF r.id = id THEN [r EXCEPT !.tier = tier] ELSE r : r \in records}

-----------------------------------------------------------------------------
(* addCandidate: the lookup, then the transaction.                         *)

Lookup(text, id) ==
  IF \E r \in records : r.text = text
  THEN \E r \in records : r.text = text /\ id = r.id
  ELSE id \in WithTier({"candidate"}) \cup {0}

\* Mutant: a text that is there already is ignored, and its evidence kept.
InsertOrIgnore(a, s, id) ==
  LET new == Cardinality(records) + 1
      there == \E r \in records : r.text = s.text
  IN
  /\ id = (IF s.found # 0 THEN s.found ELSE new)
  /\ records' = IF s.found # 0 \/ there THEN records
                ELSE records \cup {[id |-> new, text |-> s.text, tier |-> "candidate"]}
  /\ evidence' = evidence \cup {<<id, a>>}

(* The transaction of agent a in state s, with the record's id; a text      *)
(* another process inserted meanwhile is rejected by UNIQUE (normalized).   *)
Insert(a, s, id) ==
  /\ s.found = 0 => \A r \in records : r.text # s.text
  /\ id = (IF s.found # 0 THEN s.found ELSE Cardinality(records) + 1)
  /\ records' = IF s.found # 0 THEN records
                ELSE records \cup {[id |-> id, text |-> s.text, tier |-> "candidate"]}
  /\ evidence' = evidence \cup {<<id, a>>}

Rejected(s) == s.found = 0 /\ \E r \in records : r.text = s.text

(* _recordProjectMemoryCandidates, one reflection.                         *)
RecordCandidate(a) ==
  /\ agent[a].pc = "idle"
  /\ \E t \in Texts, id \in 0..Cardinality(Texts) :
       /\ Lookup(t, id)
       /\ agent' = [agent EXCEPT ![a] =
                      [IdleAgent EXCEPT !.pc = "commit", !.text = t, !.found = id]]
  /\ UNCHANGED <<records, evidence, forgetting, prompts>>

CommitCandidate(a) ==
  /\ agent[a].pc = "commit"
  /\ \/ \E id \in RecordIds : Insert(a, agent[a], id)
     \/ Rejected(agent[a]) /\ UNCHANGED <<records, evidence>>
  /\ agent' = [agent EXCEPT ![a] = IdleAgent]
  /\ UNCHANGED <<forgetting, prompts>>

-----------------------------------------------------------------------------
(* _promoteProjectMemory.                                                  *)

ReadyCandidates ==
  {id \in WithTier({"candidate"}) : Cardinality({a \in Agents : <<id, a>> \in evidence}) >= 2}

(* The loop over what readyCandidates returned goes on with its oldest.    *)
NextCandidate(s) ==
  IF s.list = {} THEN IdleAgent
  ELSE LET oldest == CHOOSE id \in s.list : \A k \in s.list : id <= k IN
       [IdleAgent EXCEPT !.pc = "choose", !.list = s.list \ {oldest}, !.current = oldest]

Promote(a) ==
  /\ agent[a].pc = "idle" /\ ReadyCandidates # {} /\ prompts < MaxPrompts
  /\ prompts' = prompts + 1
  /\ agent' = [agent EXCEPT ![a] = NextCandidate([IdleAgent EXCEPT !.list = ReadyCandidates])]
  /\ UNCHANGED <<records, evidence, forgetting>>

(* The user answers.                                                       *)
Choose(a) ==
  /\ agent[a].pc = "choose"
  /\ \/ /\ SetTier(agent[a].current, "archive")
        /\ agent' = [agent EXCEPT ![a] = NextCandidate(@)]
     \/ /\ agent' = [agent EXCEPT ![a].pc = "fits", ![a].core = WithTier({"core"})]
        /\ UNCHANGED records
     \/ /\ agent' = [agent EXCEPT ![a].pc = "edit"]
        /\ UNCHANGED records
     \/ /\ agent' = [agent EXCEPT ![a] = NextCandidate(@)]
        /\ UNCHANGED records
  /\ UNCHANGED <<evidence, forgetting, prompts>>

(* core() was read; the record is approved, or the user has to demote one. *)
Fits(a) ==
  /\ agent[a].pc = "fits"
  /\ IF Cardinality(agent[a].core) + 1 <= CoreMax
     THEN /\ SetTier(agent[a].current, "core")
          /\ agent' = [agent EXCEPT ![a] = NextCandidate(@)]
     ELSE /\ agent' = [agent EXCEPT ![a].pc = "demote", ![a].core = WithTier({"core"})]
          /\ UNCHANGED records
  /\ UNCHANGED <<evidence, forgetting, prompts>>

(* demote and approve follow the answer without an await.                  *)
Demote(a) ==
  /\ agent[a].pc = "demote"
  /\ agent' = [agent EXCEPT ![a] = NextCandidate(@)]
  /\ \/ UNCHANGED records
     \/ \E id \in agent[a].core :
          records' = {IF r.id = agent[a].current THEN [r EXCEPT !.tier = "core"]
                      ELSE IF r.id = id THEN [r EXCEPT !.tier = "archive"] ELSE r
                      : r \in records}
  /\ UNCHANGED <<evidence, forgetting, prompts>>

(* The edited text is a candidate like any other.                          *)
Edit(a) ==
  /\ agent[a].pc = "edit"
  /\ \E t \in Texts, id \in 0..Cardinality(Texts) :
       \/ /\ Lookup(t, id)
          /\ agent' = [agent EXCEPT ![a].pc = "editCommit", ![a].text = t, ![a].found = id]
       \/ agent' = [agent EXCEPT ![a] = NextCandidate(@)]
  /\ UNCHANGED <<records, evidence, forgetting, prompts>>

(* Its evidence is the first of the candidate; a rejection ends the loop.  *)
CommitEdit(a) ==
  /\ agent[a].pc = "editCommit"
  /\ \/ /\ \E id \in RecordIds, b \in Agents :
             /\ <<agent[a].current, b>> \in evidence
             /\ Insert(b, agent[a], id)
             /\ agent' = [agent EXCEPT ![a].pc = "approve", ![a].found = id]
     \/ /\ Rejected(agent[a])
        /\ agent' = [agent EXCEPT ![a] = IdleAgent]
        /\ UNCHANGED <<records, evidence>>
  /\ UNCHANGED <<forgetting, prompts>>

ApproveEdit(a) ==
  /\ agent[a].pc = "approve"
  /\ SetTier(agent[a].found, "archive")
  /\ agent' = [agent EXCEPT ![a] = NextCandidate(@)]
  /\ UNCHANGED <<evidence, forgetting, prompts>>

-----------------------------------------------------------------------------
(* _forgetProjectMemory: search, confirm, forget.                          *)

AskForget(a) ==
  /\ forgetting[a] = 0 /\ prompts < MaxPrompts
  /\ prompts' = prompts + 1
  /\ \E id \in WithTier({"archive", "core"}) : forgetting' = [forgetting EXCEPT ![a] = id]
  /\ UNCHANGED <<records, evidence, agent>>

ForgetRecord(a) ==
  /\ forgetting[a] # 0
  /\ SetTier(forgetting[a], "forgotten") \/ UNCHANGED records
  /\ forgetting' = [forgetting EXCEPT ![a] = 0]
  /\ UNCHANGED <<evidence, agent, prompts>>

-----------------------------------------------------------------------------
ProjectNext ==
  \E a \in Agents :
    \/ RecordCandidate(a) \/ CommitCandidate(a)
    \/ Promote(a) \/ Choose(a) \/ Fits(a) \/ Demote(a)
    \/ Edit(a) \/ CommitEdit(a) \/ ApproveEdit(a)
    \/ AskForget(a) \/ ForgetRecord(a)

ProjectSpec == ProjectInit /\ [][ProjectNext]_projectVars

-----------------------------------------------------------------------------
(* Properties.                                                             *)

(* Two agents that meet the same reflection at once do not lose it: the     *)
(* table has one record of a text, and whatever counts as evidence counts   *)
(* for a record that exists.                                                *)
EvidenceHasRecord ==
  /\ \A e \in evidence : \E r \in records : r.id = e[1]
  /\ \A r, k \in records : r.text = k.text \/ r.id = k.id => r = k

(* Only what two sessions gave evidence for reaches core memory, whoever    *)
(* else approves, edits, demotes or forgets while a dialog is open.         *)
CoreIsCorroborated ==
  \A id \in WithTier({"core"}) : Cardinality({a \in Agents : <<id, a>> \in evidence}) >= 2

(* Core memory holds what was seen twice, and its evidence is about it.    *)
CoreIsSound == EvidenceHasRecord /\ CoreIsCorroborated

=============================================================================
