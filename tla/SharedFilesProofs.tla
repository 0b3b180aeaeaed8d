------------------------- MODULE SharedFilesProofs --------------------------
(***************************************************************************)
(* Proofs about what several agents, or several tool calls, change at once: *)
(* core memory of a project holds only what two sessions gave evidence for, *)
(* and mutations of a file take effect one by one, for any number of        *)
(* agents, records, calls and aliases; and about the file of a session of   *)
(* the coding agent: it is the session, but for what a write that was cut   *)
(* short costs, and no branch of it loses a message, for any number of      *)
(* entries and events.                                                     *)
(***************************************************************************)
EXTENDS ProjectMemory, FileMutationQueue, SessionFile, FiniteSetTheorems, WellFoundedInduction,
        SequenceTheorems, TLAPS

-----------------------------------------------------------------------------
(* ProjectMemory: what two sessions gave evidence for.                     *)

HasRecord(id) == \E r \in records : r.id = id

Corroborated(id) == Cardinality({a \in Agents : <<id, a>> \in evidence}) >= 2

(* Records are numbered from 1, and one of a kind.                         *)
RecordsNumbered ==
  /\ IsFiniteSet(records)
  /\ \A r \in records : r.id \in 1..Cardinality(records)
  /\ \A r, k \in records : r.text = k.text \/ r.id = k.id => r = k

EvidenceKnown ==
  IsFiniteSet(evidence) /\ \A e \in evidence : HasRecord(e[1])

(* What an agent in state s was told, by readyCandidates or by the lookup   *)
(* of addCandidate, still is so when it comes to use it.                   *)
StillTrue(s) ==
  /\ \A id \in s.list : Corroborated(id)
  /\ s.pc \notin {"idle", "commit"} => Corroborated(s.current)
  /\ s.pc \in {"commit", "editCommit"} /\ s.found # 0 => HasRecord(s.found)

ProjectInv ==
  /\ ProjectTypeOK /\ RecordsNumbered /\ EvidenceKnown
  /\ \A a \in Agents : StillTrue(agent[a])
  /\ CoreIsCorroborated

(* The oldest of what is listed is one of what is listed.                  *)
LEMMA OldestListed ==
  ASSUME NEW list \in SUBSET Int, IsFiniteSet(list), list # {}
  PROVE  (CHOOSE id \in list : \A k \in list : id <= k) \in list
<1> DEFINE upTo(id) == {k \in list : k <= id}
           all == {upTo(id) : id \in list}
<1>1. all \subseteq FiniteSubsetsOf(list) /\ all # {}
  <2>1. \A id \in list : upTo(id) \in SUBSET list
    OBVIOUS
  <2>2. \A id \in list : IsFiniteSet(upTo(id))
    BY <2>1, FS_Subset
  <2> QED
    BY <2>1, <2>2, Zenon DEF FiniteSubsetsOf
<1>2. PICK least \in all : \A up \in all : <<up, least>> \notin StrictSubsetOrdering(list)
  BY <1>1, FS_StrictSubsetOrderingWellFounded, WFMin, Zenon
<1>3. PICK id \in list : least = upTo(id)
  BY <1>2
<1>4. ASSUME NEW k \in list, k < id
      PROVE  upTo(k) \subseteq least /\ upTo(k) # least /\ upTo(k) \in all
  <2>1. id \in least /\ id \notin upTo(k)
    BY <1>3, <1>4
  <2>2. upTo(k) \subseteq upTo(id)
    <3>1. \A j \in list : j \in Int /\ k \in Int /\ id \in Int
      OBVIOUS
    <3>2. \A j \in list : j <= k => j <= id
      BY <1>4, <3>1
    <3> QED
      BY <3>2, Zenon
  <2> QED
    BY <1>3, <2>1, <2>2, Zenon
<1>5. \A k \in list : ~ (k < id)
  BY <1>2, <1>3, <1>4, Zenon DEF StrictSubsetOrdering
<1>6. \A k \in list : id <= k
  BY <1>5
<1> QED
  BY <1>6

(* Whoever adds evidence takes none away.                                  *)
LEMMA EvidenceGrows ==
  ASSUME NEW id, Corroborated(id), evidence \subseteq evidence', IsFiniteSet(evidence')
  PROVE  Corroborated(id)'
<1> DEFINE of == {e \in evidence' : e = <<id, e[2]>> /\ e[2] \in Agents}
           before == {a \in Agents : <<id, a>> \in evidence}
           after == {a \in Agents : <<id, a>> \in evidence'}
<1>1. IsFiniteSet(of)
  BY FS_Subset
<1>2. [e \in of |-> e[2]] \in Surjection(of, after)
  BY DEF Surjection
<1>3. IsFiniteSet(after)
  BY <1>1, <1>2, FS_Surjection
<1>4. before \subseteq after
  OBVIOUS
<1>5. Cardinality(before) <= Cardinality(after) /\ Cardinality(before) \in Nat
  BY <1>3, <1>4, FS_Subset, FS_CardinalityType
<1>6. Cardinality(after) \in Nat
  BY <1>3, FS_CardinalityType
<1> QED
  BY <1>5, <1>6 DEF Corroborated

(* What the tables say of evidence and records before and after.           *)
LEMMA RecordsKept ==
  ASSUME \A r \in records : \E k \in records' : k.id = r.id,
         NEW id, HasRecord(id)
  PROVE  HasRecord(id)'
  BY DEF HasRecord

Record == [id : RecordIds, text : Texts, tier : Tiers]

(* Records that only change their tiers keep their numbers.                *)
LEMMA Retiered ==
  ASSUME ProjectTypeOK, RecordsNumbered, NEW tier \in [records -> Tiers],
         records' = {[r EXCEPT !.tier = tier[r]] : r \in records}
  PROVE  /\ RecordsNumbered'
         /\ records' \subseteq Record
         /\ \A r \in records : \E k \in records' : k.id = r.id
         /\ \A k \in records' : \E r \in records : k.id = r.id /\ k.tier = tier[r]
<1> DEFINE f == [r \in records |-> [r EXCEPT !.tier = tier[r]]]
<1>1. records \subseteq Record
  BY DEF ProjectTypeOK, Record
<1>2. \A r \in records : f[r].id = r.id /\ f[r].text = r.text /\ f[r].tier = tier[r] /\ f[r] \in Record
  BY <1>1 DEF Record
<1>3. records' = {f[r] : r \in records}
  OBVIOUS
<1> HIDE DEF f
<1>4. \A r, k \in records : f[r] = f[k] => r = k
  BY <1>2 DEF RecordsNumbered
<1>5. f \in Bijection(records, records')
  <2>1. f \in [records -> records']
    BY <1>3 DEF f
  <2> QED
    BY <1>3, <1>4, <2>1 DEF Bijection, Injection, Surjection, IsInjective
<1>6. IsFiniteSet(records') /\ Cardinality(records') = Cardinality(records)
  BY <1>5, FS_Bijection DEF RecordsNumbered, ExistsBijection
<1>7. records' \subseteq Record
  BY <1>2, <1>3
<1>8. \A r \in records' : r.id \in 1..Cardinality(records')
  BY <1>2, <1>3, <1>6 DEF RecordsNumbered
<1>9. \A r, k \in records' : r.text = k.text \/ r.id = k.id => r = k
  BY <1>2, <1>3 DEF RecordsNumbered
<1>10. RecordsNumbered'
  BY <1>6, <1>8, <1>9 DEF RecordsNumbered
<1>11. \A r \in records : f[r] \in records' /\ f[r].id = r.id
  BY <1>2, <1>3
<1>12. \A k \in records' : \E r \in records : k.id = r.id /\ k.tier = tier[r]
  BY <1>2, <1>3
<1> QED
  BY <1>7, <1>10, <1>11, <1>12

(* Records and evidence that only grow keep what an agent was told true.    *)
LEMMA StillTrueLater ==
  ASSUME NEW s, StillTrue(s), evidence \subseteq evidence', IsFiniteSet(evidence'),
         \A r \in records : \E k \in records' : k.id = r.id
  PROVE  StillTrue(s)'
  BY EvidenceGrows, RecordsKept DEF StillTrue

(* addCandidate numbers a record that no record has the text of.           *)
LEMMA Inserted ==
  ASSUME ProjectTypeOK, RecordsNumbered, EvidenceKnown,
         NEW a \in Agents, NEW s \in AgentState, s.found # 0 => HasRecord(s.found),
         NEW id \in RecordIds, Insert(a, s, id)
  PROVE  /\ RecordsNumbered' /\ EvidenceKnown' /\ HasRecord(id)'
         /\ records' \subseteq Record /\ records \subseteq records'
         /\ evidence' \subseteq RecordIds \X Agents /\ evidence \subseteq evidence'
         /\ \A k \in records' \ records : k.tier = "candidate"
<1>1. evidence' = evidence \cup {<<id, a>>} /\ IsFiniteSet(evidence')
  BY FS_AddElement DEF Insert, EvidenceKnown
<1>2. evidence' \subseteq RecordIds \X Agents /\ evidence \subseteq evidence'
  BY <1>1 DEF ProjectTypeOK
<1>3. CASE s.found # 0
  <2>1. records' = records /\ HasRecord(id)
    BY <1>3 DEF Insert
  <2>2. \A e \in evidence' : HasRecord(e[1])
    BY <1>1, <2>1 DEF EvidenceKnown
  <2> QED
    BY <1>1, <1>2, <2>1, <2>2 DEF RecordsNumbered, EvidenceKnown, HasRecord, ProjectTypeOK, Record
<1>4. CASE s.found = 0
  <2> DEFINE new == [id |-> id, text |-> s.text, tier |-> "candidate"]
  <2>1. /\ records' = records \cup {new}
        /\ id = Cardinality(records) + 1
        /\ \A r \in records : r.text # s.text
    BY <1>4 DEF Insert
  <2>2. new \in Record /\ records \subseteq Record
    BY DEF AgentState, Record, Tiers, ProjectTypeOK
  <2>3. Cardinality(records) \in Nat
    BY FS_CardinalityType DEF RecordsNumbered
  <2>4. new \notin records
    BY <2>1, <2>2, Zenon
  <2>5. IsFiniteSet(records') /\ Cardinality(records') = Cardinality(records) + 1
    BY <2>1, <2>4, FS_AddElement DEF RecordsNumbered
  <2>6. \A r \in records' : r.id \in 1..Cardinality(records')
    BY <2>1, <2>2, <2>3, <2>5 DEF RecordsNumbered
  <2>7. \A r \in records : r.id # id
    BY <2>1, <2>3 DEF RecordsNumbered
  <2>8. \A r, k \in records' : r.text = k.text \/ r.id = k.id => r = k
    BY <2>1, <2>7 DEF RecordsNumbered
  <2>9. RecordsNumbered'
    BY <2>5, <2>6, <2>8 DEF RecordsNumbered
  <2>10. HasRecord(id)'
    <3>1. new \in records' /\ new.id = id
      BY <2>1
    <3> HIDE DEF new
    <3> QED
      BY <3>1 DEF HasRecord
  <2>11. EvidenceKnown'
    <3>1. \A e \in evidence : \E r \in records' : r.id = e[1]
      BY <2>1 DEF EvidenceKnown, HasRecord
    <3> QED
      BY <1>1, <2>10, <3>1 DEF EvidenceKnown, HasRecord
  <2>12. /\ records' \subseteq Record /\ records \subseteq records'
         /\ \A k \in records' \ records : k.tier = "candidate"
    BY <2>1, <2>2
  <2> QED
    BY <1>2, <2>9, <2>10, <2>11, <2>12
<1> QED
  BY <1>3, <1>4

(* The loop goes on with one of what it has listed.                        *)
LEMMA NextStillTrue ==
  ASSUME NEW s \in AgentState, StillTrue(s)
  PROVE  NextCandidate(s) \in AgentState /\ StillTrue(NextCandidate(s))
<1> DEFINE oldest == CHOOSE id \in s.list : \A k \in s.list : id <= k
           next == [IdleAgent EXCEPT !.pc = "choose", !.list = s.list \ {oldest},
                                     !.current = oldest]
<1>1. IdleAgent \in AgentState /\ StillTrue(IdleAgent)
  BY ProjectAssumption, FS_CardinalityType DEF IdleAgent, AgentState, StillTrue
<1>2. CASE s.list = {}
  BY <1>1, <1>2 DEF NextCandidate
<1>3. CASE s.list # {}
  <2>1. s.list \subseteq RecordIds /\ IsFiniteSet(RecordIds) /\ RecordIds \subseteq Int
    BY ProjectAssumption, FS_CardinalityType, FS_Interval DEF AgentState, RecordIds
  <2>2. oldest \in s.list
    BY <1>3, <2>1, OldestListed, FS_Subset
  <2> HIDE DEF oldest
  <2>3. NextCandidate(s) = next
    BY <1>3 DEF NextCandidate, oldest
  <2>4. next \in AgentState
    <3>1. oldest \in 0..Cardinality(Texts) /\ s.list \ {oldest} \in SUBSET RecordIds
      BY <2>1, <2>2, ProjectAssumption, FS_CardinalityType DEF RecordIds
    <3> QED
      BY <1>1, <3>1 DEF AgentState
  <2>5. StillTrue(next)
    BY <2>2 DEF IdleAgent, StillTrue
  <2> QED
    BY <2>3, <2>4, <2>5
<1> QED
  BY <1>2, <1>3

-----------------------------------------------------------------------------
(* The steps.  Each is described by what it does to the tables and to the   *)
(* agents, and the invariant follows from that.                            *)

(* Only tiers change, and only what is corroborated enters core memory.    *)
TiersChange ==
  \/ UNCHANGED records
  \/ \E tier \in [records -> Tiers] :
       /\ records' = {[r EXCEPT !.tier = tier[r]] : r \in records}
       /\ \A r \in records : tier[r] = "core" => r.tier = "core" \/ Corroborated(r.id)

(* Records that change their tiers keep the invariant if those in core are  *)
(* corroborated.                                                            *)
LEMMA TiersKept ==
  ASSUME ProjectInv, TiersChange, UNCHANGED evidence
  PROVE  /\ RecordsNumbered' /\ EvidenceKnown' /\ CoreIsCorroborated'
         /\ records' \subseteq Record
         /\ \A s : StillTrue(s) => StillTrue(s)'
<1>1. /\ RecordsNumbered' /\ records' \subseteq Record
      /\ \A r \in records : \E k \in records' : k.id = r.id
      /\ \A k \in records' : \E r \in records :
           k.id = r.id /\ (k.tier = "core" => r.tier = "core" \/ Corroborated(r.id))
  <2>1. CASE UNCHANGED records
    BY <2>1 DEF ProjectInv, RecordsNumbered, ProjectTypeOK, Record
  <2>2. CASE ~ UNCHANGED records
    <3>1. PICK tier \in [records -> Tiers] :
            /\ records' = {[r EXCEPT !.tier = tier[r]] : r \in records}
            /\ \A r \in records : tier[r] = "core" => r.tier = "core" \/ Corroborated(r.id)
      BY <2>2 DEF TiersChange
    <3>2. /\ RecordsNumbered' /\ records' \subseteq Record
          /\ \A r \in records : \E k \in records' : k.id = r.id
          /\ \A k \in records' : \E r \in records : k.id = r.id /\ k.tier = tier[r]
      BY <3>1, Retiered DEF ProjectInv
    <3>3. \A k \in records' : \E r \in records :
            k.id = r.id /\ (k.tier = "core" => r.tier = "core" \/ Corroborated(r.id))
      <4>1. TAKE k \in records'
      <4>2. PICK r \in records : k.id = r.id /\ k.tier = tier[r]
        BY <3>2
      <4>3. k.tier = "core" => r.tier = "core" \/ Corroborated(r.id)
        BY <3>1, <4>2
      <4> QED
        BY <4>2, <4>3
    <3> QED
      BY <3>2, <3>3, Zenon
  <2> QED
    BY <2>1, <2>2
<1>2. EvidenceKnown'
  BY <1>1, RecordsKept DEF ProjectInv, EvidenceKnown
<1>3. \A s : StillTrue(s) => StillTrue(s)'
  BY <1>1, <1>2, StillTrueLater DEF EvidenceKnown
<1>4. \A r \in records : r.tier = "core" => Corroborated(r.id)
  BY DEF ProjectInv, CoreIsCorroborated, Corroborated, WithTier
<1>5. \A k \in records' : k.tier = "core" => Corroborated(k.id)
  BY <1>1, <1>4
<1>6. CoreIsCorroborated'
  BY <1>5 DEF CoreIsCorroborated, Corroborated, WithTier
<1> QED
  BY <1>1, <1>2, <1>3, <1>6

(* An insertion leaves the tiers of all other records alone.               *)
LEMMA InsertedKeeps ==
  ASSUME ProjectInv, NEW a \in Agents, NEW s \in AgentState, s.found # 0 => HasRecord(s.found),
         NEW id \in RecordIds, Insert(a, s, id)
  PROVE  /\ RecordsNumbered' /\ EvidenceKnown' /\ CoreIsCorroborated'
         /\ records' \subseteq Record /\ evidence' \subseteq RecordIds \X Agents
         /\ \A t : StillTrue(t) => StillTrue(t)'
<1>1. /\ RecordsNumbered' /\ EvidenceKnown'
      /\ records' \subseteq Record /\ records \subseteq records'
      /\ evidence' \subseteq RecordIds \X Agents /\ evidence \subseteq evidence'
      /\ \A k \in records' \ records : k.tier = "candidate"
  BY Inserted DEF ProjectInv
<1>2. \A t : StillTrue(t) => StillTrue(t)'
  BY <1>1, StillTrueLater DEF EvidenceKnown
<1>3. \A k \in records' : k.tier = "core" => Corroborated(k.id)
  BY <1>1 DEF ProjectInv, CoreIsCorroborated, Corroborated, WithTier
<1>4. \A k \in records' : k.tier = "core" => Corroborated(k.id)'
  BY <1>1, <1>3, EvidenceGrows DEF EvidenceKnown
<1>5. CoreIsCorroborated'
  BY <1>4 DEF CoreIsCorroborated, Corroborated, WithTier
<1> QED
  BY <1>1, <1>2, <1>5

(* setTier changes the tier of the record it is given, and makes room in    *)
(* core.                                                                    *)
LEMMA SetTierChanges ==
  ASSUME ProjectTypeOK, NEW id, NEW tier \in Tiers, SetTier(id, tier),
         tier = "core" => Corroborated(id)
  PROVE  TiersChange
<1> DEFINE to == [r \in records |-> IF r.id = id THEN tier ELSE r.tier]
<1>1. to \in [records -> Tiers]
  BY DEF ProjectTypeOK
<1>2. \A r \in records : [r EXCEPT !.tier = to[r]] =
                           IF r.id = id THEN [r EXCEPT !.tier = tier] ELSE r
  BY DEF ProjectTypeOK
<1>3. records' = {[r EXCEPT !.tier = to[r]] : r \in records}
  <2> DEFINE old(r) == IF r.id = id THEN [r EXCEPT !.tier = tier] ELSE r
             new(r) == [r EXCEPT !.tier = to[r]]
  <2>1. records' = {old(r) : r \in records}
    BY DEF SetTier
  <2>2. \A r \in records : new(r) = old(r)
    BY <1>2
  <2> HIDE DEF to, old, new
  <2>3. records' = {new(r) : r \in records}
    BY <2>1, <2>2
  <2> QED
    BY <2>3 DEF new
<1>4. \A r \in records : to[r] = "core" => r.tier = "core" \/ Corroborated(r.id)
  OBVIOUS
<1> QED
  BY <1>1, <1>3, <1>4 DEF TiersChange

(* What a step of agent a has to do to keep the invariant.                 *)
LEMMA AgentMoves ==
  ASSUME ProjectInv, NEW a \in Agents, NEW s \in AgentState,
         RecordsNumbered', EvidenceKnown', CoreIsCorroborated', records' \subseteq Record,
         evidence' \subseteq RecordIds \X Agents,
         \A t : StillTrue(t) => StillTrue(t)',
         agent' = [agent EXCEPT ![a] = s], StillTrue(s) \/ StillTrue(s)',
         forgetting' \in [Agents -> 0..Cardinality(Texts)], prompts' \in 0..MaxPrompts
  PROVE  ProjectInv'
<1>1. ProjectTypeOK'
  BY DEF ProjectInv, ProjectTypeOK, Record
<1>2. \A b \in Agents : \E t : agent'[b] = t /\ StillTrue(t)'
  BY DEF ProjectInv, ProjectTypeOK
<1>3. (\A b \in Agents : StillTrue(agent[b]))'
  BY <1>2 DEF StillTrue, Corroborated, HasRecord
<1> QED
  BY <1>1, <1>3 DEF ProjectInv

(* The tables are empty and the agents are idle.                            *)
LEMMA ProjectStarts == ProjectInit => ProjectInv
<1> SUFFICES ASSUME ProjectInit PROVE ProjectInv
  OBVIOUS
<1>1. IdleAgent \in AgentState /\ StillTrue(IdleAgent)
  BY ProjectAssumption, FS_CardinalityType DEF IdleAgent, AgentState, StillTrue
<1>2. ProjectTypeOK
  BY <1>1, ProjectAssumption, FS_CardinalityType DEF ProjectInit, ProjectTypeOK
<1>3. RecordsNumbered /\ EvidenceKnown /\ CoreIsCorroborated
  BY FS_EmptySet DEF ProjectInit, RecordsNumbered, EvidenceKnown, CoreIsCorroborated, WithTier
<1> QED
  BY <1>1, <1>2, <1>3 DEF ProjectInv, ProjectInit

(* Every step of an agent keeps the invariant.                              *)
LEMMA ProjectStep == ProjectInv /\ [ProjectNext]_projectVars => ProjectInv'
<1> SUFFICES ASSUME ProjectInv, [ProjectNext]_projectVars PROVE ProjectInv'
  OBVIOUS
<1>1. ASSUME UNCHANGED projectVars PROVE ProjectInv'
  BY <1>1 DEF projectVars, ProjectInv, ProjectTypeOK, RecordsNumbered, EvidenceKnown, HasRecord,
     StillTrue, Corroborated, CoreIsCorroborated, WithTier
<1> USE DEF ProjectInv
<1>a. IdleAgent \in AgentState /\ StillTrue(IdleAgent)
  BY ProjectAssumption, FS_CardinalityType DEF IdleAgent, AgentState, StillTrue
<1>b. \A b \in Agents : agent[b] \in AgentState /\ StillTrue(agent[b])
  BY DEF ProjectTypeOK
<1>c. /\ forgetting \in [Agents -> 0..Cardinality(Texts)] /\ prompts \in 0..MaxPrompts
      /\ evidence \subseteq RecordIds \X Agents
  BY DEF ProjectTypeOK
<1>d. \A s \in AgentState : StillTrue(s) =>
        NextCandidate(s) \in AgentState /\ StillTrue(NextCandidate(s))
  BY NextStillTrue
<1>e. UNCHANGED records => TiersChange
  BY DEF TiersChange
<1>f. \A t \in Texts, id \in 0..Cardinality(Texts) : Lookup(t, id) /\ id # 0 => HasRecord(id)
  BY DEF Lookup, HasRecord, WithTier
<1>g. \A tiers : WithTier(tiers) \in SUBSET RecordIds
  BY DEF WithTier, ProjectTypeOK
<1>h. RecordIds \subseteq 0..Cardinality(Texts)
  BY ProjectAssumption, FS_CardinalityType DEF RecordIds
<1>2. ASSUME NEW a \in Agents, RecordCandidate(a) PROVE ProjectInv'
  <2>1. PICK t \in Texts, id \in 0..Cardinality(Texts) :
          /\ Lookup(t, id)
          /\ agent' = [agent EXCEPT ![a] =
                         [IdleAgent EXCEPT !.pc = "commit", !.text = t, !.found = id]]
    BY <1>2 DEF RecordCandidate
  <2> DEFINE s == [IdleAgent EXCEPT !.pc = "commit", !.text = t, !.found = id]
  <2>2. s \in AgentState /\ StillTrue(s)
    BY <1>a, <1>f, <2>1 DEF IdleAgent, AgentState, StillTrue
  <2>3. TiersChange /\ UNCHANGED <<evidence, forgetting, prompts>>
    BY <1>2, <1>e DEF RecordCandidate
  <2> HIDE DEF s
  <2> QED
    BY <1>c, <2>1, <2>2, <2>3, TiersKept, AgentMoves DEF s
<1>3. ASSUME NEW a \in Agents, CommitCandidate(a) PROVE ProjectInv'
  <2>1. CASE \E id \in RecordIds : Insert(a, agent[a], id)
    <3>1. PICK id \in RecordIds : Insert(a, agent[a], id)
      BY <2>1
    <3>2. agent[a].found # 0 => HasRecord(agent[a].found)
      BY <1>3, <1>b DEF CommitCandidate, StillTrue
    <3> QED
      BY <1>3, <1>a, <1>b, <1>c, <3>1, <3>2, InsertedKeeps, AgentMoves DEF CommitCandidate
  <2>2. CASE UNCHANGED <<records, evidence>>
    BY <1>3, <1>a, <1>c, <1>e, <2>2, TiersKept, AgentMoves DEF CommitCandidate
  <2> QED
    BY <1>3, <2>1, <2>2 DEF CommitCandidate
<1>4. ASSUME NEW a \in Agents, Promote(a) PROVE ProjectInv'
  <2> DEFINE s == [IdleAgent EXCEPT !.list = ReadyCandidates]
  <2>1. s \in AgentState /\ StillTrue(s)
    <3>1. ReadyCandidates \in SUBSET RecordIds /\ \A id \in ReadyCandidates : Corroborated(id)
      BY <1>g DEF ReadyCandidates, Corroborated
    <3> QED
      BY <1>a, <3>1 DEF AgentState, StillTrue, IdleAgent
  <2>2. NextCandidate(s) \in AgentState /\ StillTrue(NextCandidate(s))
    BY <1>d, <2>1
  <2>3. TiersChange /\ UNCHANGED <<evidence, forgetting>> /\ prompts' \in 0..MaxPrompts
    BY <1>4, <1>c, <1>e, ProjectAssumption DEF Promote
  <2> QED
    BY <1>4, <1>c, <2>2, <2>3, TiersKept, AgentMoves DEF Promote
<1>5. ASSUME NEW a \in Agents, Choose(a) PROVE ProjectInv'
  <2>1. /\ UNCHANGED <<evidence, forgetting, prompts>>
        /\ Corroborated(agent[a].current) /\ agent[a].pc = "choose"
    BY <1>5, <1>b DEF Choose, StillTrue
  <2>2. TiersChange
    BY <1>5, <1>e, SetTierChanges DEF Choose, Tiers
  <2>3. \E s \in AgentState : StillTrue(s) /\ agent' = [agent EXCEPT ![a] = s]
    <3>1. CASE agent' = [agent EXCEPT ![a] = NextCandidate(@)]
      BY <3>1, <1>b, <1>d
    <3>2. CASE agent' = [agent EXCEPT ![a].pc = "fits", ![a].core = WithTier({"core"})]
      <4> DEFINE s == [agent[a] EXCEPT !.pc = "fits", !.core = WithTier({"core"})]
      <4>1. s \in AgentState /\ StillTrue(s)
        BY <1>b, <1>g, <2>1 DEF AgentState, StillTrue
      <4> QED
        BY <3>2, <4>1 DEF ProjectTypeOK
    <3>3. CASE agent' = [agent EXCEPT ![a].pc = "edit"]
      <4> DEFINE s == [agent[a] EXCEPT !.pc = "edit"]
      <4>1. s \in AgentState /\ StillTrue(s)
        BY <1>b, <2>1 DEF AgentState, StillTrue
      <4> QED
        BY <3>3, <4>1 DEF ProjectTypeOK
    <3> QED
      BY <1>5, <3>1, <3>2, <3>3 DEF Choose
  <2> QED
    BY <1>c, <2>1, <2>2, <2>3, TiersKept, AgentMoves
<1>6. ASSUME NEW a \in Agents, Fits(a) PROVE ProjectInv'
  <2>1. /\ UNCHANGED <<evidence, forgetting, prompts>>
        /\ Corroborated(agent[a].current) /\ agent[a].pc = "fits"
    BY <1>6, <1>b DEF Fits, StillTrue
  <2>2. TiersChange
    BY <1>6, <1>e, <2>1, SetTierChanges DEF Fits, Tiers
  <2>3. \E s \in AgentState : StillTrue(s) /\ agent' = [agent EXCEPT ![a] = s]
    <3>1. CASE agent' = [agent EXCEPT ![a] = NextCandidate(@)]
      BY <3>1, <1>b, <1>d
    <3>2. CASE agent' = [agent EXCEPT ![a].pc = "demote", ![a].core = WithTier({"core"})]
      <4> DEFINE s == [agent[a] EXCEPT !.pc = "demote", !.core = WithTier({"core"})]
      <4>1. s \in AgentState /\ StillTrue(s)
        BY <1>b, <1>g, <2>1 DEF AgentState, StillTrue
      <4> QED
        BY <3>2, <4>1 DEF ProjectTypeOK
    <3> QED
      BY <1>6, <3>1, <3>2 DEF Fits
  <2> QED
    BY <1>c, <2>1, <2>2, <2>3, TiersKept, AgentMoves
<1>7. ASSUME NEW a \in Agents, Demote(a) PROVE ProjectInv'
  <2>1. /\ UNCHANGED <<evidence, forgetting, prompts>> /\ Corroborated(agent[a].current)
        /\ agent' = [agent EXCEPT ![a] = NextCandidate(@)]
    BY <1>7, <1>b DEF Demote, StillTrue
  <2>2. TiersChange
    <3>1. ASSUME NEW id,
                 records' = {IF r.id = agent[a].current THEN [r EXCEPT !.tier = "core"]
                             ELSE IF r.id = id THEN [r EXCEPT !.tier = "archive"] ELSE r
                             : r \in records}
          PROVE  TiersChange
      <4> DEFINE to == [r \in records |-> IF r.id = agent[a].current THEN "core"
                                          ELSE IF r.id = id THEN "archive" ELSE r.tier]
                 new(r) == [r EXCEPT !.tier = to[r]]
                 old(r) == IF r.id = agent[a].current THEN [r EXCEPT !.tier = "core"]
                           ELSE IF r.id = id THEN [r EXCEPT !.tier = "archive"] ELSE r
      <4>1. to \in [records -> Tiers]
        BY DEF ProjectTypeOK, Tiers
      <4>2. \A r \in records : new(r) = old(r)
        BY DEF ProjectTypeOK
      <4>3. records' = {old(r) : r \in records}
        BY <3>1
      <4>4. \A r \in records : to[r] = "core" => r.tier = "core" \/ Corroborated(r.id)
        BY <2>1
      <4> HIDE DEF new, old, to
      <4>5. records' = {new(r) : r \in records}
        BY <4>2, <4>3
      <4> QED
        BY <4>1, <4>4, <4>5 DEF TiersChange, new
    <3> QED
      BY <1>7, <1>e, <3>1 DEF Demote
  <2> QED
    BY <1>b, <1>c, <1>d, <2>1, <2>2, TiersKept, AgentMoves
<1>8. ASSUME NEW a \in Agents, Edit(a) PROVE ProjectInv'
  <2>1. /\ UNCHANGED <<evidence, forgetting, prompts>> /\ TiersChange
        /\ Corroborated(agent[a].current)
    BY <1>8, <1>b, <1>e DEF Edit, StillTrue
  <2>2. \E s \in AgentState : StillTrue(s) /\ agent' = [agent EXCEPT ![a] = s]
    <3>1. CASE agent' = [agent EXCEPT ![a] = NextCandidate(@)]
      BY <3>1, <1>b, <1>d
    <3>2. ASSUME NEW t \in Texts, NEW id \in 0..Cardinality(Texts), Lookup(t, id),
                 agent' = [agent EXCEPT ![a].pc = "editCommit", ![a].text = t, ![a].found = id]
          PROVE  \E s \in AgentState : StillTrue(s) /\ agent' = [agent EXCEPT ![a] = s]
      <4> DEFINE s == [agent[a] EXCEPT !.pc = "editCommit", !.text = t, !.found = id]
      <4>1. s \in AgentState /\ StillTrue(s)
        BY <1>b, <1>f, <2>1, <3>2 DEF AgentState, StillTrue
      <4> QED
        BY <3>2, <4>1 DEF ProjectTypeOK
    <3> QED
      BY <1>8, <3>1, <3>2 DEF Edit
  <2> QED
    BY <1>c, <2>1, <2>2, TiersKept, AgentMoves
<1>9. ASSUME NEW a \in Agents, CommitEdit(a) PROVE ProjectInv'
  <2>1. CASE \E id \in RecordIds, b \in Agents :
               /\ Insert(b, agent[a], id)
               /\ agent' = [agent EXCEPT ![a].pc = "approve", ![a].found = id]
    <3>1. PICK id \in RecordIds, b \in Agents :
               /\ Insert(b, agent[a], id)
               /\ agent' = [agent EXCEPT ![a].pc = "approve", ![a].found = id]
      BY <2>1
    <3> DEFINE s == [agent[a] EXCEPT !.pc = "approve", !.found = id]
    <3>2. agent[a].found # 0 => HasRecord(agent[a].found)
      BY <1>9, <1>b DEF CommitEdit, StillTrue
    <3>3. s \in AgentState /\ StillTrue(s)
      BY <1>9, <1>b, <1>h DEF CommitEdit, AgentState, StillTrue
    <3>4. agent' = [agent EXCEPT ![a] = s]
      BY <3>1 DEF ProjectTypeOK
    <3> HIDE DEF s
    <3> QED
      BY <1>9, <1>b, <1>c, <3>1, <3>2, <3>3, <3>4, InsertedKeeps, AgentMoves DEF CommitEdit
  <2>2. CASE agent' = [agent EXCEPT ![a] = IdleAgent] /\ UNCHANGED <<records, evidence>>
    BY <1>9, <1>a, <1>c, <1>e, <2>2, TiersKept, AgentMoves DEF CommitEdit
  <2> QED
    BY <1>9, <2>1, <2>2 DEF CommitEdit
<1>10. ASSUME NEW a \in Agents, ApproveEdit(a) PROVE ProjectInv'
  <2>1. TiersChange
    BY <1>10, SetTierChanges DEF ApproveEdit, Tiers
  <2> QED
    BY <1>10, <1>b, <1>c, <1>d, <2>1, TiersKept, AgentMoves DEF ApproveEdit
<1>11. ASSUME NEW a \in Agents, AskForget(a) \/ ForgetRecord(a) PROVE ProjectInv'
  <2>1. TiersChange
    BY <1>11, <1>e, SetTierChanges DEF AskForget, ForgetRecord, Tiers
  <2>2. forgetting' \in [Agents -> 0..Cardinality(Texts)] /\ prompts' \in 0..MaxPrompts
    BY <1>11, <1>c, ProjectAssumption, FS_CardinalityType
       DEF AskForget, ForgetRecord, WithTier, ProjectTypeOK, RecordIds
  <2>3. agent' = [agent EXCEPT ![a] = agent[a]] /\ UNCHANGED evidence
    BY <1>11 DEF AskForget, ForgetRecord, ProjectTypeOK
  <2> QED
    BY <1>b, <1>c, <2>1, <2>2, <2>3, TiersKept, AgentMoves
<1> QED
  BY <1>1, <1>2, <1>3, <1>4, <1>5, <1>6, <1>7, <1>8, <1>9, <1>10, <1>11 DEF ProjectNext

(* Core memory holds only what two sessions gave evidence for, and all      *)
(* evidence is about a record of its own text, whatever dialogs of however  *)
(* many agents overlap (ProjectMemory, project-memory.ts).                 *)
THEOREM CoreAlwaysSound == ProjectSpec => []CoreIsSound
<1>1. ProjectInv => CoreIsSound
  BY DEF ProjectInv, CoreIsSound, EvidenceHasRecord, EvidenceKnown, RecordsNumbered, HasRecord
<1> QED
  BY <1>1, ProjectStarts, ProjectStep, PTL DEF ProjectSpec

(* The tables and what agents remember of them keep their types.           *)
THEOREM ProjectTypeCorrect == ProjectSpec => []ProjectTypeOK
<1>1. ProjectInv => ProjectTypeOK
  BY DEF ProjectInv
<1> QED
  BY <1>1, ProjectStarts, ProjectStep, PTL DEF ProjectSpec

-----------------------------------------------------------------------------
(* FileMutationQueue.                                                      *)

CallState ==
  [tool : Tools, path : Paths,
   at : {"idle", "registering", "keyed", "queued", "running", "ready", "writing", "ended"},
   key : Paths \cup {"none"}, behind : ToolCalls \cup {NoCall}, read : Seq(ToolCalls),
   did : {"nothing", "truncated", "written"}]

FilesTyped ==
  /\ mutations \in [ToolCalls -> CallState]
  /\ registrations \in Seq(ToolCalls)
  /\ fileMutationQueues \in [Paths -> ToolCalls \cup {NoCall}]
  /\ onDisk \in [exists : BOOLEAN, created : BOOLEAN, shows : Seq(ToolCalls)]

At(c) == mutations[c].at
Key(c) == mutations[c].key

Pending(c) == At(c) \in {"registering", "keyed"}
InTurn(c) == At(c) \in {"running", "ready", "writing"}
InLine(c) == At(c) = "queued" \/ InTurn(c)

(* Calls register in the order in which they are made, one at a time.      *)
RegistersInOrder ==
  /\ Range(registrations) = {c \in ToolCalls : Pending(c)} /\ Ascends(registrations)
  /\ \A c, d \in ToolCalls : c < d =>
       /\ At(c) = "idle" => At(d) = "idle"
       /\ At(d) \notin {"idle", "registering"} => At(c) # "idle" /\ ~Pending(c)

(* What a call has by the stage it is in.                                  *)
StagesSound ==
  \A c \in ToolCalls :
    /\ At(c) \in {"idle", "registering"} => Key(c) = "none"
    /\ At(c) = "keyed" \/ InLine(c) => Key(c) # "none"
    /\ mutations[c].did # "nothing" => At(c) \in {"writing", "ended"} /\ Key(c) # "none"
    /\ At(c) = "writing" => mutations[c].did = "truncated"

(* The map holds the last live call of a key, and no other.                *)
MapHoldsLast ==
  \A k \in Paths, c \in ToolCalls :
    /\ fileMutationQueues[k] = c => InLine(c) /\ Key(c) = k
    /\ InLine(c) /\ Key(c) = k => fileMutationQueues[k] # NoCall /\ c <= fileMutationQueues[k]

(* While a call is live, later ones of its key wait, for one that is live  *)
(* itself: calls of one key take their turns in the order they were made.  *)
TurnsInOrder ==
  \A c, d \in ToolCalls : c < d /\ InLine(c) /\ Key(d) = Key(c) =>
    \/ At(d) = "keyed"
    \/ /\ At(d) = "queued"
       /\ mutations[d].behind # NoCall /\ InLine(mutations[d].behind)
       /\ Key(mutations[d].behind) = Key(c)
       /\ c <= mutations[d].behind /\ mutations[d].behind < d

(* Nothing has happened to a file that does not exist; one that was there   *)
(* from the start has one key.                                             *)
DiskSound ==
  /\ onDisk.created => onDisk.exists
  /\ ~onDisk.exists => onDisk.shows = <<>> /\ \A c \in ToolCalls : mutations[c].did = "nothing"
  /\ onDisk.exists /\ ~onDisk.created => \A c \in ToolCalls : Key(c) \in {"none", "real"}

(* What an edit read is what was in order when its turn came: the calls     *)
(* before c that survive each other.                                       *)
InOrderBefore(c, seq) ==
  /\ Range(seq) = {d \in ToolCalls : d < c /\ mutations[d].did = "written" /\
                     \A e \in ToolCalls : d < e /\ e < c =>
                       \/ mutations[e].did = "nothing"
                       \/ mutations[e].did = "written" /\ mutations[e].tool = "edit"}
  /\ Ascends(seq)

ContentSound ==
  (onDisk.created => OneKey) =>
    /\ (\A c \in ToolCalls : At(c) # "writing") => ShowsInOrder
    /\ \A c \in ToolCalls :
         /\ At(c) = "ready" /\ mutations[c].tool = "edit" => mutations[c].read = onDisk.shows
         /\ At(c) = "writing" /\ mutations[c].tool = "edit" => InOrderBefore(c, mutations[c].read)
         /\ At(c) \in {"ready", "writing"} /\ mutations[c].tool = "write" => mutations[c].read = <<>>
         /\ At(c) = "writing" => onDisk.shows = <<>>

FilesInv ==
  /\ FilesTyped /\ RegistersInOrder /\ StagesSound /\ MapHoldsLast /\ TurnsInOrder
  /\ DiskSound /\ ContentSound

(* Sequences that ascend.                                                  *)
LEMMA AppendAscends ==
  ASSUME NEW seq \in Seq(Nat), NEW c \in Nat, Ascends(seq), \A x \in Range(seq) : x < c
  PROVE  Ascends(Append(seq, c)) /\ Range(Append(seq, c)) = Range(seq) \cup {c}
<1>1. /\ DOMAIN seq = 1..Len(seq) /\ Len(seq) \in Nat
      /\ DOMAIN Append(seq, c) = 1..Len(seq) + 1
      /\ Append(seq, c)[Len(seq) + 1] = c
      /\ \A i \in 1..Len(seq) : Append(seq, c)[i] = seq[i]
  OBVIOUS
<1>2. \A i \in 1..Len(seq) : seq[i] \in Nat /\ seq[i] < c
  BY <1>1 DEF Range
<1>3. Ascends(Append(seq, c))
  BY <1>1, <1>2 DEF Ascends
<1>4. \A i \in DOMAIN Append(seq, c) : i \in 1..Len(seq) \/ i = Len(seq) + 1
  BY <1>1
<1>5. Range(Append(seq, c)) \subseteq Range(seq) \cup {c}
  BY <1>1, <1>4 DEF Range
<1>6. Range(seq) \cup {c} \subseteq Range(Append(seq, c))
  BY <1>1 DEF Range
<1> QED
  BY <1>3, <1>5, <1>6

(* What is behind the first of an ascending sequence is larger than it.     *)
LEMMA TailAscends ==
  ASSUME NEW seq \in Seq(Nat), Ascends(seq), seq # <<>>
  PROVE  /\ Ascends(Tail(seq)) /\ Range(Tail(seq)) = Range(seq) \ {Head(seq)}
         /\ Head(seq) \in Range(seq) /\ \A x \in Range(seq) : Head(seq) <= x
<1>1. /\ DOMAIN seq = 1..Len(seq) /\ Len(seq) \in Nat /\ Len(seq) > 0
      /\ DOMAIN Tail(seq) = 1..Len(seq) - 1 /\ Head(seq) = seq[1]
      /\ \A i \in 1..Len(seq) - 1 : Tail(seq)[i] = seq[i + 1]
      /\ \A i \in 1..Len(seq) : seq[i] \in Nat
  BY HeadTailProperties
<1>2. Ascends(Tail(seq))
  BY <1>1 DEF Ascends
<1>3. \A i \in 1..Len(seq) : i = 1 \/ (i - 1 \in 1..Len(seq) - 1 /\ seq[1] < seq[i])
  BY <1>1 DEF Ascends
<1>4. \A i \in 1..Len(seq) - 1 : i + 1 \in 1..Len(seq) /\ seq[1] < seq[i + 1]
  BY <1>1 DEF Ascends
<1>5. Range(Tail(seq)) \subseteq Range(seq) \ {Head(seq)}
  BY <1>1, <1>4 DEF Range
<1>6. Range(seq) \ {Head(seq)} \subseteq Range(Tail(seq))
  <2> SUFFICES ASSUME NEW i \in 1..Len(seq), seq[i] # Head(seq) PROVE seq[i] \in Range(Tail(seq))
    BY <1>1 DEF Range
  <2>1. i - 1 \in 1..Len(seq) - 1 /\ Tail(seq)[i - 1] = seq[i]
    BY <1>1, <1>3
  <2> QED
    BY <1>1, <2>1 DEF Range
<1>7. Head(seq) \in Range(seq) /\ \A x \in Range(seq) : Head(seq) <= x
  BY <1>1, <1>3 DEF Range
<1> QED
  BY <1>2, <1>5, <1>6, <1>7

(* Any step of call c.                                                     *)
Step(c) ==
  \/ Call(c) \/ ResolveKey(c) \/ ResolveFails(c) \/ Register(c) \/ Begin(c)
  \/ Prepare(c) \/ GiveUp(c) \/ Truncate(c) \/ WriteOut(c) \/ WriteFails(c)

(* Every step changes one call.                                            *)
LEMMA OneCallMoves ==
  ASSUME FilesTyped, StagesSound, NEW c \in ToolCalls,
         Step(c)
  PROVE  \E m \in CallState : mutations' = [mutations EXCEPT ![c] = m]
<1>0. mutations[c] \in CallState /\ mutations \in [ToolCalls -> CallState]
  BY DEF FilesTyped
<1>1. CASE Call(c)
  <2>1. PICK tool \in Tools, path \in Paths :
          mutations' = [mutations EXCEPT ![c].at = "registering", ![c].tool = tool,
                                         ![c].path = path]
    BY <1>1 DEF Call
  <2>2. [mutations[c] EXCEPT !.at = "registering", !.tool = tool, !.path = path] \in CallState
    BY <1>0 DEF CallState
  <2> QED
    BY <1>0, <2>1, <2>2
<1>2. CASE ResolveKey(c)
  <2>1. MutationQueueKey(c) \in Paths
    BY <1>0 DEF MutationQueueKey, CallState, Paths
  <2>2. [mutations[c] EXCEPT !.at = "keyed", !.key = MutationQueueKey(c)] \in CallState
    BY <1>0, <2>1 DEF CallState
  <2> QED
    BY <1>0, <1>2, <2>2 DEF ResolveKey
<1>3. CASE \E from, to \in {"registering", "queued", "running", "ready", "writing", "ended"} : Goes(c, from, to)
  <2>1. PICK to \in {"registering", "queued", "running", "ready", "writing", "ended"} :
           mutations' = [mutations EXCEPT ![c].at = to]
    BY <1>3 DEF Goes
  <2>2. [mutations[c] EXCEPT !.at = to] \in CallState
    BY <1>0 DEF CallState
  <2> QED
    BY <1>0, <2>1, <2>2
<1>4. CASE Register(c)
  <2>1. mutations[c].key \in Paths
    BY <1>0, <1>4 DEF Register, StagesSound, At, Key, CallState
  <2>2. fileMutationQueues[mutations[c].key] \in ToolCalls \cup {NoCall}
    BY <2>1 DEF FilesTyped
  <2> DEFINE m == [mutations[c] EXCEPT !.at = "queued", !.behind = fileMutationQueues[mutations[c].key]]
  <2>3. m \in CallState
    BY <1>0, <2>2 DEF CallState
  <2>4. mutations' = [mutations EXCEPT ![c] = m]
    BY <1>0, <1>4 DEF Register
  <2> QED
    BY <2>3, <2>4
<1>5. CASE Prepare(c)
  <2> DEFINE read == IF mutations[c].tool = "edit" THEN onDisk.shows ELSE <<>>
  <2>1. read \in Seq(ToolCalls)
    BY DEF FilesTyped
  <2>2. [mutations[c] EXCEPT !.at = "ready", !.read = read] \in CallState
    BY <1>0, <2>1 DEF CallState
  <2> QED
    BY <1>0, <1>5, <2>2 DEF Prepare
<1>6. CASE Truncate(c)
  <2>1. [mutations[c] EXCEPT !.at = "writing", !.did = "truncated"] \in CallState
    BY <1>0 DEF CallState
  <2> QED
    BY <1>0, <1>6, <2>1 DEF Truncate
<1>7. CASE WriteOut(c)
  <2>1. [mutations[c] EXCEPT !.at = "ended", !.did = "written"] \in CallState
    BY <1>0 DEF CallState
  <2> QED
    BY <1>0, <1>7, <2>1 DEF WriteOut
<1> QED
  BY <1>1, <1>2, <1>3, <1>4, <1>5, <1>6, <1>7 DEF Step, ResolveFails, Begin, GiveUp, WriteFails

(* What a step of one call leaves alone.                                    *)
LEMMA OthersStay ==
  ASSUME FilesTyped, StagesSound, NEW c \in ToolCalls,
         Step(c)
  PROVE  /\ mutations' \in [ToolCalls -> CallState]
         /\ \A d \in ToolCalls \ {c} : mutations'[d] = mutations[d]
  BY OneCallMoves DEF FilesTyped

(* Calls are numbers, and no call is not.                                   *)
LEMMA CallsNumbered == ToolCalls \subseteq Nat /\ NoCall \notin ToolCalls
  BY MaxToolCallsAssumption DEF ToolCalls, NoCall

(* Sequences of calls are sequences of numbers.                             *)
LEMMA CallSequences ==
  ASSUME NEW seq \in Seq(ToolCalls) PROVE seq \in Seq(Nat)
  BY CallsNumbered, SeqMonotonic

(* What waits to register is not empty when one of it registers.           *)
LEMMA SomeoneRegisters ==
  ASSUME FilesTyped, RegistersInOrder, NEW c \in ToolCalls, Pending(c)
  PROVE  registrations # <<>>
  BY DEF FilesTyped, RegistersInOrder, Range

(* Every step keeps the types.                                              *)
LEMMA FilesTypedStep ==
  ASSUME FilesInv, NEW c \in ToolCalls, Step(c) PROVE FilesTyped'
<1>1. mutations' \in [ToolCalls -> CallState]
  BY OthersStay DEF FilesInv
<1>2. registrations' \in Seq(ToolCalls)
  <2>1. CASE Call(c)
    <3>1. registrations' = Append(registrations, c) /\ registrations \in Seq(ToolCalls)
      BY <2>1 DEF Call, FilesInv, FilesTyped
    <3> QED
      BY <3>1
  <2>2. CASE UNCHANGED registrations
    BY <2>2 DEF FilesInv, FilesTyped
  <2>3. CASE registrations' = Tail(registrations) /\ Pending(c)
    BY <2>3, SomeoneRegisters DEF FilesInv, FilesTyped
  <2> QED
    BY <2>1, <2>2, <2>3 DEF Step, ResolveKey, ResolveFails, Register, Begin, Prepare,
       GiveUp, Truncate, WriteOut, WriteFails, Goes, Pending, At
<1>3. fileMutationQueues' \in [Paths -> ToolCalls \cup {NoCall}]
  <2>1. CASE Register(c)
    BY <2>1 DEF Register, FilesInv, FilesTyped
  <2>2. CASE Release(c)
    BY <2>2 DEF Release, FilesInv, FilesTyped
  <2>3. CASE UNCHANGED fileMutationQueues
    BY <2>3 DEF FilesInv, FilesTyped
  <2> QED
    BY <2>1, <2>2, <2>3 DEF Step, Call, ResolveKey, ResolveFails, Begin, Prepare, GiveUp, Truncate,
       WriteOut, WriteFails
<1>4. onDisk' \in [exists : BOOLEAN, created : BOOLEAN, shows : Seq(ToolCalls)]
  <2>1. CASE Truncate(c)
    BY <2>1 DEF Truncate, FilesInv, FilesTyped
  <2>2. CASE WriteOut(c)
    <3>1. onDisk' = [onDisk EXCEPT !.shows = Append(mutations[c].read, c)]
      BY <2>2 DEF WriteOut
    <3>2. mutations[c].read \in Seq(ToolCalls)
      BY DEF FilesInv, FilesTyped, CallState
    <3>3. Append(mutations[c].read, c) \in Seq(ToolCalls)
      BY <3>2
    <3> QED
      BY <3>1, <3>3 DEF FilesInv, FilesTyped
  <2>3. CASE UNCHANGED onDisk
    BY <2>3 DEF FilesInv, FilesTyped
  <2> QED
    BY <2>1, <2>2, <2>3 DEF Step, Call, ResolveKey, ResolveFails, Register, Begin, Prepare, GiveUp,
       WriteFails
<1> QED
  BY <1>1, <1>2, <1>3, <1>4 DEF FilesTyped

(* What the steps of call c do to it, field by field.                      *)
SameCall(c) ==
  /\ mutations'[c].tool = mutations[c].tool /\ Key(c)' = Key(c)
  /\ mutations'[c].behind = mutations[c].behind

Proceeds(c, from, to) == At(c) = from /\ At(c)' = to

(* What registering does to the call at the head of the registrations.      *)
LEMMA RegisteringEffects ==
  ASSUME FilesTyped, NEW c \in ToolCalls
  PROVE  /\ Call(c) => /\ Proceeds(c, "idle", "registering") /\ Key(c)' = Key(c)
                       /\ mutations'[c].behind = mutations[c].behind
                       /\ mutations'[c].did = mutations[c].did
         /\ ResolveKey(c) => /\ Proceeds(c, "registering", "keyed")
                             /\ Key(c)' = MutationQueueKey(c)
                             /\ mutations'[c].behind = mutations[c].behind
                             /\ mutations'[c].did = mutations[c].did
         /\ ResolveFails(c) => /\ Proceeds(c, "registering", "ended") /\ SameCall(c)
                               /\ mutations'[c].did = mutations[c].did
         /\ Register(c) => /\ Proceeds(c, "keyed", "queued") /\ Key(c)' = Key(c)
                           /\ mutations'[c].behind = fileMutationQueues[Key(c)]
                           /\ mutations'[c].did = mutations[c].did
<1>1. mutations[c] \in CallState /\ mutations \in [ToolCalls -> CallState]
  BY DEF FilesTyped
<1> USE DEF Proceeds, SameCall, At, Key
<1>2. ASSUME Call(c)
      PROVE  /\ Proceeds(c, "idle", "registering") /\ Key(c)' = Key(c)
             /\ mutations'[c].behind = mutations[c].behind
             /\ mutations'[c].did = mutations[c].did
  <2>1. PICK tool \in Tools, path \in Paths :
          mutations' = [mutations EXCEPT ![c].at = "registering", ![c].tool = tool,
                                         ![c].path = path]
    BY <1>2 DEF Call
  <2> QED
    BY <1>1, <1>2, <2>1 DEF CallState, Call
<1>3. ResolveKey(c) => /\ Proceeds(c, "registering", "keyed")
                       /\ Key(c)' = MutationQueueKey(c)
                       /\ mutations'[c].behind = mutations[c].behind
                       /\ mutations'[c].did = mutations[c].did
  BY <1>1 DEF ResolveKey, CallState
<1>4. ResolveFails(c) => /\ Proceeds(c, "registering", "ended") /\ SameCall(c)
                         /\ mutations'[c].did = mutations[c].did
  BY <1>1 DEF ResolveFails, Goes, CallState
<1>5. Register(c) => /\ Proceeds(c, "keyed", "queued") /\ Key(c)' = Key(c)
                     /\ mutations'[c].behind = fileMutationQueues[Key(c)]
                     /\ mutations'[c].did = mutations[c].did
  BY <1>1 DEF Register, CallState
<1> QED
  BY <1>2, <1>3, <1>4, <1>5

(* What a step of the mutation itself does to its call.                     *)
LEMMA MutatingEffects ==
  ASSUME FilesTyped, NEW c \in ToolCalls
  PROVE  /\ Begin(c) => /\ Proceeds(c, "queued", "running") /\ SameCall(c)
                        /\ mutations'[c].did = mutations[c].did
         /\ Prepare(c) => /\ Proceeds(c, "running", "ready") /\ SameCall(c)
                          /\ mutations'[c].did = mutations[c].did
                          /\ mutations'[c].read =
                               IF mutations[c].tool = "edit" THEN onDisk.shows ELSE <<>>
         /\ GiveUp(c) => /\ Proceeds(c, "running", "ended") \/ Proceeds(c, "ready", "ended")
                         /\ SameCall(c) /\ mutations'[c].did = mutations[c].did
         /\ Truncate(c) => /\ Proceeds(c, "ready", "writing") /\ SameCall(c)
                           /\ mutations'[c].did = "truncated"
                           /\ mutations'[c].read = mutations[c].read
         /\ WriteOut(c) => /\ Proceeds(c, "writing", "ended") /\ SameCall(c)
                           /\ mutations'[c].did = "written"
         /\ WriteFails(c) => /\ Proceeds(c, "writing", "ended") /\ SameCall(c)
                             /\ mutations'[c].did = mutations[c].did
<1>1. mutations[c] \in CallState /\ mutations \in [ToolCalls -> CallState]
  BY DEF FilesTyped
<1> USE <1>1 DEF Proceeds, SameCall, At, Key, CallState
<1>2. Begin(c) => /\ Proceeds(c, "queued", "running") /\ SameCall(c)
                  /\ mutations'[c].did = mutations[c].did
  BY DEF Begin, Goes
<1>3. Prepare(c) => /\ Proceeds(c, "running", "ready") /\ SameCall(c)
                    /\ mutations'[c].did = mutations[c].did
                    /\ mutations'[c].read =
                         IF mutations[c].tool = "edit" THEN onDisk.shows ELSE <<>>
  BY DEF Prepare
<1>4. GiveUp(c) => /\ Proceeds(c, "running", "ended") \/ Proceeds(c, "ready", "ended")
                   /\ SameCall(c) /\ mutations'[c].did = mutations[c].did
  BY DEF GiveUp, Goes
<1>5. Truncate(c) => /\ Proceeds(c, "ready", "writing") /\ SameCall(c)
                     /\ mutations'[c].did = "truncated"
                     /\ mutations'[c].read = mutations[c].read
  BY DEF Truncate
<1>6. WriteOut(c) => /\ Proceeds(c, "writing", "ended") /\ SameCall(c)
                     /\ mutations'[c].did = "written"
  BY DEF WriteOut
<1>7. WriteFails(c) => /\ Proceeds(c, "writing", "ended") /\ SameCall(c)
                       /\ mutations'[c].did = mutations[c].did
  BY DEF WriteFails, Goes
<1> QED
  BY <1>2, <1>3, <1>4, <1>5, <1>6, <1>7

(* Every step keeps what a call has by its stage.                           *)
LEMMA StagesStep ==
  ASSUME FilesInv, NEW c \in ToolCalls, Step(c) PROVE StagesSound'
<1>1. \A d \in ToolCalls \ {c} : mutations'[d] = mutations[d]
  BY OthersStay DEF FilesInv, Step
<1>2. MutationQueueKey(c) # "none" /\ FilesTyped
  BY DEF FilesInv, FilesTyped, MutationQueueKey, CallState, Paths
<1>3. StagesSound
  BY DEF FilesInv
<1>4. /\ At(c)' \in {"idle", "registering"} => Key(c)' = "none"
      /\ At(c)' = "keyed" \/ InLine(c)' => Key(c)' # "none"
      /\ mutations'[c].did # "nothing" => At(c)' \in {"writing", "ended"} /\ Key(c)' # "none"
      /\ At(c)' = "writing" => mutations'[c].did = "truncated"
  BY <1>2, <1>3, RegisteringEffects, MutatingEffects
     DEF StagesSound, Step, Proceeds, SameCall, InLine, InTurn
<1> QED
  BY <1>1, <1>3, <1>4 DEF StagesSound, At, Key, InLine, InTurn

(* Every step keeps the order of the registrations.                         *)
LEMMA RegistersStep ==
  ASSUME FilesInv, NEW c \in ToolCalls, Step(c) PROVE RegistersInOrder'
<1>1. \A d \in ToolCalls \ {c} : At(d)' = At(d)
  BY OthersStay DEF FilesInv, At
<1>2. RegistersInOrder /\ FilesTyped /\ registrations \in Seq(Nat)
  BY CallSequences DEF FilesInv, FilesTyped
<1>n. \A d \in ToolCalls : d \in Nat
  BY CallsNumbered
<1> USE <1>n
<1>3. CASE Call(c)
  <2>1. /\ registrations' = Append(registrations, c) /\ Proceeds(c, "idle", "registering")
        /\ c > 1 => At(c - 1) # "idle"
    BY <1>2, <1>3, RegisteringEffects DEF Call, At
  <2>2. \A d \in ToolCalls : d < c => At(d) # "idle"
    <3> SUFFICES ASSUME NEW d \in ToolCalls, d < c PROVE At(d) # "idle"
      OBVIOUS
    <3>1. c \in Int /\ d \in Int /\ c - 1 \in ToolCalls /\ c > 1 /\ d <= c - 1
      BY MaxToolCallsAssumption DEF ToolCalls
    <3> QED
      BY <1>2, <2>1, <3>1 DEF RegistersInOrder
  <2>3. \A d \in ToolCalls : d > c => At(d) = "idle"
    BY <1>2, <2>1 DEF RegistersInOrder, Proceeds
  <2>4. \A d \in Range(registrations) : d < c
    <3> SUFFICES ASSUME NEW d \in ToolCalls, Pending(d) PROVE d < c
      BY <1>2 DEF RegistersInOrder
    <3>1. At(d) # "idle" /\ ~(d > c) /\ d # c
      BY <2>1, <2>3 DEF Proceeds, Pending
    <3> QED
      BY <3>1
  <2>5. Ascends(registrations') /\ Range(registrations') = Range(registrations) \cup {c}
    BY <1>2, <2>1, <2>4, AppendAscends DEF RegistersInOrder
  <2>6. Range(registrations') = {d \in ToolCalls : Pending(d)'}
    BY <1>1, <1>2, <2>1, <2>5 DEF RegistersInOrder, Pending, Proceeds
  <2>7. \A b, d \in ToolCalls : b < d =>
          /\ At(b)' = "idle" => At(d)' = "idle"
          /\ At(d)' \notin {"idle", "registering"} => At(b)' # "idle" /\ ~Pending(b)'
    BY <1>1, <1>2, <2>1, <2>2, <2>3 DEF RegistersInOrder, Pending, Proceeds
  <2> QED
    BY <2>5, <2>6, <2>7 DEF RegistersInOrder
<1>4. CASE ResolveKey(c)
  <2>1. /\ UNCHANGED registrations /\ Proceeds(c, "registering", "keyed")
        /\ registrations # <<>> /\ c = Head(registrations)
    BY <1>2, <1>4, RegisteringEffects DEF ResolveKey
  <2>2. \A d \in ToolCalls : Pending(d) => c <= d
    BY <1>2, <2>1, TailAscends DEF RegistersInOrder
  <2>3. \A d \in ToolCalls : d < c => At(d) # "idle" /\ ~Pending(d)
    BY <1>2, <2>1, <2>2 DEF RegistersInOrder, Proceeds
  <2>4. Range(registrations) = {d \in ToolCalls : Pending(d)'}
    BY <1>1, <1>2, <2>1 DEF RegistersInOrder, Pending, Proceeds
  <2> QED
    BY <1>1, <1>2, <2>1, <2>3, <2>4 DEF RegistersInOrder, Pending, Proceeds
<1>5. CASE ResolveFails(c) \/ Register(c)
  <2>1. /\ registrations' = Tail(registrations) /\ Pending(c) /\ c \in Range(registrations)
        /\ At(c)' \in {"queued", "ended"}
    BY <1>2, <1>5, RegisteringEffects DEF ResolveFails, Register, RegistersInOrder, Proceeds, Pending
  <2>2. registrations # <<>>
    BY <1>2, <2>1, SomeoneRegisters
  <2>3. c = Head(registrations)
    <3>1. CASE ResolveFails(c)
      BY <3>1 DEF ResolveFails
    <3>2. CASE Register(c)
      <4>1. Head(registrations) \in ToolCalls /\ Pending(Head(registrations)) /\ Head(registrations) <= c
        BY <1>2, <2>1, <2>2, TailAscends DEF RegistersInOrder
      <4>2. At(c) = "keyed"
        BY <1>2, <3>2, RegisteringEffects DEF Proceeds
      <4>3. ~(Head(registrations) < c)
        BY <1>2, <4>1, <4>2 DEF RegistersInOrder
      <4> QED
        BY <4>1, <4>3
    <3> QED
      BY <1>5, <3>1, <3>2
  <2>4. /\ Ascends(registrations') /\ Range(registrations') = Range(registrations) \ {c}
        /\ \A d \in ToolCalls : Pending(d) => c <= d
    BY <1>2, <2>1, <2>2, <2>3, TailAscends DEF RegistersInOrder
  <2>5. \A d \in ToolCalls : d < c => At(d) # "idle" /\ ~Pending(d)
    BY <1>2, <2>1, <2>4 DEF RegistersInOrder, Pending
  <2>6. Range(registrations') = {d \in ToolCalls : Pending(d)'}
    BY <1>1, <1>2, <2>1, <2>4 DEF RegistersInOrder, Pending
  <2> QED
    BY <1>1, <1>2, <2>1, <2>4, <2>5, <2>6 DEF RegistersInOrder, Pending
<1>6. CASE ~(Call(c) \/ ResolveKey(c) \/ ResolveFails(c) \/ Register(c))
  <2>1. /\ UNCHANGED registrations
        /\ At(c) \notin {"idle", "registering", "keyed"}
        /\ At(c)' \notin {"idle", "registering", "keyed"}
    BY <1>2, <1>6, MutatingEffects DEF Step, Begin, Prepare, GiveUp, Truncate, WriteOut, WriteFails, Proceeds
  <2>2. \A d \in ToolCalls : Pending(d)' = Pending(d)
    BY <1>1, <2>1 DEF Pending
  <2>3. Range(registrations') = {d \in ToolCalls : Pending(d)'}
    BY <1>2, <2>1, <2>2 DEF RegistersInOrder
  <2> QED
    BY <1>1, <1>2, <2>1, <2>2, <2>3 DEF RegistersInOrder
<1> QED
  BY <1>3, <1>4, <1>5, <1>6

(* A call in its turn is the only live one before it.                      *)
LEMMA FirstOfItsKey ==
  ASSUME FilesInv, NEW c \in ToolCalls, InTurn(c), NEW d \in ToolCalls, d < c, InLine(d),
         Key(d) = Key(c)
  PROVE  FALSE
  BY DEF FilesInv, TurnsInOrder, InTurn

(* Everyone that has a key behind a call that is registering is earlier.   *)
LEMMA RegisteringIsLast ==
  ASSUME FilesInv, NEW c \in ToolCalls, Pending(c), NEW d \in ToolCalls, InLine(d)
  PROVE  d < c
<1>1. c \in Nat /\ d \in Nat /\ c # d
  BY CallsNumbered DEF Pending, InLine, InTurn
<1>2. ~ (c < d)
  BY DEF FilesInv, RegistersInOrder, Pending, InLine, InTurn
<1> QED
  BY <1>1, <1>2

(* What a step of c does to the map.                                       *)
LEMMA MapEffects ==
  ASSUME FilesInv, NEW c \in ToolCalls, Step(c)
  PROVE  \/ /\ Register(c) /\ Proceeds(c, "keyed", "queued") /\ Key(c)' = Key(c) /\ Key(c) \in Paths
            /\ fileMutationQueues' = [fileMutationQueues EXCEPT ![Key(c)] = c]
            /\ mutations'[c].behind = fileMutationQueues[Key(c)]
         \/ /\ InTurn(c) /\ At(c)' = "ended" /\ SameCall(c) /\ Key(c) \in Paths
            /\ fileMutationQueues' = [fileMutationQueues EXCEPT ![Key(c)] = IF @ = c THEN NoCall ELSE @]
         \/ /\ UNCHANGED fileMutationQueues /\ InTurn(c)' /\ SameCall(c)
            /\ Begin(c) \/ InTurn(c)
         \/ /\ UNCHANGED fileMutationQueues /\ ~InLine(c) /\ ~InLine(c)'
            /\ At(c)' = "keyed" \/ Key(c)' = "none"
<1>1. FilesTyped /\ StagesSound /\ StagesSound'
  BY StagesStep DEF FilesInv
<1>2. InLine(c) \/ At(c) = "keyed" => Key(c) \in Paths
  BY <1>1 DEF StagesSound, FilesTyped, CallState, Key
<1>3. CASE Call(c) \/ ResolveKey(c) \/ ResolveFails(c)
  BY <1>1, <1>3, RegisteringEffects
     DEF Call, ResolveKey, ResolveFails, Proceeds, InLine, InTurn, StagesSound, SameCall
<1>4. CASE Register(c)
  BY <1>1, <1>2, <1>4, RegisteringEffects DEF Register, Proceeds, Key
<1>5. CASE Begin(c) \/ Prepare(c) \/ Truncate(c)
  BY <1>1, <1>5, MutatingEffects DEF Begin, Prepare, Truncate, Proceeds, InTurn
<1>6. CASE GiveUp(c) \/ WriteOut(c) \/ WriteFails(c)
  <2>1. Release(c)
    BY <1>6 DEF GiveUp, WriteOut, WriteFails
  <2> QED
    BY <1>1, <1>2, <1>6, <2>1, MutatingEffects DEF Release, Proceeds, InTurn, InLine, Key
<1> QED
  BY <1>3, <1>4, <1>5, <1>6 DEF Step

(* Every step keeps the last live call of a key in the map.                 *)
LEMMA MapStep ==
  ASSUME FilesInv, NEW c \in ToolCalls, Step(c) PROVE MapHoldsLast'
<1>1. \A d \in ToolCalls \ {c} : mutations'[d] = mutations[d]
  BY OthersStay DEF FilesInv
<1>2. \A d \in ToolCalls \ {c} : (InLine(d)' <=> InLine(d)) /\ Key(d)' = Key(d)
  BY <1>1 DEF InLine, InTurn, At, Key
<1>3. /\ fileMutationQueues \in [Paths -> ToolCalls \cup {NoCall}]
      /\ \A d \in ToolCalls : d \in Nat /\ d # NoCall
      /\ MapHoldsLast
  BY CallsNumbered DEF FilesInv, FilesTyped
<1>4. CASE /\ UNCHANGED fileMutationQueues
           /\ (InLine(c)' <=> InLine(c)) \/ (InTurn(c)' /\ Begin(c))
           /\ InLine(c) => Key(c)' = Key(c)
  <2>1. InLine(c)' <=> InLine(c)
    BY <1>4, MutatingEffects DEF FilesInv, InLine, InTurn, Proceeds
  <2> QED
    BY <1>2, <1>3, <1>4, <2>1 DEF MapHoldsLast
<1>5. CASE /\ Proceeds(c, "keyed", "queued") /\ Key(c)' = Key(c)
           /\ fileMutationQueues' = [fileMutationQueues EXCEPT ![Key(c)] = c]
  <2>1. InLine(c)' /\ ~InLine(c) /\ Pending(c)
    BY <1>5 DEF Proceeds, InLine, InTurn, Pending
  <2>2. \A d \in ToolCalls : InLine(d) => d < c
    BY <2>1, RegisteringIsLast
  <2> QED
    BY <1>2, <1>3, <1>5, <2>1, <2>2 DEF MapHoldsLast
<1>6. CASE /\ InTurn(c) /\ At(c)' = "ended" /\ Key(c) \in Paths
           /\ fileMutationQueues' =
                [fileMutationQueues EXCEPT ![Key(c)] = IF @ = c THEN NoCall ELSE @]
  <2>1. ~InLine(c)' /\ InLine(c)
    BY <1>6 DEF InLine, InTurn
  <2>2. \A d \in ToolCalls \ {c} : InLine(d) /\ Key(d) = Key(c) => ~ (d <= c)
    BY <1>3, <1>6, FirstOfItsKey
  <2>3. \A k \in Paths \ {Key(c)} : fileMutationQueues'[k] = fileMutationQueues[k]
    BY <1>3, <1>6
  <2>4. \A k \in Paths : fileMutationQueues[k] = c => k = Key(c)
    BY <1>3 DEF MapHoldsLast
  <2>5. fileMutationQueues'[Key(c)] # NoCall =>
          /\ fileMutationQueues'[Key(c)] = fileMutationQueues[Key(c)]
          /\ fileMutationQueues[Key(c)] # c
    BY <1>3, <1>6
  <2>6. fileMutationQueues[Key(c)] # NoCall
    BY <1>3, <1>6, <2>1 DEF MapHoldsLast
  <2>7. ASSUME NEW d \in ToolCalls, InLine(d)', Key(d)' = Key(c)
        PROVE  fileMutationQueues'[Key(c)] # NoCall /\ d <= fileMutationQueues'[Key(c)]
    <3>1. d # c /\ InLine(d) /\ Key(d) = Key(c)
      BY <1>2, <2>1, <2>7
    <3>2. d > c /\ d <= fileMutationQueues[Key(c)]
      BY <1>3, <1>6, <2>2, <3>1 DEF MapHoldsLast
    <3> QED
      BY <1>3, <1>6, <2>6, <3>2
  <2>8. ASSUME NEW d \in ToolCalls, fileMutationQueues'[Key(c)] = d
        PROVE  InLine(d)' /\ Key(d)' = Key(c)
    BY <1>2, <1>3, <1>6, <2>5, <2>8 DEF MapHoldsLast
  <2>9. ASSUME NEW k \in Paths \ {Key(c)}, NEW d \in ToolCalls
        PROVE  /\ fileMutationQueues'[k] = d => InLine(d)' /\ Key(d)' = k
               /\ InLine(d)' /\ Key(d)' = k =>
                    fileMutationQueues'[k] # NoCall /\ d <= fileMutationQueues'[k]
    BY <1>2, <1>3, <2>1, <2>3, <2>4 DEF MapHoldsLast
  <2> QED
    BY <2>7, <2>8, <2>9 DEF MapHoldsLast
<1> QED
  <2>1. CASE UNCHANGED fileMutationQueues /\ InTurn(c)' /\ SameCall(c) /\ (Begin(c) \/ InTurn(c))
    BY <1>4, <2>1 DEF SameCall, InLine
  <2>2. CASE UNCHANGED fileMutationQueues /\ ~InLine(c) /\ ~InLine(c)'
    BY <1>4, <2>2
  <2> QED
    BY <1>5, <1>6, <2>1, <2>2, MapEffects

(* Every step keeps the turns in order.                                     *)
LEMMA TurnsStep ==
  ASSUME FilesInv, NEW c \in ToolCalls, Step(c) PROVE TurnsInOrder'
<1>1. \A d \in ToolCalls \ {c} : mutations'[d] = mutations[d]
  BY OthersStay DEF FilesInv
<1>2. \A d \in ToolCalls \ {c} :
        /\ At(d)' = At(d) /\ (InLine(d)' <=> InLine(d)) /\ Key(d)' = Key(d)
        /\ mutations'[d].behind = mutations[d].behind
  BY <1>1 DEF InLine, InTurn, At, Key
<1>3. /\ fileMutationQueues \in [Paths -> ToolCalls \cup {NoCall}]
      /\ \A d \in ToolCalls : d \in Nat /\ d # NoCall
      /\ \A d \in ToolCalls : mutations[d].behind \in ToolCalls \cup {NoCall}
      /\ TurnsInOrder /\ MapHoldsLast /\ StagesSound /\ RegistersInOrder
  BY CallsNumbered DEF FilesInv, FilesTyped, CallState
<1>4. \A d \in ToolCalls : InLine(d) => Key(d) # "none"
  BY <1>3 DEF StagesSound
<1> SUFFICES ASSUME NEW a \in ToolCalls, NEW b \in ToolCalls, a < b, InLine(a)', Key(b)' = Key(a)'
             PROVE  \/ At(b)' = "keyed"
                    \/ /\ At(b)' = "queued"
                       /\ mutations'[b].behind # NoCall
                       /\ \E e \in ToolCalls : e = mutations'[b].behind /\ InLine(e)' /\ Key(e)' = Key(a)'
                       /\ a <= mutations'[b].behind /\ mutations'[b].behind < b
  BY DEF TurnsInOrder
<1>5. CASE /\ Proceeds(c, "keyed", "queued") /\ Key(c)' = Key(c) /\ Key(c) \in Paths
           /\ mutations'[c].behind = fileMutationQueues[Key(c)]
  <2>1. Pending(c) /\ ~InLine(c) /\ InLine(c)'
    BY <1>5 DEF Proceeds, Pending, InLine, InTurn
  <2>2. CASE b # c
    <3>1. a # c
      BY <1>2, <1>3, <1>5, <2>1, <2>2 DEF RegistersInOrder, StagesSound, Paths
    <3>2. \A e \in ToolCalls : InLine(e) => InLine(e)' /\ Key(e)' = Key(e)
      BY <1>2, <2>1
    <3> QED
      BY <1>2, <1>3, <2>2, <3>1, <3>2 DEF TurnsInOrder
  <2>3. CASE b = c
    <3>1. InLine(a) /\ Key(a) = Key(c) /\ a # c
      BY <1>2, <1>3, <1>5, <2>3 DEF Key, InLine, InTurn, At
    <3>2. PICK e \in ToolCalls : e = fileMutationQueues[Key(c)]
      BY <1>3, <1>5, <3>1 DEF MapHoldsLast
    <3>3. InLine(e) /\ Key(e) = Key(c) /\ a <= e
      BY <1>3, <1>5, <3>1, <3>2 DEF MapHoldsLast
    <3>4. e < c
      BY <2>1, <3>3, RegisteringIsLast
    <3> QED
      BY <1>2, <1>3, <1>5, <2>1, <2>3, <3>1, <3>2, <3>3, <3>4 DEF Proceeds
  <2> QED
    BY <2>2, <2>3
<1>6. CASE /\ ~InLine(c) /\ ~InLine(c)' /\ (At(c)' = "keyed" \/ Key(c)' = "none")
  <2>1. a # c /\ InLine(a) /\ Key(a)' = Key(a) /\ Key(a) # "none"
    BY <1>2, <1>4, <1>6
  <2>2. CASE b = c
    BY <1>6, <2>1, <2>2
  <2>3. CASE b # c
    BY <1>2, <1>3, <1>6, <2>1, <2>3 DEF TurnsInOrder
  <2> QED
    BY <2>2, <2>3
<1>7. CASE InTurn(c)' /\ SameCall(c) /\ (Begin(c) \/ InTurn(c))
  <2>1. InLine(c) /\ InLine(c)' /\ Key(c)' = Key(c)
    BY <1>7, MutatingEffects DEF FilesInv, SameCall, InLine, Proceeds
  <2>2. InLine(a) /\ Key(a)' = Key(a)
    BY <1>2, <2>1
  <2>3. CASE b = c
    <3>1. At(c) = "queued" /\ mutations[c].behind # NoCall /\ InLine(mutations[c].behind)
      BY <1>3, <1>7, <2>1, <2>2, <2>3 DEF TurnsInOrder, InLine, InTurn
    <3>2. Begin(c)
      BY <1>7, <3>1 DEF InTurn
    <3> QED
      BY <3>1, <3>2 DEF Begin, InLine, InTurn, At
  <2>4. CASE b # c
    <3>1. \A e \in ToolCalls : InLine(e) => InLine(e)' /\ Key(e)' = Key(e)
      BY <1>2, <2>1
    <3> QED
      BY <1>2, <1>3, <2>2, <2>4, <3>1 DEF TurnsInOrder
  <2> QED
    BY <2>3, <2>4
<1>8. CASE InTurn(c) /\ At(c)' = "ended" /\ SameCall(c)
  <2>1. InLine(c) /\ ~InLine(c)' /\ Key(c)' = Key(c)
    BY <1>8 DEF InLine, InTurn, SameCall
  <2>2. a # c /\ InLine(a) /\ Key(a)' = Key(a)
    BY <1>2, <2>1
  <2>3. b # c
    BY <1>2, <1>3, <1>8, <2>1, <2>2 DEF TurnsInOrder, InTurn
  <2>4. \/ At(b) = "keyed"
        \/ /\ At(b) = "queued"
           /\ mutations[b].behind # NoCall /\ InLine(mutations[b].behind)
           /\ Key(mutations[b].behind) = Key(a)
           /\ a <= mutations[b].behind /\ mutations[b].behind < b
    BY <1>2, <1>3, <2>2, <2>3 DEF TurnsInOrder
  <2>5. CASE mutations[b].behind = c
    <3>1. a < c \/ At(b) = "keyed"
      BY <1>3, <2>2, <2>4, <2>5
    <3>2. ~ (a < c) \/ At(b) = "keyed"
      BY <1>8, <2>2, <2>4, <2>5, FirstOfItsKey
    <3> QED
      BY <1>2, <2>3, <3>1, <3>2
  <2>6. CASE mutations[b].behind # c
    BY <1>2, <1>3, <2>2, <2>3, <2>4, <2>6
  <2> QED
    BY <2>5, <2>6
<1> QED
  BY <1>5, <1>6, <1>7, <1>8, MapEffects

(* Every step keeps what is known of a file that does not exist.            *)
LEMMA DiskStep ==
  ASSUME FilesInv, NEW c \in ToolCalls, Step(c) PROVE DiskSound'
<1>1. \A d \in ToolCalls \ {c} : mutations'[d] = mutations[d]
  BY OthersStay DEF FilesInv
<1>2. /\ FilesTyped /\ StagesSound /\ DiskSound
      /\ onDisk \in [exists : BOOLEAN, created : BOOLEAN, shows : Seq(ToolCalls)]
  BY DEF FilesInv, FilesTyped
<1>3. CASE Truncate(c)
  <2>1. onDisk'.exists /\ onDisk'.created = (onDisk.created \/ ~onDisk.exists)
    BY <1>3 DEF Truncate
  <2>2. \A d \in ToolCalls : Key(d)' = Key(d)
    BY <1>1, <1>2, <1>3, MutatingEffects DEF Key, SameCall
  <2>3. onDisk'.exists /\ ~onDisk'.created =>
          \A d \in ToolCalls : Key(d)' \in {"none", "real"}
    BY <1>2, <2>1, <2>2 DEF DiskSound
  <2> QED
    BY <2>1, <2>3 DEF DiskSound
<1>4. CASE WriteOut(c)
  <2>1. /\ onDisk'.exists = onDisk.exists /\ onDisk'.created = onDisk.created
        /\ Proceeds(c, "writing", "ended") /\ SameCall(c)
    BY <1>2, <1>4, MutatingEffects DEF WriteOut
  <2>2. onDisk.exists
    BY <1>2, <2>1 DEF DiskSound, StagesSound, Proceeds
  <2>3. \A d \in ToolCalls : Key(d)' = Key(d)
    BY <1>1, <2>1 DEF Key, SameCall
  <2> QED
    BY <1>2, <2>1, <2>2, <2>3 DEF DiskSound
<1>5. CASE ResolveKey(c)
  <2>1. /\ UNCHANGED onDisk /\ mutations'[c].did = mutations[c].did
        /\ Key(c)' = MutationQueueKey(c)
    BY <1>2, <1>5, RegisteringEffects DEF ResolveKey
  <2>2. \A d \in ToolCalls : mutations'[d].did = mutations[d].did
    BY <1>1, <2>1
  <2>3. onDisk.exists => Key(c)' = "real"
    BY <2>1 DEF MutationQueueKey
  <2>4. \A d \in ToolCalls \ {c} : Key(d)' = Key(d)
    BY <1>1 DEF Key
  <2> QED
    BY <1>2, <2>1, <2>2, <2>3, <2>4 DEF DiskSound
<1>6. CASE ~(Truncate(c) \/ WriteOut(c) \/ ResolveKey(c))
  <2>1. /\ UNCHANGED onDisk /\ mutations'[c].did = mutations[c].did
        /\ Key(c)' = Key(c)
    BY <1>2, <1>6, RegisteringEffects, MutatingEffects DEF Step, SameCall,
       Call, ResolveFails, Register, Begin, Prepare, GiveUp, WriteFails
  <2>2. \A d \in ToolCalls : mutations'[d].did = mutations[d].did /\ Key(d)' = Key(d)
    BY <1>1, <2>1 DEF Key
  <2>3. onDisk'.created => onDisk'.exists
    BY <1>2, <2>1 DEF DiskSound
  <2>4. ~onDisk'.exists => onDisk'.shows = <<>> /\ \A d \in ToolCalls : mutations'[d].did = "nothing"
    BY <1>2, <2>1, <2>2 DEF DiskSound
  <2>5. onDisk'.exists /\ ~onDisk'.created =>
          \A d \in ToolCalls : Key(d)' \in {"none", "real"}
    BY <1>2, <2>1, <2>2 DEF DiskSound
  <2> QED
    BY <2>3, <2>4, <2>5 DEF DiskSound
<1> QED
  BY <1>3, <1>4, <1>5, <1>6

(* Keys are given and never taken back: the calls had one key before.      *)
LEMMA OneKeyBefore ==
  ASSUME FilesInv, NEW c \in ToolCalls, Step(c), (onDisk.created => OneKey)'
  PROVE  onDisk.created => OneKey
<1>1. \A d \in ToolCalls \ {c} : mutations'[d] = mutations[d]
  BY OthersStay DEF FilesInv
<1>2. /\ FilesTyped /\ StagesSound
      /\ onDisk \in [exists : BOOLEAN, created : BOOLEAN, shows : Seq(ToolCalls)]
  BY DEF FilesInv, FilesTyped
<1>3. onDisk.created => onDisk'.created
  <2>1. CASE Truncate(c) \/ WriteOut(c)
    BY <1>2, <2>1 DEF Truncate, WriteOut
  <2>2. CASE UNCHANGED onDisk
    BY <2>2
  <2> QED
    BY <2>1, <2>2 DEF Step, Call, ResolveKey, ResolveFails, Register, Begin, Prepare, GiveUp,
       WriteFails
<1>4. Key(c) = "none" \/ Key(c)' = Key(c)
  BY <1>2, RegisteringEffects, MutatingEffects DEF Step, Proceeds, SameCall, StagesSound
<1> QED
  BY <1>1, <1>3, <1>4 DEF OneKey, Key

(* When all calls have one key, the one in its turn is alone: those before  *)
(* it have ended, those behind it have done nothing.                       *)
LEMMA AloneInTurn ==
  ASSUME FilesInv, onDisk.created => OneKey, onDisk.exists \/ onDisk.created \/ OneKey,
         NEW c \in ToolCalls, InTurn(c), NEW d \in ToolCalls, d # c
  PROVE  /\ ~InTurn(d)
         /\ d > c => mutations[d].did = "nothing"
         /\ mutations[d].did # "nothing" => d < c /\ At(d) = "ended"
<1>1. /\ FilesTyped /\ StagesSound /\ DiskSound /\ TurnsInOrder
      /\ c \in Nat /\ d \in Nat /\ Key(c) \in Paths /\ Key(d) \in Paths \cup {"none"}
  BY CallsNumbered DEF FilesInv, StagesSound, InLine, FilesTyped, CallState, Key
<1>2. Key(d) = "none" \/ Key(d) = Key(c)
  BY <1>1 DEF OneKey, DiskSound, Key, Paths
<1>3. CASE Key(d) = "none"
  BY <1>1, <1>3 DEF StagesSound, InLine
<1>4. CASE Key(d) = Key(c) /\ c < d
  BY <1>1, <1>4 DEF TurnsInOrder, InLine, InTurn, StagesSound
<1>5. CASE Key(d) = Key(c) /\ d < c
  BY <1>1, <1>5 DEF TurnsInOrder, InLine, InTurn, StagesSound
<1> QED
  BY <1>1, <1>2, <1>3, <1>4, <1>5

(* The order does not depend on what has done nothing.                     *)
LEMMA OrderKept ==
  ASSUME UNCHANGED onDisk,
         \A d \in ToolCalls :
           /\ mutations'[d].did = mutations[d].did
           /\ mutations[d].did # "nothing" => mutations'[d].tool = mutations[d].tool
  PROVE  /\ ShowsInOrder => ShowsInOrder'
         /\ \A c \in ToolCalls : \A seq : InOrderBefore(c, seq) => InOrderBefore(c, seq)'
<1>1. \A c \in ToolCalls : Survives(c)' <=> Survives(c)
  BY DEF Survives
<1>2. ShowsInOrder => ShowsInOrder'
  BY <1>1 DEF ShowsInOrder
<1>3. ASSUME NEW c \in ToolCalls, NEW seq, InOrderBefore(c, seq)
      PROVE  InOrderBefore(c, seq)'
  <2> DEFINE was == {d \in ToolCalls : d < c /\ mutations[d].did = "written" /\
                       \A e \in ToolCalls : d < e /\ e < c =>
                         \/ mutations[e].did = "nothing"
                         \/ mutations[e].did = "written" /\ mutations[e].tool = "edit"}
             is == {d \in ToolCalls : d < c /\ mutations'[d].did = "written" /\
                       \A e \in ToolCalls : d < e /\ e < c =>
                         \/ mutations'[e].did = "nothing"
                         \/ mutations'[e].did = "written" /\ mutations'[e].tool = "edit"}
  <2>1. was = is
    OBVIOUS
  <2> QED
    BY <1>3, <2>1 DEF InOrderBefore
<1> QED
  BY <1>2, <1>3

(* Every step keeps the content in the order of the calls.                  *)
LEMMA ContentStep ==
  ASSUME FilesInv, NEW c \in ToolCalls, Step(c) PROVE ContentSound'
<1> SUFFICES ASSUME (onDisk.created => OneKey)'
             PROVE  /\ (\A d \in ToolCalls : At(d)' # "writing") => ShowsInOrder'
                    /\ \A d \in ToolCalls :
                         /\ At(d)' = "ready" /\ mutations'[d].tool = "edit" =>
                              mutations'[d].read = onDisk'.shows
                         /\ At(d)' = "writing" /\ mutations'[d].tool = "edit" =>
                              \E seq : seq = mutations'[d].read /\ InOrderBefore(d, seq)'
                         /\ At(d)' \in {"ready", "writing"} /\ mutations'[d].tool = "write" =>
                              mutations'[d].read = <<>>
                         /\ At(d)' = "writing" => onDisk'.shows = <<>>
  BY DEF ContentSound, InOrderBefore
<1>1. \A d \in ToolCalls \ {c} : mutations'[d] = mutations[d] /\ At(d)' = At(d)
  BY OthersStay DEF FilesInv, At
<1>2. onDisk.created => OneKey
  BY OneKeyBefore
<1>3. /\ FilesTyped /\ StagesSound /\ DiskSound
      /\ onDisk \in [exists : BOOLEAN, created : BOOLEAN, shows : Seq(ToolCalls)]
      /\ \A d \in ToolCalls : d \in Nat
      /\ mutations \in [ToolCalls -> CallState]
  BY CallsNumbered DEF FilesInv, FilesTyped
<1>4. /\ (\A d \in ToolCalls : At(d) # "writing") => ShowsInOrder
      /\ \A d \in ToolCalls :
           /\ At(d) = "ready" /\ mutations[d].tool = "edit" => mutations[d].read = onDisk.shows
           /\ At(d) = "writing" /\ mutations[d].tool = "edit" => InOrderBefore(d, mutations[d].read)
           /\ At(d) \in {"ready", "writing"} /\ mutations[d].tool = "write" => mutations[d].read = <<>>
           /\ At(d) = "writing" => onDisk.shows = <<>>
  BY <1>2 DEF FilesInv, ContentSound
<1>5. CASE Call(c) \/ ResolveKey(c) \/ ResolveFails(c) \/ Register(c) \/ Begin(c) \/ GiveUp(c)
           \/ Prepare(c)
  <2>1. /\ UNCHANGED onDisk /\ mutations'[c].did = mutations[c].did
        /\ At(c) # "writing" /\ At(c)' # "writing"
        /\ At(c)' = "ready" => Prepare(c)
        /\ mutations[c].did # "nothing" => FALSE
    BY <1>3, <1>5, RegisteringEffects, MutatingEffects
       DEF Proceeds, StagesSound, Call, ResolveKey, ResolveFails, Register, Begin, GiveUp, Prepare
  <2>2. /\ ShowsInOrder => ShowsInOrder'
        /\ \A d \in ToolCalls : \A seq : InOrderBefore(d, seq) => InOrderBefore(d, seq)'
    BY <1>1, <2>1, OrderKept
  <2>3. Prepare(c) => /\ mutations'[c].tool = mutations[c].tool
                      /\ mutations'[c].read = IF mutations[c].tool = "edit" THEN onDisk.shows ELSE <<>>
    BY <1>3, MutatingEffects DEF SameCall
  <2> QED
    BY <1>1, <1>4, <2>1, <2>2, <2>3, SMTT(30)
<1>6. CASE Truncate(c)
  <2>1. /\ Proceeds(c, "ready", "writing") /\ mutations'[c].tool = mutations[c].tool
        /\ mutations'[c].read = mutations[c].read /\ mutations'[c].did = "truncated"
        /\ onDisk'.shows = <<>> /\ onDisk'.created = (onDisk.created \/ ~onDisk.exists)
        /\ mutations[c].did = "nothing"
    BY <1>3, <1>6, MutatingEffects DEF Truncate, SameCall, StagesSound, Proceeds
  <2>2. onDisk.exists \/ OneKey
    <3>1. CASE onDisk.exists
      BY <3>1
    <3>2. CASE ~onDisk.exists
      <4>1. OneKey'
        BY <2>1, <3>2
      <4>2. \A d \in ToolCalls : Key(d)' = Key(d)
        BY <1>1, <1>3, <1>6, MutatingEffects DEF SameCall, Key
      <4> QED
        BY <4>1, <4>2 DEF OneKey, Key
    <3> QED
      BY <3>1, <3>2
  <2>3. \A d \in ToolCalls \ {c} :
          ~InTurn(d) /\ (mutations[d].did # "nothing" => d < c)
    BY <1>2, <2>1, <2>2, AloneInTurn DEF InTurn, Proceeds
  <2>4. ASSUME mutations[c].tool = "edit"
        PROVE  InOrderBefore(c, mutations[c].read)'
    <3>1. ShowsInOrder /\ mutations[c].read = onDisk.shows
      BY <1>4, <2>1, <2>3, <2>4 DEF InTurn, Proceeds
    <3>2. \A d \in ToolCalls : Survives(d) <=>
            /\ d < c /\ mutations'[d].did = "written"
            /\ \A e \in ToolCalls : d < e /\ e < c =>
                 \/ mutations'[e].did = "nothing"
                 \/ mutations'[e].did = "written" /\ mutations'[e].tool = "edit"
      BY <1>1, <1>3, <2>1, <2>3 DEF Survives
    <3>3. mutations'[c].read = onDisk.shows
      BY <2>1, <3>1
    <3> QED
      BY <3>1, <3>2, <3>3 DEF ShowsInOrder, InOrderBefore
  <2> QED
    BY <1>1, <1>4, <2>1, <2>3, <2>4 DEF InTurn, Proceeds, InOrderBefore
<1>7. ASSUME WriteOut(c) \/ WriteFails(c)
      PROVE  /\ Proceeds(c, "writing", "ended") /\ mutations'[c].tool = mutations[c].tool
             /\ mutations[c].tool \in Tools /\ mutations[c].read \in Seq(Nat)
             /\ onDisk.shows = <<>>
             /\ \A d \in ToolCalls \ {c} :
                  ~InTurn(d) /\ (mutations[d].did # "nothing" => d < c)
  <2>1. Proceeds(c, "writing", "ended") /\ mutations'[c].tool = mutations[c].tool
    BY <1>3, <1>7, MutatingEffects DEF SameCall
  <2>2. onDisk.exists
    BY <1>3, <2>1 DEF Proceeds, StagesSound, DiskSound
  <2>3. mutations[c].tool \in Tools /\ mutations[c].read \in Seq(Nat)
    BY <1>3, CallSequences DEF CallState
  <2> QED
    BY <1>2, <1>4, <2>1, <2>2, <2>3, AloneInTurn DEF InTurn, Proceeds
<1>8. CASE WriteOut(c)
  <2>1. mutations'[c].did = "written" /\ onDisk'.shows = Append(mutations[c].read, c)
    BY <1>3, <1>8, MutatingEffects DEF WriteOut
  <2>o. /\ \A d \in ToolCalls \ {c} : mutations'[d] = mutations[d]
        /\ \A d \in ToolCalls \ {c} : mutations[d].did # "nothing" => d < c
        /\ mutations'[c].tool = mutations[c].tool
    BY <1>1, <1>7, <1>8
  <2>2. CASE mutations[c].tool = "edit"
    <3>1. InOrderBefore(c, mutations[c].read)
      BY <1>4, <1>7, <1>8, <2>2 DEF Proceeds
    <3>2. /\ Ascends(onDisk'.shows)
          /\ Range(onDisk'.shows) = Range(mutations[c].read) \cup {c}
      BY <1>3, <1>7, <1>8, <2>1, <3>1, AppendAscends DEF InOrderBefore
    <3>3. \A d \in ToolCalls : Survives(d)' <=>
            \/ d = c
            \/ /\ d < c /\ mutations[d].did = "written"
               /\ \A e \in ToolCalls : d < e /\ e < c =>
                    \/ mutations[e].did = "nothing"
                    \/ mutations[e].did = "written" /\ mutations[e].tool = "edit"
      <4>1. Survives(c)'
        BY <1>3, <2>1, <2>o, SMTT(30) DEF Survives
      <4>2. ASSUME NEW d \in ToolCalls \ {c}
            PROVE  Survives(d)' <=>
                     /\ d < c /\ mutations[d].did = "written"
                     /\ \A e \in ToolCalls : d < e /\ e < c =>
                          \/ mutations[e].did = "nothing"
                          \/ mutations[e].did = "written" /\ mutations[e].tool = "edit"
        <5> DEFINE Keeps(e) == \/ mutations[e].did = "nothing"
                               \/ mutations[e].did = "written" /\ mutations[e].tool = "edit"
        <5>1. Survives(d)' <=>
                /\ mutations[d].did = "written"
                /\ \A e \in ToolCalls \ {c} : e > d => Keeps(e)
          BY <1>3, <2>1, <2>2, <2>o, <4>2 DEF Survives
        <5>2. \A e \in ToolCalls \ {c} : Keeps(e) \/ e < c
          BY <2>o
        <5>3. mutations[d].did = "written" => d < c
          BY <2>o
        <5> HIDE DEF Keeps
        <5>4. (\A e \in ToolCalls \ {c} : e > d => Keeps(e)) <=>
                (\A e \in ToolCalls : d < e /\ e < c => Keeps(e))
          BY <1>3, <5>2
        <5> QED
          BY <5>1, <5>3, <5>4 DEF Keeps
      <4> QED
        BY <4>1, <4>2
    <3> QED
      BY <1>1, <1>7, <1>8, <3>1, <3>2, <3>3 DEF ShowsInOrder, InOrderBefore, InTurn, Proceeds
  <2>3. CASE mutations[c].tool = "write"
    <3>1. onDisk'.shows = <<c>>
      <4>1. mutations[c].read = <<>>
        BY <1>4, <1>7, <1>8, <2>3 DEF Proceeds
      <4> QED
        BY <2>1, <4>1
    <3>2. Ascends(onDisk'.shows) /\ Range(onDisk'.shows) = {c}
      BY <3>1 DEF Ascends, Range
    <3>3. \A d \in ToolCalls : Survives(d)' <=> d = c
      <4>1. Survives(c)'
        BY <1>3, <2>1, <2>o, SMTT(30) DEF Survives
      <4>2. ASSUME NEW d \in ToolCalls \ {c} PROVE ~Survives(d)'
        BY <1>3, <2>1, <2>3, <2>o DEF Survives
      <4> QED
        BY <4>1, <4>2
    <3> QED
      BY <1>1, <1>7, <1>8, <3>2, <3>3 DEF ShowsInOrder, InTurn, Proceeds
  <2> QED
    BY <1>7, <1>8, <2>2, <2>3 DEF Tools
<1>9. CASE WriteFails(c)
  <2>1. mutations'[c].did = "truncated" /\ onDisk'.shows = <<>>
    BY <1>3, <1>7, <1>9, MutatingEffects DEF WriteFails, StagesSound, Proceeds
  <2>2. Ascends(onDisk'.shows) /\ Range(onDisk'.shows) = {}
    BY <2>1 DEF Ascends, Range
  <2>3. \A d \in ToolCalls : ~Survives(d)'
    BY <1>1, <1>3, <1>7, <1>9, <2>1 DEF Survives
  <2> QED
    BY <1>1, <1>7, <1>9, <2>2, <2>3 DEF ShowsInOrder, InTurn, Proceeds
<1> QED
  BY <1>5, <1>6, <1>8, <1>9 DEF Step

(* No call was made.                                                        *)
LEMMA FilesStart == FilesInit => FilesInv
<1> SUFFICES ASSUME FilesInit PROVE FilesInv
  OBVIOUS
<1>1. FilesTyped
  <2>1. <<>> \in Seq(ToolCalls)
    OBVIOUS
  <2>2. mutations \in [ToolCalls -> CallState]
    BY <2>1 DEF FilesInit, CallState, Tools, Paths
  <2>3. onDisk \in [exists : BOOLEAN, created : BOOLEAN, shows : Seq(ToolCalls)]
    BY <2>1 DEF FilesInit
  <2> QED
    BY <2>1, <2>2, <2>3 DEF FilesInit, FilesTyped
<1>2. \A c \in ToolCalls : At(c) = "idle" /\ Key(c) = "none" /\ mutations[c].did = "nothing"
  BY DEF FilesInit, At, Key
<1>3. registrations = <<>> /\ Range(<<>>) = {} /\ Ascends(<<>>) /\ onDisk.shows = <<>>
  BY DEF FilesInit, Range, Ascends
<1>4. RegistersInOrder /\ StagesSound /\ TurnsInOrder
  BY <1>2, <1>3 DEF RegistersInOrder, StagesSound, TurnsInOrder, Pending, InLine, InTurn
<1>5. MapHoldsLast
  BY <1>2, CallsNumbered DEF FilesInit, MapHoldsLast, InLine, InTurn
<1>6. DiskSound /\ ContentSound
  BY <1>2, <1>3 DEF FilesInit, DiskSound, ContentSound, ShowsInOrder, Survives
<1> QED
  BY <1>1, <1>4, <1>5, <1>6 DEF FilesInv

(* Every step of a call keeps the invariant.                                *)
LEMMA FilesStep == FilesInv /\ [FilesNext]_fileVars => FilesInv'
<1> SUFFICES ASSUME FilesInv, [FilesNext]_fileVars PROVE FilesInv'
  OBVIOUS
<1>1. CASE UNCHANGED fileVars
  <2> USE <1>1 DEF fileVars, FilesInv, Pending, InLine, InTurn, At, Key
  <2>1. FilesTyped' /\ RegistersInOrder' /\ StagesSound'
    BY DEF FilesTyped, RegistersInOrder, StagesSound
  <2>2. MapHoldsLast' /\ TurnsInOrder' /\ DiskSound'
    BY DEF MapHoldsLast, TurnsInOrder, DiskSound
  <2>3. ContentSound'
    BY DEF ContentSound, OneKey, ShowsInOrder, Survives, InOrderBefore
  <2> QED
    BY <2>1, <2>2, <2>3
<1>2. CASE FilesNext
  <2>1. PICK c \in ToolCalls : Step(c)
    BY <1>2 DEF FilesNext, Step
  <2> QED
    BY <2>1, FilesTypedStep, RegistersStep, StagesStep, MapStep, TurnsStep, DiskStep, ContentStep
       DEF FilesInv
<1> QED
  BY <1>1, <1>2

(* Calls of the edit and write tools on one file take effect one by one, in *)
(* the order in which they were made, and no call that ended stays in the   *)
(* map, for any number of calls, failures and aliases                      *)
(* (file-mutation-queue.ts, edit.ts, write.ts).                            *)
THEOREM MutationsAlwaysSerialize == FilesSpec => []MutationsSerialize
<1>1. FilesInv => MutationsSerialize
  <2> SUFFICES ASSUME FilesInv PROVE MutationsSerialize
    OBVIOUS
  <2>1. \A k \in Paths : fileMutationQueues[k] \in ToolCalls \cup {NoCall}
    BY DEF FilesInv, FilesTyped
  <2>2. \A k \in Paths : fileMutationQueues[k] # NoCall =>
          mutations[fileMutationQueues[k]].at # "ended"
    BY <2>1 DEF FilesInv, MapHoldsLast, InLine, InTurn, At
  <2> QED
    BY <2>2 DEF FilesInv, ContentSound, MutationsSerialize, At
<1> QED
  BY <1>1, FilesStart, FilesStep, PTL DEF FilesSpec

-----------------------------------------------------------------------------
(* SessionFile: sequences of entries, and sets of numbers in order.        *)

LEMMA LeastMember ==
  ASSUME NEW T \in SUBSET Nat, T # {}
  PROVE  \E m \in T : \A n \in T : m <= n
<1> DEFINE R == OpToRel(<, Nat)
<1>1. IsWellFoundedOn(R, Nat)
  BY NatLessThanWellFounded
<1>2. \A x, y \in T : y < x => <<y, x>> \in R
  BY DEF OpToRel
<1> HIDE DEF R
<1>3. PICK x \in T : \A y \in T : ~(<<y, x>> \in R)
  BY <1>1, WFMin
<1>4. \A y \in T : ~(y < x)
  BY <1>2, <1>3
<1>5. x \in Int /\ \A y \in T : y \in Int
  OBVIOUS
<1> QED
  BY <1>4, <1>5

(* One number of a finite set has n of them up to it.                      *)
LEMMA RankExists ==
  ASSUME NEW S \in SUBSET Nat, IsFiniteSet(S), NEW n \in 1..Cardinality(S)
  PROVE  \E i \in S : Cardinality({k \in S : k <= i}) = n
<1> DEFINE upTo(i) == {k \in S : k <= i}
           T == {m \in 1..Cardinality(S) : \A i \in S : Cardinality(upTo(i)) # m}
<1>0. Cardinality(S) \in Nat /\ \A i : IsFiniteSet(upTo(i))
  BY FS_CardinalityType, FS_Subset
<1>1. SUFFICES ASSUME T # {} PROVE FALSE
  OBVIOUS
<1>2. PICK m \in T : \A k \in T : m <= k
  <2>1. T \in SUBSET Nat
    BY <1>0
  <2> HIDE DEF T
  <2> QED
    BY <1>1, <2>1, LeastMember
<1>3. m \in 1..Cardinality(S) /\ \A i \in S : Cardinality(upTo(i)) # m
  OBVIOUS
<1>4. CASE m = 1
  <2>1. S # {}
    BY <1>0, <1>3, FS_EmptySet
  <2>2. PICK i \in S : \A k \in S : i <= k
    BY <2>1, LeastMember
  <2>3. upTo(i) = {i}
    <3>1. \A k \in S : k <= i <=> k = i
      BY <2>2
    <3> QED
      BY <3>1
  <2> QED
    BY <1>3, <1>4, <2>3, FS_Singleton
<1>5. CASE m # 1
  <2>1. m - 1 \in 1..Cardinality(S) /\ m - 1 \notin T
    BY <1>0, <1>2, <1>3, <1>5
  <2>2. PICK i \in S : Cardinality(upTo(i)) = m - 1
    BY <2>1
  <2> DEFINE above == {k \in S : k > i}
  <2>3. above # {}
    <3> SUFFICES ASSUME above = {} PROVE FALSE
      OBVIOUS
    <3>1. \A k \in S : k <= i
      OBVIOUS
    <3>2. upTo(i) = S
      BY <3>1
    <3> QED
      BY <1>0, <1>3, <2>2, <3>2
  <2>4. PICK j \in above : \A k \in above : j <= k
    <3>1. above \in SUBSET Nat
      OBVIOUS
    <3> HIDE DEF above
    <3> QED
      BY <2>3, <3>1, LeastMember
  <2>5. upTo(j) = upTo(i) \cup {j} /\ j \notin upTo(i) /\ j \in S
    <3>1. \A k \in S : k <= j <=> k <= i \/ k = j
      BY <2>2, <2>4
    <3>2. j \in S /\ ~(j <= i)
      BY <2>2, <2>4
    <3> QED
      BY <3>1, <3>2
  <2>6. Cardinality(upTo(j)) = Cardinality(upTo(i)) + 1
    <3> HIDE DEF upTo
    <3> QED
      BY <1>0, <2>5, FS_AddElement
  <2> QED
    BY <1>0, <1>3, <2>2, <2>5, <2>6
<1> QED
  BY <1>4, <1>5

LEMMA AscendingType ==
  ASSUME NEW S \in SUBSET Nat, IsFiniteSet(S)
  PROVE  /\ Cardinality(S) \in Nat
         /\ Ascending(S) \in [1..Cardinality(S) -> S]
         /\ Ascending(S) \in Seq(S) /\ Len(Ascending(S)) = Cardinality(S)
<1>1. Cardinality(S) \in Nat
  BY FS_CardinalityType
<1>2. \A n \in 1..Cardinality(S) :
        (CHOOSE i \in S : Cardinality({k \in S : k <= i}) = n) \in S
  BY RankExists
<1>3. Ascending(S) \in [1..Cardinality(S) -> S]
  BY <1>2 DEF Ascending
<1> QED
  BY <1>1, <1>3

LEMMA MemberAt ==
  ASSUME NEW s \in Seq(Entry), NEW e \in ToSet(s)
  PROVE  e \in Entry /\ \E k \in 1..Len(s) : s[k] = e
<1>1. PICK k \in DOMAIN s : e = s[k]
  BY DEF ToSet
<1> QED
  BY <1>1

LEMMA MemberOf ==
  ASSUME NEW s \in Seq(Entry), NEW k \in 1..Len(s)
  PROVE  s[k] \in ToSet(s) /\ s[k] \in Entry /\ s[k].id \in IdsOf(s)
<1>1. s[k] \in ToSet(s)
  BY DEF ToSet
<1> QED
  BY <1>1 DEF IdsOf

LEMMA SetOfEntries ==
  ASSUME NEW s \in Seq(Entry)
  PROVE  /\ ToSet(s) \subseteq Entry
         /\ IdsOf(s) \subseteq 1..MaxEntries
         /\ \A i \in IdsOf(s) : EntryOf(s, i) \in ToSet(s) /\ EntryOf(s, i).id = i
<1>2. ToSet(s) \subseteq Entry
  BY MemberAt
<1>3. IdsOf(s) \subseteq 1..MaxEntries
  BY <1>2 DEF IdsOf, Entry
<1>4. \A i \in IdsOf(s) : EntryOf(s, i) \in ToSet(s) /\ EntryOf(s, i).id = i
  BY DEF IdsOf, EntryOf
<1> QED
  BY <1>2, <1>3, <1>4

LEMMA SetOfBoth ==
  ASSUME NEW s \in Seq(Entry), NEW t \in Seq(Entry), NEW u \in Seq(Entry),
         Len(u) = Len(s) + Len(t),
         \A k \in 1..Len(s) : u[k] = s[k],
         \A k \in 1..Len(t) : u[Len(s) + k] = t[k]
  PROVE  ToSet(u) = ToSet(s) \cup ToSet(t) /\ IdsOf(u) = IdsOf(s) \cup IdsOf(t)
<1>0. Len(s) \in Nat /\ Len(t) \in Nat
  OBVIOUS
<1>1. ASSUME NEW e \in ToSet(u) PROVE e \in ToSet(s) \cup ToSet(t)
  <2>0. PICK k \in 1..Len(u) : u[k] = e
    BY MemberAt
  <2>1. CASE k \in 1..Len(s)
    <3>1. s[k] \in ToSet(s) /\ s[k] = e
      BY <2>0, <2>1, MemberOf
    <3> QED
      BY <3>1
  <2>2. CASE k \notin 1..Len(s)
    <3>1. k - Len(s) \in 1..Len(t) /\ k = Len(s) + (k - Len(s))
      BY <1>0, <2>2
    <3>2. t[k - Len(s)] \in ToSet(t) /\ t[k - Len(s)] = e
      BY <2>0, <3>1, MemberOf
    <3> QED
      BY <3>2
  <2> QED
    BY <2>1, <2>2
<1>3. ASSUME NEW e \in ToSet(s) PROVE e \in ToSet(u)
  <2>1. PICK k \in 1..Len(s) : s[k] = e
    BY MemberAt
  <2>2. k \in 1..Len(u) /\ u[k] = e
    BY <1>0, <2>1
  <2> QED
    BY <2>2, MemberOf
<1>4. ASSUME NEW e \in ToSet(t) PROVE e \in ToSet(u)
  <2>1. PICK k \in 1..Len(t) : t[k] = e
    BY MemberAt
  <2>2. Len(s) + k \in 1..Len(u) /\ u[Len(s) + k] = e
    BY <1>0, <2>1
  <2> QED
    BY <2>2, MemberOf
<1>6. ToSet(u) = ToSet(s) \cup ToSet(t)
  BY <1>1, <1>3, <1>4
<1> QED
  BY <1>6 DEF IdsOf

LEMMA SetOfJoined ==
  ASSUME NEW s \in Seq(Entry), NEW t \in Seq(Entry)
  PROVE  /\ s \o t \in Seq(Entry) /\ Len(s \o t) = Len(s) + Len(t)
         /\ ToSet(s \o t) = ToSet(s) \cup ToSet(t)
         /\ IdsOf(s \o t) = IdsOf(s) \cup IdsOf(t)
<1>1. /\ s \o t \in Seq(Entry) /\ Len(s \o t) = Len(s) + Len(t)
      /\ \A k \in 1..Len(s) : (s \o t)[k] = s[k]
      /\ \A k \in 1..Len(t) : (s \o t)[Len(s) + k] = t[k]
  OBVIOUS
<1>2. PICK u : u = s \o t
  OBVIOUS
<1>3. /\ s \in Seq(Entry) /\ t \in Seq(Entry) /\ u \in Seq(Entry)
      /\ Len(u) = Len(s) + Len(t)
      /\ \A k \in 1..Len(s) : u[k] = s[k]
      /\ \A k \in 1..Len(t) : u[Len(s) + k] = t[k]
  BY <1>1, <1>2
<1>4. ToSet(u) = ToSet(s) \cup ToSet(t) /\ IdsOf(u) = IdsOf(s) \cup IdsOf(t)
  BY ONLY <1>3, SetOfBoth
<1> QED
  BY <1>1, <1>2, <1>4

LEMMA SetOfAppended ==
  ASSUME NEW s \in Seq(Entry), NEW e \in Entry
  PROVE  /\ Append(s, e) \in Seq(Entry) /\ Len(Append(s, e)) = Len(s) + 1
         /\ ToSet(Append(s, e)) = ToSet(s) \cup {e}
         /\ IdsOf(Append(s, e)) = IdsOf(s) \cup {e.id}
<1>1. <<e>> \in Seq(Entry) /\ s \o <<e>> = Append(s, e)
  OBVIOUS
<1>2. ToSet(<<e>>) = {e}
  BY DEF ToSet
<1>3. IdsOf(<<e>>) = {e.id}
  BY <1>2 DEF IdsOf
<1>4. PICK t : t = <<e>>
  OBVIOUS
<1>5. s \in Seq(Entry) /\ t \in Seq(Entry)
  BY <1>1, <1>4
<1>6. /\ ToSet(s \o t) = ToSet(s) \cup ToSet(t)
      /\ IdsOf(s \o t) = IdsOf(s) \cup IdsOf(t)
  BY ONLY <1>5, SetOfJoined
<1>7. Append(s, e) \in Seq(Entry) /\ Len(Append(s, e)) = Len(s) + 1
  OBVIOUS
<1>8. s \o t = Append(s, e)
  BY <1>1, <1>4
<1> QED
  BY ONLY <1>2, <1>3, <1>4, <1>6, <1>7, <1>8

LEMMA SetOfSome ==
  ASSUME NEW s \in Seq(Entry), NEW t \in Seq(Entry),
         \A k \in 1..Len(t) : \E n \in 1..Len(s) : t[k] = s[n]
  PROVE  ToSet(t) \subseteq ToSet(s) /\ IdsOf(t) \subseteq IdsOf(s)
<1>1. ASSUME NEW e \in ToSet(t) PROVE e \in ToSet(s)
  <2>1. PICK k \in 1..Len(t) : t[k] = e
    BY MemberAt
  <2>2. PICK n \in 1..Len(s) : e = s[n]
    BY <2>1
  <2> QED
    BY <2>2, MemberOf
<1> QED
  BY <1>1 DEF IdsOf

(* The last line joined with a torn one is all that is lost.               *)
LEMMA SetOfFront ==
  ASSUME NEW s \in Seq(Entry), s # <<>>
  PROVE  /\ Front(s) \in Seq(Entry) /\ ToSet(Front(s)) \subseteq ToSet(s)
         /\ IdsOf(s) \subseteq IdsOf(Front(s)) \cup {Last(s).id}
<1>0. /\ Len(s) \in Nat /\ Len(s) >= 1 /\ Len(s) - 1 \in Int /\ 1 \in Int
      /\ \A k \in 1..(Len(s) - 1) : s[k] \in Entry
      /\ Last(s) = s[Len(s)]
  BY DEF Last
<1>1. /\ Front(s) \in Seq(Entry) /\ Len(Front(s)) = IF 1 <= Len(s) - 1 THEN Len(s) - 1 - 1 + 1 ELSE 0
      /\ \A k \in 1..(Len(s) - 1 - 1 + 1) : Front(s)[k] = s[1 + k - 1]
  BY <1>0, SubSeqProperties DEF Front
<1>2. PICK f \in Seq(Entry) : f = Front(s)
  BY <1>1
<1>3. Len(f) = Len(s) - 1 /\ \A k \in 1..Len(f) : f[k] = s[k]
  BY <1>0, <1>1, <1>2
<1>4. ToSet(f) \subseteq ToSet(s)
  <2>1. \A k \in 1..Len(f) : \E n \in 1..Len(s) : f[k] = s[n]
    BY <1>0, <1>3
  <2> QED
    BY <2>1, SetOfSome
<1>5. ASSUME NEW e \in ToSet(s) PROVE e \in ToSet(f) \cup {Last(s)}
  <2>1. PICK k \in 1..Len(s) : s[k] = e
    BY MemberAt
  <2>2. CASE k = Len(s)
    BY <1>0, <2>1, <2>2
  <2>3. CASE k # Len(s)
    <3>1. k \in 1..Len(f) /\ f[k] = e
      BY <1>0, <1>3, <2>1, <2>3
    <3> QED
      BY <3>1, MemberOf
  <2> QED
    BY <2>2, <2>3
<1> QED
  BY <1>2, <1>4, <1>5 DEF IdsOf

-----------------------------------------------------------------------------
(* The walk to the root gives entries of the session.                      *)

WalkStart(entries, leaf) ==
  IF leaf \in IdsOf(entries) THEN <<EntryOf(entries, leaf)>> ELSE <<>>

WalkOn(entries, path) ==
  IF path # <<>> /\ Head(path).parent \in IdsOf(entries)
  THEN <<EntryOf(entries, Head(path).parent)>> \o path ELSE path

IsWalk(entries, leaf, walk, last) ==
  walk = [n \in 0..last |-> IF n = 0 THEN WalkStart(entries, leaf)
                            ELSE WalkOn(entries, walk[n - 1])]

LEMMA WalkExists ==
  ASSUME NEW entries, NEW leaf, NEW last \in Nat
  PROVE  \E walk : IsWalk(entries, leaf, walk, last)
<1> DEFINE T == {n \in Nat : \A walk : ~IsWalk(entries, leaf, walk, n)}
<1>1. SUFFICES ASSUME T # {} PROVE FALSE
  OBVIOUS
<1>2. PICK n \in T : \A k \in T : n <= k
  <2>1. T \in SUBSET Nat
    OBVIOUS
  <2> HIDE DEF T
  <2> QED
    BY <1>1, <2>1, LeastMember
<1>3. n \in Nat /\ \A walk : ~IsWalk(entries, leaf, walk, n)
  OBVIOUS
<1>4. CASE n = 0
  <2> DEFINE first == [k \in 0..0 |-> WalkStart(entries, leaf)]
  <2>1. first = [k \in 0..0 |-> IF k = 0 THEN WalkStart(entries, leaf)
                                ELSE WalkOn(entries, first[k - 1])]
    OBVIOUS
  <2> HIDE DEF first
  <2> QED
    BY <1>3, <1>4, <2>1 DEF IsWalk
<1>5. CASE n # 0
  <2>1. n - 1 \in Nat /\ n - 1 \notin T
    BY <1>2, <1>3, <1>5
  <2>2. PICK before : IsWalk(entries, leaf, before, n - 1)
    BY <2>1
  <2> DEFINE walk == [k \in 0..n |-> IF k = n THEN WalkOn(entries, before[n - 1])
                                     ELSE before[k]]
  <2>3. \A k \in 0..(n - 1) : before[k] = IF k = 0 THEN WalkStart(entries, leaf)
                                          ELSE WalkOn(entries, before[k - 1])
    BY <2>2 DEF IsWalk
  <2>4. /\ walk[n] = WalkOn(entries, walk[n - 1])
        /\ \A k \in 0..(n - 1) : walk[k] = before[k]
    BY <1>3, <1>5
  <2>5. \A k \in 0..n : walk[k] = IF k = 0 THEN WalkStart(entries, leaf)
                                  ELSE WalkOn(entries, walk[k - 1])
    <3> SUFFICES ASSUME NEW k \in 0..n
                 PROVE  walk[k] = IF k = 0 THEN WalkStart(entries, leaf)
                                  ELSE WalkOn(entries, walk[k - 1])
      OBVIOUS
    <3>1. k = n \/ k \in 0..(n - 1)
      BY <1>3
    <3>2. k # 0 /\ k \in 0..(n - 1) => k - 1 \in 0..(n - 1)
      BY <1>3
    <3> HIDE DEF walk
    <3>3. CASE k = n
      BY <1>5, <2>4, <3>3
    <3>4. CASE k \in 0..(n - 1)
      BY <2>3, <2>4, <3>2, <3>4
    <3> QED
      BY <3>1, <3>3, <3>4
  <2>6. walk = [k \in 0..n |-> walk[k]]
    OBVIOUS
  <2> HIDE DEF walk
  <2>7. IsWalk(entries, leaf, walk, n)
    BY <2>5, <2>6 DEF IsWalk
  <2> QED
    BY <1>3, <2>7
<1> QED
  BY <1>4, <1>5

LEMMA PathType ==
  ASSUME NEW entries \in Seq(Entry), NEW leaf
  PROVE  /\ Path(entries, leaf) \in Seq(Entry)
         /\ ToSet(Path(entries, leaf)) \subseteq ToSet(entries)
         /\ IdsOf(Path(entries, leaf)) \subseteq IdsOf(entries)
<1> DEFINE last == Len(entries)
           walk == CHOOSE f : IsWalk(entries, leaf, f, last)
           Good(path) == path \in Seq(Entry) /\ ToSet(path) \subseteq ToSet(entries)
           T == {n \in 0..last : ~Good(walk[n])}
<1>0. last \in Nat
  OBVIOUS
<1>1. IsWalk(entries, leaf, walk, last)
  BY <1>0, WalkExists
<1>2. Path(entries, leaf) = walk[last]
  BY DEF Path, IsWalk, WalkStart, WalkOn
<1> HIDE DEF walk
<1>3. \A n \in 0..last : walk[n] = IF n = 0 THEN WalkStart(entries, leaf)
                                   ELSE WalkOn(entries, walk[n - 1])
  BY <1>1 DEF IsWalk
<1>4. Good(WalkStart(entries, leaf))
  <2>1. CASE leaf \in IdsOf(entries)
    <3>1. EntryOf(entries, leaf) \in ToSet(entries) /\ EntryOf(entries, leaf) \in Entry
      BY <2>1, SetOfEntries
    <3>2. \A e \in Entry : <<e>> \in Seq(Entry) /\ ToSet(<<e>>) = {e}
      BY DEF ToSet
    <3> QED
      BY <2>1, <3>1, <3>2 DEF WalkStart
  <2>2. CASE leaf \notin IdsOf(entries)
    <3>1. <<>> \in Seq(Entry) /\ ToSet(<<>>) = {}
      BY DEF ToSet
    <3> QED
      BY <2>2, <3>1 DEF WalkStart
  <2> QED
    BY <2>1, <2>2
<1>5. ASSUME NEW path, Good(path)
      PROVE  Good(WalkOn(entries, path))
  <2>1. CASE path # <<>> /\ Head(path).parent \in IdsOf(entries)
    <3>1. PICK e \in Entry : e = EntryOf(entries, Head(path).parent) /\ e \in ToSet(entries)
      BY <2>1, SetOfEntries
    <3>2. PICK s : s = <<e>>
      OBVIOUS
    <3>3. s \in Seq(Entry) /\ path \in Seq(Entry)
      BY <1>5, <3>2
    <3>4. ToSet(s) = {e}
      BY <3>2 DEF ToSet
    <3>5. s \o path \in Seq(Entry) /\ ToSet(s \o path) = ToSet(s) \cup ToSet(path)
      BY ONLY <3>3, SetOfJoined
    <3>6. WalkOn(entries, path) = s \o path
      BY <2>1, <3>1, <3>2 DEF WalkOn
    <3> QED
      BY ONLY <1>5, <3>1, <3>4, <3>5, <3>6
  <2>2. CASE ~(path # <<>> /\ Head(path).parent \in IdsOf(entries))
    BY <1>5, <2>2 DEF WalkOn
  <2> QED
    BY <2>1, <2>2
<1>6. T = {}
  <2> SUFFICES ASSUME T # {} PROVE FALSE
    OBVIOUS
  <2>1. PICK n \in T : \A k \in T : n <= k
    <3>1. T \in SUBSET Nat
      BY <1>0
    <3> HIDE DEF T
    <3> QED
      BY <3>1, LeastMember
  <2>2. n \in 0..last /\ ~Good(walk[n])
    OBVIOUS
  <2> HIDE DEF Good
  <2>3. n # 0
    BY <1>3, <1>4, <2>2
  <2>4. n - 1 \in 0..last /\ ~(n <= n - 1)
    BY <1>0, <2>2, <2>3
  <2>5. Good(walk[n - 1])
    BY <2>1, <2>4
  <2> QED
    BY <1>3, <1>5, <2>2, <2>3, <2>5
<1>7. Good(Path(entries, leaf))
  BY <1>0, <1>2, <1>6
<1> QED
  BY <1>7 DEF IdsOf

-----------------------------------------------------------------------------
(* The entries of a fork: those of a path without labels, then new labels. *)

LEMMA ChainedType ==
  ASSUME NEW entries \in Seq(Entry), NEW root \in 0..MaxEntries
  PROVE  /\ Chained(entries, root) \in Seq(Entry)
         /\ Len(Chained(entries, root)) = Len(entries)
         /\ \A k \in 1..Len(entries) :
              Chained(entries, root)[k].id = entries[k].id
              /\ Chained(entries, root)[k].ref = entries[k].ref
<1> DEFINE parent(k) == IF k = 1 THEN root ELSE entries[k - 1].id
<1>0. Len(entries) \in Nat /\ DOMAIN entries = 1..Len(entries)
  OBVIOUS
<1>1. ASSUME NEW k \in 1..Len(entries)
      PROVE  /\ entries[k] \in Entry /\ parent(k) \in 0..MaxEntries
  <2>1. MaxEntries \in Nat
    BY SessionFileAssumption
  <2>2. k = 1 \/ k - 1 \in 1..Len(entries)
    BY <1>0
  <2>3. k # 1 => entries[k - 1].id \in 1..MaxEntries
    <3>1. k # 1 => entries[k - 1] \in Entry
      BY <2>2
    <3> QED
      BY <3>1 DEF Entry
  <2> QED
    BY <2>1, <2>3
<1>2. \A k \in 1..Len(entries) :
        /\ [entries[k] EXCEPT !.parent = parent(k)] \in Entry
        /\ [entries[k] EXCEPT !.parent = parent(k)].id = entries[k].id
        /\ [entries[k] EXCEPT !.parent = parent(k)].ref = entries[k].ref
  <2> SUFFICES ASSUME NEW e \in Entry, NEW p \in 0..MaxEntries
               PROVE  /\ [e EXCEPT !.parent = p] \in Entry
                      /\ [e EXCEPT !.parent = p].id = e.id
                      /\ [e EXCEPT !.parent = p].ref = e.ref
    BY <1>1
  <2> QED
    BY DEF Entry
<1>3. Chained(entries, root) = [k \in 1..Len(entries) |-> [entries[k] EXCEPT !.parent = parent(k)]]
  BY <1>0 DEF Chained
<1> HIDE DEF parent
<1>4. Chained(entries, root) \in [1..Len(entries) -> Entry]
  BY <1>2, <1>3
<1>5. Chained(entries, root) \in Seq(Entry) /\ Len(Chained(entries, root)) = Len(entries)
  BY <1>0, <1>4
<1> QED
  BY <1>2, <1>3, <1>5

LEMMA WithoutLabelsType ==
  ASSUME NEW path \in Seq(Entry)
  PROVE  /\ WithoutLabels(path) \in Seq(Entry)
         /\ ToSet(WithoutLabels(path)) \subseteq ToSet(path)
         /\ IdsOf(WithoutLabels(path)) \subseteq IdsOf(path)
<1> DEFINE S == {k \in DOMAIN path : ~IsLabel(path[k])}
           kept == Ascending(S)
<1>1. S \in SUBSET Nat /\ S \subseteq 1..Len(path) /\ IsFiniteSet(S)
  <2>1. IsFiniteSet(1..Len(path)) /\ S \subseteq 1..Len(path)
    BY FS_Interval
  <2> QED
    BY <2>1, FS_Subset
<1>2. kept \in Seq(S)
  <2> HIDE DEF S
  <2> QED
    BY <1>1, AscendingType
<1>3. \A n \in 1..Len(kept) : kept[n] \in 1..Len(path) /\ path[kept[n]] \in Entry
  BY <1>1, <1>2
<1>4. DOMAIN kept = 1..Len(kept) /\ Len(kept) \in Nat
  BY <1>2
<1>5. WithoutLabels(path) = [n \in DOMAIN kept |-> path[kept[n]]]
  BY DEF WithoutLabels
<1> HIDE DEF kept
<1>9. WithoutLabels(path) \in [1..Len(kept) -> Entry]
  BY <1>3, <1>4, <1>5
<1>6. PICK t \in Seq(Entry) : t = WithoutLabels(path)
  BY <1>4, <1>9
<1>7. Len(t) = Len(kept) /\ \A n \in 1..Len(t) : t[n] = path[kept[n]]
  BY <1>4, <1>5, <1>6
<1>8. \A k \in 1..Len(t) : \E n \in 1..Len(path) : t[k] = path[n]
  BY <1>3, <1>7
<1> QED
  BY <1>6, <1>8, SetOfSome

LEMMA PathWithoutLabelsType ==
  ASSUME NEW path \in Seq(Entry)
  PROVE  /\ PathWithoutLabels(path) \in Seq(Entry)
         /\ IdsOf(PathWithoutLabels(path)) \subseteq IdsOf(path)
         /\ \A e \in ToSet(PathWithoutLabels(path)) : \E f \in ToSet(path) : e.ref = f.ref
<1>0. MaxEntries \in Nat /\ NoId \in 0..MaxEntries
  BY SessionFileAssumption DEF NoId
<1>1. PICK s \in Seq(Entry) : s = WithoutLabels(path)
  BY WithoutLabelsType
<1>2. PICK t : t = Chained(s, NoId)
  OBVIOUS
<1>3. /\ t \in Seq(Entry) /\ Len(t) = Len(s)
      /\ \A k \in 1..Len(s) : t[k].id = s[k].id /\ t[k].ref = s[k].ref
  BY <1>0, <1>2, ChainedType
<1>4. t = PathWithoutLabels(path)
  BY <1>1, <1>2 DEF PathWithoutLabels
<1>5. ToSet(s) \subseteq ToSet(path) /\ IdsOf(s) \subseteq IdsOf(path)
  BY <1>1, WithoutLabelsType
<1>6. ASSUME NEW e \in ToSet(t) PROVE \E f \in ToSet(path) : e.ref = f.ref /\ e.id = f.id
  <2>1. PICK k \in 1..Len(t) : t[k] = e
    BY <1>3, MemberAt
  <2>2. k \in 1..Len(s) /\ e.id = s[k].id /\ e.ref = s[k].ref
    BY <1>3, <2>1
  <2>3. s[k] \in ToSet(s)
    BY <2>2, MemberOf
  <2> QED
    BY <1>5, <2>2, <2>3
<1>7. IdsOf(t) \subseteq IdsOf(path)
  BY <1>6 DEF IdsOf
<1> QED
  BY <1>3, <1>4, <1>6, <1>7

(* The new labels have the ids from `next` on, one for each target.        *)
LEMMA BranchedType ==
  ASSUME NEW path \in Seq(Entry), NEW labels \in SUBSET (1..MaxEntries),
         NEW next \in Nat \ {0}, next + Cardinality(labels) - 1 <= MaxEntries,
         \A e \in ToSet(path) : e.id < next /\ e.ref < next,
         \A i \in labels : i < next
  PROVE  LET new == BranchedEntries(path, labels, next) IN
         \E n \in Nat :
           /\ new \in Seq(Entry) /\ n <= Cardinality(labels)
           /\ IdsOf(new) \subseteq IdsOf(path) \cup next..(next + n - 1)
           /\ next..(next + n - 1) \subseteq IdsOf(new)
           /\ \A e \in ToSet(new) : e.id < next + n /\ e.ref < next
<1> DEFINE kept == PathWithoutLabels(path)
           L == labels \cap IdsOf(kept)
           n == Cardinality(L)
           targets == Ascending(L)
           line(k) == [id |-> next + k - 1, parent |-> NoId, type |-> "label",
                       ref |-> targets[k], covers |-> {}]
           added == [k \in DOMAIN targets |-> line(k)]
           root == IF kept = <<>> THEN NoId ELSE Last(kept).id
<1>0. MaxEntries \in Nat /\ labels \subseteq Nat /\ IsFiniteSet(labels)
  <2>1. MaxEntries \in Nat
    BY SessionFileAssumption
  <2>2. IsFiniteSet(1..MaxEntries)
    BY <2>1, FS_Interval
  <2>3. IsFiniteSet(labels)
    BY <2>2, FS_Subset
  <2>4. \A i \in labels : i \in Nat
    OBVIOUS
  <2> QED
    BY <2>1, <2>3, <2>4
<1>1. /\ kept \in Seq(Entry) /\ IdsOf(kept) \subseteq IdsOf(path)
      /\ \A e \in ToSet(kept) : \E f \in ToSet(path) : e.ref = f.ref
  BY PathWithoutLabelsType
<1>2. L \in SUBSET Nat /\ IsFiniteSet(L) /\ n \in Nat /\ n <= Cardinality(labels)
  BY <1>0, FS_Subset, FS_CardinalityType
<1>3. targets \in [1..n -> L] /\ DOMAIN targets = 1..n
  BY <1>2, AscendingType
<1>4. L \subseteq 1..MaxEntries /\ \A i \in L : i < next
  OBVIOUS
<1> HIDE DEF L, targets, kept
<1>5. Cardinality(labels) \in Nat
  BY <1>0, FS_CardinalityType
<1>6. ASSUME NEW k \in 1..n
      PROVE  /\ line(k) \in Entry /\ line(k).id = next + k - 1 /\ line(k).ref = targets[k]
             /\ targets[k] \in Nat /\ targets[k] < next
  <2>1. targets[k] \in 1..MaxEntries /\ targets[k] < next
    BY <1>3, <1>4
  <2>2. next + k - 1 \in 1..MaxEntries
    BY <1>0, <1>2, <1>5
  <2>3. NoId \in 0..MaxEntries /\ targets[k] \in 0..MaxEntries
    BY <1>0, <2>1 DEF NoId
  <2>4. {} \in SUBSET (1..MaxEntries) /\ "label" \in SessionEntryTypes
    BY DEF SessionEntryTypes
  <2> QED
    BY <2>1, <2>2, <2>3, <2>4 DEF Entry
<1> HIDE DEF line, n
<1>7. added \in [1..n -> Entry]
  BY <1>3, <1>6
<1>8. PICK a \in Seq(Entry) : a = added /\ Len(a) = n /\ \A k \in 1..n : a[k] = line(k)
  <2>1. \A k \in 1..n : added[k] = line(k)
    BY <1>3
  <2> HIDE DEF added
  <2>2. added \in Seq(Entry) /\ Len(added) = n
    BY <1>2, <1>7
  <2> QED
    BY <2>1, <2>2
<1>9. root \in 0..MaxEntries
  <2>1. CASE kept = <<>>
    BY <1>0, <2>1 DEF NoId
  <2>2. CASE kept # <<>>
    <3>1. Len(kept) \in Nat /\ Len(kept) \in 1..Len(kept) /\ Last(kept) = kept[Len(kept)]
      BY <1>1, <2>2 DEF Last
    <3>2. Last(kept) \in Entry
      BY <1>1, <3>1
    <3> QED
      BY <2>2, <3>2 DEF Entry
  <2> QED
    BY <2>1, <2>2
<1> HIDE DEF added, root
<1>10. PICK c \in Seq(Entry) : /\ c = Chained(a, root) /\ Len(c) = n
                              /\ \A k \in 1..n : c[k].id = line(k).id /\ c[k].ref = line(k).ref
  BY <1>8, <1>9, ChainedType
<1>11. BranchedEntries(path, labels, next) = kept \o c
  BY <1>8, <1>10 DEF BranchedEntries, kept, L, targets, line, added, root
<1>12. /\ kept \o c \in Seq(Entry) /\ ToSet(kept \o c) = ToSet(kept) \cup ToSet(c)
       /\ IdsOf(kept \o c) = IdsOf(kept) \cup IdsOf(c)
  BY <1>1, SetOfJoined
<1>13. \A e \in ToSet(c) : e.id \in next..(next + n - 1) /\ e.ref < next
  <2> SUFFICES ASSUME NEW e \in ToSet(c)
               PROVE  e.id \in next..(next + n - 1) /\ e.ref < next
    OBVIOUS
  <2>1. PICK k \in 1..n : c[k] = e
    BY <1>10, MemberAt
  <2>2. e.id = next + k - 1 /\ e.ref = targets[k] /\ targets[k] < next
    BY <1>6, <1>10, <2>1
  <2> QED
    BY <1>2, <2>2
<1>14. next..(next + n - 1) \subseteq IdsOf(c)
  <2> SUFFICES ASSUME NEW i \in next..(next + n - 1) PROVE i \in IdsOf(c)
    OBVIOUS
  <2>1. i - next + 1 \in 1..n /\ next + (i - next + 1) - 1 = i
    BY <1>2
  <2>2. c[i - next + 1].id = i /\ i - next + 1 \in 1..Len(c)
    BY <1>6, <1>10, <2>1
  <2> QED
    BY <2>2, MemberOf
<1>15. IdsOf(c) \subseteq next..(next + n - 1)
  BY <1>13 DEF IdsOf
<1>16. \A e \in ToSet(kept) : e.id < next /\ e.ref < next
  <2>1. \A i \in IdsOf(path) : i < next
    BY DEF IdsOf
  <2>2. \A e \in ToSet(kept) : e.id \in IdsOf(kept)
    BY DEF IdsOf
  <2> QED
    BY <1>1, <2>1, <2>2
<1>17. \A e \in ToSet(kept) \cup ToSet(c) : e.id < next + n /\ e.ref < next
  <2>1. \A e \in ToSet(kept) : e.id \in Nat
    <3>1. ToSet(kept) \subseteq Entry
      BY <1>1, SetOfEntries
    <3> QED
      BY <3>1 DEF Entry
  <2>2. \A e \in ToSet(kept) : e.id < next + n
    BY <1>2, <1>16, <2>1
  <2>3. \A e \in ToSet(c) : e.id < next + n
    BY <1>2, <1>13
  <2> QED
    BY <1>13, <1>16, <2>2, <2>3
<1>18. /\ IdsOf(kept \o c) \subseteq IdsOf(path) \cup next..(next + n - 1)
       /\ next..(next + n - 1) \subseteq IdsOf(kept \o c)
  BY <1>1, <1>12, <1>14, <1>15
<1> QED
  BY <1>2, <1>11, <1>12, <1>17, <1>18

-----------------------------------------------------------------------------
(* Numbers and positions on a path.                                        *)

LEMMA GreatestNumber ==
  ASSUME NEW last \in Nat, NEW S \in SUBSET (0..last), S # {}
  PROVE  \E m \in S : \A k \in S : m >= k
<1> DEFINE T == {i \in 0..last : last - i \in S}
<1>1. T \in SUBSET Nat
  OBVIOUS
<1>2. T # {}
  <2>1. PICK k \in S : TRUE
    OBVIOUS
  <2>2. last - k \in 0..last /\ last - (last - k) = k
    OBVIOUS
  <2> QED
    BY <2>2
<1>3. PICK i \in T : \A j \in T : i <= j
  <2> HIDE DEF T
  <2> QED
    BY <1>1, <1>2, LeastMember
<1>4. last - i \in S /\ i \in 0..last
  OBVIOUS
<1>5. ASSUME NEW k \in S PROVE last - i >= k
  <2>1. k \in 0..last /\ last - k \in 0..last /\ last - (last - k) = k
    OBVIOUS
  <2>2. last - k \in T
    BY <2>1
  <2>3. i <= last - k
    BY <1>3, <2>2
  <2> QED
    BY <1>4, <2>1, <2>3
<1> QED
  BY <1>4, <1>5

LEMMA MaxNumber ==
  ASSUME NEW last \in Nat, NEW S \in SUBSET (0..last), S # {}
  PROVE  Max(S) \in S
<1>1. \E m \in S : \A k \in S : m >= k
  BY GreatestNumber
<1> QED
  BY <1>1 DEF Max

LEMMA LastCompactionType ==
  ASSUME NEW path \in Seq(Entry) PROVE LastCompaction(path) \in 0..Len(path)
<1> DEFINE I == {i \in 1..Len(path) : path[i].type = "compaction"}
<1>1. LastCompaction(path) = IF I # {} THEN Max(I) ELSE 0
  BY DEF LastCompaction, SelectLastInSeq
<1>2. Len(path) \in Nat /\ I \in SUBSET (0..Len(path)) /\ I \subseteq 1..Len(path)
  OBVIOUS
<1> HIDE DEF I
<1>3. I # {} => Max(I) \in I
  BY <1>2, MaxNumber
<1>4. I # {} => Max(I) \in 0..Len(path)
  BY <1>2, <1>3
<1>5. 0 \in 0..Len(path)
  BY <1>2
<1> QED
  BY ONLY <1>1, <1>4, <1>5

(* A compaction keeps from an entry of the path on.                        *)
LEMMA FirstKeptType ==
  ASSUME NEW path \in Seq(Entry), NEW cut \in CutPoints(path)
  PROVE  /\ BoundaryStart(path) \in 1..Len(path)
         /\ FirstKept(path, cut) \in 1..Len(path)
<1> DEFINE previous == LastCompaction(path)
           kept == PositionOf(path, path[previous].ref)
           start == BoundaryStart(path)
           stops == {k \in start..(cut - 1) : IsMessage(path[k])}
<1>0. Len(path) \in Nat /\ DOMAIN path = 1..Len(path)
  OBVIOUS
<1>1. previous \in 0..Len(path)
  BY LastCompactionType
<1>2. kept \in 0..Len(path)
  <2> SUFFICES ASSUME NEW i PROVE PositionOf(path, i) \in 0..Len(path)
    OBVIOUS
  <2>1. CASE i \in IdsOf(path)
    <3>1. PICK e \in ToSet(path) : e.id = i
      BY <2>1 DEF IdsOf
    <3>2. \E k \in DOMAIN path : path[k].id = i
      BY <3>1, MemberAt
    <3>3. PositionOf(path, i) \in DOMAIN path
      BY <2>1, <3>2 DEF PositionOf
    <3> QED
      BY <1>0, <3>3
  <2>2. CASE i \notin IdsOf(path)
    BY <1>0, <2>2 DEF PositionOf
  <2> QED
    BY <2>1, <2>2
<1>3. start = IF previous = 0 THEN 1 ELSE IF kept > 0 THEN kept ELSE previous + 1
  BY DEF BoundaryStart
<1> HIDE DEF previous, kept
<1>4. start \in Nat /\ start >= 1
  BY <1>0, <1>1, <1>2, <1>3
<1>5. cut \in start..Len(path)
  BY DEF CutPoints
<1>6. FirstKept(path, cut) = IF stops = {} THEN start ELSE Max(stops) + 1
  BY DEF FirstKept
<1> HIDE DEF start
<1>7. stops # {} => Max(stops) \in start..(cut - 1)
  <2>1. cut \in Nat /\ stops \in SUBSET (0..cut) /\ stops \subseteq start..(cut - 1)
    BY <1>0, <1>4, <1>5
  <2> HIDE DEF stops
  <2> QED
    BY <2>1, MaxNumber
<1> HIDE DEF stops
<1>8. start \in 1..Len(path)
  BY <1>0, <1>4, <1>5
<1>9. FirstKept(path, cut) \in 1..Len(path)
  BY <1>0, <1>4, <1>5, <1>6, <1>7
<1> QED
  BY <1>8, <1>9 DEF start

-----------------------------------------------------------------------------
(* SessionFile: the branches of a session, each of which is looked at as   *)
(* it grows.                                                               *)

Rising(s) == \A j, k \in DOMAIN s : j < k => s[j].id < s[k].id

(* An entry is the child of an older one, or of none.                      *)
OlderParents(entries) ==
  /\ Rising(entries)
  /\ \A e \in ToSet(entries) :
       e.parent # NoId => e.parent \in IdsOf(entries) /\ e.parent < e.id

IsBranch(entries, p) ==
  /\ p \in Seq(Entry) /\ p # <<>> /\ ToSet(p) \subseteq ToSet(entries)
  /\ p[1].parent = NoId
  /\ \A k \in 2..Len(p) : p[k].parent = p[k - 1].id

IsCompaction(e) == e.type = "compaction"

(* What a compaction keeps from is older than it.                          *)
RefsOlder(p) == \A m \in DOMAIN p : IsCompaction(p[m]) => p[m].ref < p[m].id

(* The last message in front of a tool result is its call or another       *)
(* result.                                                                 *)
AnswersCall(p, k) ==
  \E j \in 1..(k - 1) :
    /\ p[j].type \in {"assistant", "toolResult"}
    /\ \A n \in (j + 1)..(k - 1) : ~IsMessage(p[n])

ResultsFollow(p) == \A k \in DOMAIN p : p[k].type = "toolResult" => AnswersCall(p, k)

(* Between the entry q that a compaction keeps from and a tool result in   *)
(* front of position m there is a message.                                 *)
KeptWholeFrom(p, q, m) ==
  \A k \in q..(m - 1) : p[k].type = "toolResult" => \E x \in q..(k - 1) : IsMessage(p[x])

KeptWhole(p) ==
  \A m \in DOMAIN p, q \in DOMAIN p :
    IsCompaction(p[m]) /\ q < m /\ p[q].id = p[m].ref => KeptWholeFrom(p, q, m)

(* The compactions up to m keep from entries in front of them.             *)
RefsBefore(p, m) ==
  \A j \in 1..m : IsCompaction(p[j]) => \E q \in 1..(j - 1) : p[q].id = p[j].ref

CoveredBy(p, m, i) == \E j \in 1..m : IsCompaction(p[j]) /\ i \in p[j].covers

NothingDropped(p) ==
  \A m \in DOMAIN p : IsCompaction(p[m]) /\ RefsBefore(p, m) =>
    \A q \in 1..(m - 1), k \in 1..(m - 1) :
      p[q].id = p[m].ref /\ k < q /\ p[k].type \in Visible => CoveredBy(p, m, p[k].id)

Complete(p) ==
  Rising(p) /\ RefsOlder(p) /\ ResultsFollow(p) /\ KeptWhole(p) /\ NothingDropped(p)

AllComplete(entries) == \A p : IsBranch(entries, p) => Complete(p)

(* What an entry at the end of a path needs for it to stay complete.       *)
MayFollow(p, e) ==
  /\ e.type = "toolResult" =>
       \E j \in DOMAIN p :
         /\ p[j].type \in {"assistant", "toolResult"}
         /\ \A n \in (j + 1)..Len(p) : ~IsMessage(p[n])
  /\ IsCompaction(e) =>
       \A q \in DOMAIN p : p[q].id = e.ref =>
         /\ KeptWholeFrom(p, q, Len(p) + 1)
         /\ RefsBefore(p, Len(p)) =>
              \A k \in 1..(q - 1) : p[k].type \in Visible =>
                CoveredBy(p, Len(p), p[k].id) \/ p[k].id \in e.covers

LEMMA EntryNumbers ==
  ASSUME NEW e \in Entry
  PROVE  /\ e.id \in Nat /\ e.parent \in Nat /\ e.ref \in Nat /\ e.id # NoId
         /\ e.id \in 1..MaxEntries /\ e.covers \in SUBSET (1..MaxEntries)
<1>1. MaxEntries \in Nat
  BY SessionFileAssumption
<1> QED
  BY <1>1 DEF Entry, NoId

LEMMA NumbersAt ==
  ASSUME NEW s \in Seq(Entry), NEW k \in 1..Len(s)
  PROVE  s[k].id \in Nat /\ s[k].ref \in Nat /\ s[k].parent \in Nat /\ s[k].id # NoId
<1>1. s[k] \in Entry
  OBVIOUS
<1> QED
  BY <1>1, EntryNumbers

(* The ids of a rising sequence tell its positions.                        *)
LEMMA RisingOrder ==
  ASSUME NEW s \in Seq(Entry), Rising(s), NEW j \in 1..Len(s), NEW k \in 1..Len(s)
  PROVE  (s[j].id < s[k].id <=> j < k) /\ (s[j].id = s[k].id => j = k)
<1>1. s[j].id \in Nat /\ s[k].id \in Nat
  BY NumbersAt
<1>2. j < k => s[j].id < s[k].id
  BY DEF Rising
<1>3. k < j => s[k].id < s[j].id
  BY DEF Rising
<1>4. j < k \/ j = k \/ k < j
  OBVIOUS
<1> QED
  BY <1>1, <1>2, <1>3, <1>4

LEMMA PathByWalk ==
  ASSUME NEW entries \in Seq(Entry), NEW leaf
  PROVE  \E walk : /\ Path(entries, leaf) = walk[Len(entries)]
                   /\ \A n \in 0..Len(entries) :
                        walk[n] = IF n = 0 THEN WalkStart(entries, leaf)
                                  ELSE WalkOn(entries, walk[n - 1])
<1> DEFINE last == Len(entries)
           walk == CHOOSE f : IsWalk(entries, leaf, f, last)
<1>0. last \in Nat
  OBVIOUS
<1>1. IsWalk(entries, leaf, walk, last)
  BY <1>0, WalkExists
<1>2. Path(entries, leaf) = walk[last]
  BY DEF Path, IsWalk, WalkStart, WalkOn
<1> HIDE DEF walk
<1>3. \A n \in 0..last : walk[n] = IF n = 0 THEN WalkStart(entries, leaf)
                                   ELSE WalkOn(entries, walk[n - 1])
  BY <1>1 DEF IsWalk
<1> QED
  BY <1>2, <1>3

(* After n steps the walk stands at one of the first Len(entries) - n      *)
(* entries, or at a root.                                                  *)
WalkStands(entries, leaf, n, p) ==
  /\ p \in Seq(Entry) /\ p # <<>> /\ ToSet(p) \subseteq ToSet(entries)
  /\ p[Len(p)].id = leaf
  /\ \A k \in 2..Len(p) : p[k].parent = p[k - 1].id
  /\ p[1].parent = NoId \/ \E k \in 1..(Len(entries) - n) : entries[k] = p[1]

LEMMA WalkStarts ==
  ASSUME NEW entries \in Seq(Entry), NEW leaf \in IdsOf(entries)
  PROVE  WalkStands(entries, leaf, 0, WalkStart(entries, leaf))
<1>1. PICK e : e = EntryOf(entries, leaf)
  OBVIOUS
<1>2. e \in ToSet(entries) /\ e \in Entry /\ e.id = leaf
  BY <1>1, SetOfEntries
<1>3. \E k \in 1..Len(entries) : entries[k] = e
  BY <1>2, MemberAt
<1>4. PICK p : p = <<e>>
  OBVIOUS
<1>5. p \in Seq(Entry) /\ Len(p) = 1 /\ p[1] = e /\ p # <<>> /\ ToSet(p) = {e}
  BY <1>2, <1>4 DEF ToSet
<1>6. WalkStart(entries, leaf) = p
  BY <1>1, <1>4 DEF WalkStart
<1>7. p[Len(p)].id = leaf /\ ToSet(p) \subseteq ToSet(entries)
  BY <1>2, <1>5
<1>8. \A k \in 2..Len(p) : FALSE
  BY <1>5
<1>9. \E k \in 1..(Len(entries) - 0) : entries[k] = p[1]
  <2>1. Len(entries) - 0 = Len(entries)
    OBVIOUS
  <2> QED
    BY <1>3, <1>5, <2>1
<1> HIDE DEF WalkStart
<1> QED
  BY <1>5, <1>6, <1>7, <1>8, <1>9 DEF WalkStands

LEMMA WalkGoesOn ==
  ASSUME NEW entries \in Seq(Entry), OlderParents(entries), NEW leaf, NEW n \in Nat,
         NEW p, WalkStands(entries, leaf, n, p)
  PROVE  WalkStands(entries, leaf, n + 1, WalkOn(entries, p))
<1>0. Len(entries) \in Nat
  OBVIOUS
<1>1. p \in Seq(Entry) /\ Len(p) \in Nat /\ Len(p) >= 1 /\ Head(p) = p[1]
  BY DEF WalkStands
<1>2. p[1] \in ToSet(p) /\ p[1] \in Entry
  BY <1>1, MemberOf
<1>3. p[1] \in ToSet(entries)
  BY <1>2 DEF WalkStands
<1>4. CASE p[1].parent = NoId
  <2>1. NoId \notin IdsOf(entries)
    BY SetOfEntries DEF NoId
  <2>2. WalkOn(entries, p) = p
    BY <1>1, <1>4, <2>1 DEF WalkOn
  <2> QED
    BY <1>4, <2>2 DEF WalkStands
<1>5. CASE p[1].parent # NoId
  <2>1. p[1].parent \in IdsOf(entries) /\ p[1].parent < p[1].id
    BY <1>3, <1>5 DEF OlderParents
  <2>2. PICK e : e = EntryOf(entries, p[1].parent)
    OBVIOUS
  <2>3. e \in ToSet(entries) /\ e \in Entry /\ e.id = p[1].parent
    BY <2>1, <2>2, SetOfEntries
  <2>4. PICK j \in 1..Len(entries) : entries[j] = e
    BY <2>3, MemberAt
  <2>5. PICK k \in 1..(Len(entries) - n) : entries[k] = p[1]
    BY <1>5 DEF WalkStands
  <2>6. j < k
    <3>1. k \in 1..Len(entries) /\ entries[j].id < entries[k].id
      BY <1>0, <2>1, <2>3, <2>4, <2>5
    <3> QED
      BY <2>4, <3>1, RisingOrder DEF OlderParents
  <2>7. j \in 1..(Len(entries) - (n + 1))
    BY <1>0, <2>4, <2>5, <2>6
  <2>8. PICK s : s = <<e>>
    OBVIOUS
  <2>9. s \in Seq(Entry) /\ Len(s) = 1 /\ s[1] = e /\ ToSet(s) = {e}
    BY <2>3, <2>8 DEF ToSet
  <2>10. PICK q : q = s \o p
    OBVIOUS
  <2>11. WalkOn(entries, p) = q
    BY <1>1, <2>1, <2>2, <2>8, <2>10 DEF WalkOn, WalkStands
  <2>12. q \in Seq(Entry) /\ Len(q) = 1 + Len(p) /\ ToSet(q) = {e} \cup ToSet(p)
    <3>1. s \in Seq(Entry) /\ p \in Seq(Entry)
      BY <1>1, <2>9
    <3>2. s \o p \in Seq(Entry) /\ Len(s \o p) = Len(s) + Len(p) /\ ToSet(s \o p) = ToSet(s) \cup ToSet(p)
      BY ONLY <3>1, SetOfJoined
    <3> QED
      BY <2>9, <2>10, <3>2
  <2>13. q[1] = e /\ \A k1 \in 1..Len(p) : q[k1 + 1] = p[k1]
    <3>1. s \in Seq(Entry) /\ p \in Seq(Entry)
      BY <1>1, <2>9
    <3>2. /\ \A k1 \in 1..Len(s) : (s \o p)[k1] = s[k1]
          /\ \A k1 \in 1..Len(p) : (s \o p)[Len(s) + k1] = p[k1]
      BY ONLY <3>1
    <3>3. 1 \in 1..Len(s)
      BY <2>9
    <3>4. q[1] = e
      BY <2>9, <2>10, <3>2, <3>3
    <3>5. ASSUME NEW k1 \in 1..Len(p) PROVE q[k1 + 1] = p[k1]
      <4>1. Len(s) + k1 = k1 + 1
        BY <2>9
      <4>2. q[Len(s) + k1] = p[k1]
        BY <2>10, <3>2
      <4> QED
        BY ONLY <4>1, <4>2
    <3> QED
      BY <3>4, <3>5
  <2>14. q[Len(q)].id = leaf
    <3>1. Len(p) \in 1..Len(p) /\ q[Len(p) + 1] = p[Len(p)]
      BY <1>1, <2>13
    <3> QED
      BY <1>1, <2>12, <3>1 DEF WalkStands
  <2>15. \A k1 \in 2..Len(q) : q[k1].parent = q[k1 - 1].id
    <3> SUFFICES ASSUME NEW k1 \in 2..Len(q) PROVE q[k1].parent = q[k1 - 1].id
      OBVIOUS
    <3>1. k1 - 1 \in 1..Len(p) /\ q[k1] = p[k1 - 1]
      BY <1>1, <2>12, <2>13
    <3>2. CASE k1 = 2
      BY <2>3, <2>13, <3>1, <3>2
    <3>3. CASE k1 # 2
      <4>3. k1 - 1 \in 2..Len(p) /\ k1 - 1 - 1 \in 1..Len(p) /\ k1 - 1 - 1 + 1 = k1 - 1
        BY <1>1, <2>12, <3>3
      <4>1. k1 - 1 \in 2..Len(p) /\ k1 - 1 - 1 \in 1..Len(p) /\ q[k1 - 1] = p[k1 - 1 - 1]
        BY <2>13, <4>3
      <4>2. p[k1 - 1].parent = p[k1 - 1 - 1].id
        BY <4>1 DEF WalkStands
      <4> QED
        BY <3>1, <4>1, <4>2
    <3> QED
      BY <3>2, <3>3
  <2>16. q # <<>> /\ ToSet(q) \subseteq ToSet(entries)
    BY <1>1, <2>3, <2>12 DEF WalkStands
  <2> QED
    BY <2>4, <2>7, <2>11, <2>12, <2>13, <2>14, <2>15, <2>16 DEF WalkStands
<1> QED
  BY <1>4, <1>5

(* The path to an entry is a branch that ends in it.                       *)
LEMMA PathIsBranch ==
  ASSUME NEW entries \in Seq(Entry), OlderParents(entries), NEW leaf \in IdsOf(entries),
         NEW p, p = Path(entries, leaf)
  PROVE  IsBranch(entries, p) /\ p[Len(p)].id = leaf
<1> DEFINE last == Len(entries)
<1>0. last \in Nat
  OBVIOUS
<1>1. PICK walk :
        /\ p = walk[last]
        /\ \A n \in 0..last : walk[n] = IF n = 0 THEN WalkStart(entries, leaf)
                                         ELSE WalkOn(entries, walk[n - 1])
  BY PathByWalk
<1> DEFINE T == {n \in 0..last : ~WalkStands(entries, leaf, n, walk[n])}
<1>2. T = {}
  <2> SUFFICES ASSUME T # {} PROVE FALSE
    OBVIOUS
  <2>1. PICK n \in T : \A k \in T : n <= k
    <3>1. T \in SUBSET Nat
      BY <1>0
    <3> HIDE DEF T
    <3> QED
      BY <3>1, LeastMember
  <2>2. n \in 0..last /\ ~WalkStands(entries, leaf, n, walk[n])
    OBVIOUS
  <2>3. n # 0
    BY <1>1, <2>2, WalkStarts
  <2>4. n - 1 \in 0..last /\ n - 1 \in Nat /\ ~(n <= n - 1) /\ n - 1 + 1 = n
    BY <1>0, <2>2, <2>3
  <2>5. WalkStands(entries, leaf, n - 1, walk[n - 1])
    BY <2>1, <2>4
  <2>6. WalkStands(entries, leaf, n - 1 + 1, WalkOn(entries, walk[n - 1]))
    BY <2>4, <2>5, WalkGoesOn
  <2> QED
    BY <1>1, <2>2, <2>3, <2>4, <2>6
<1>3. WalkStands(entries, leaf, last, p)
  BY <1>0, <1>1, <1>2
<1>4. p[1].parent = NoId
  <2>1. 1..(last - last) = {}
    BY <1>0
  <2> QED
    BY <1>3, <2>1 DEF WalkStands
<1> QED
  BY <1>3, <1>4 DEF WalkStands, IsBranch

LEMMA PathOfNone ==
  ASSUME NEW entries \in Seq(Entry)
  PROVE  Path(entries, NoId) = <<>>
<1> DEFINE last == Len(entries)
<1>0. last \in Nat
  OBVIOUS
<1>1. PICK walk :
        /\ Path(entries, NoId) = walk[last]
        /\ \A n \in 0..last : walk[n] = IF n = 0 THEN WalkStart(entries, NoId)
                                         ELSE WalkOn(entries, walk[n - 1])
  BY PathByWalk
<1>2. WalkStart(entries, NoId) = <<>>
  <2>1. NoId \notin IdsOf(entries)
    BY SetOfEntries DEF NoId
  <2> QED
    BY <2>1 DEF WalkStart
<1>3. WalkOn(entries, <<>>) = <<>>
  BY DEF WalkOn
<1> DEFINE T == {n \in 0..last : walk[n] # <<>>}
<1>4. T = {}
  <2> SUFFICES ASSUME T # {} PROVE FALSE
    OBVIOUS
  <2>1. PICK n \in T : \A k \in T : n <= k
    <3>1. T \in SUBSET Nat
      BY <1>0
    <3> HIDE DEF T
    <3> QED
      BY <3>1, LeastMember
  <2>2. n \in 0..last /\ walk[n] # <<>>
    OBVIOUS
  <2>3. n # 0
    BY <1>1, <1>2, <2>2
  <2>4. n - 1 \in 0..last /\ ~(n <= n - 1)
    BY <1>0, <2>2, <2>3
  <2>5. walk[n - 1] = <<>>
    BY <2>1, <2>4
  <2> QED
    BY <1>1, <1>3, <2>2, <2>3, <2>5
<1> QED
  BY <1>0, <1>1, <1>4

LEMMA OneOfId ==
  ASSUME NEW entries \in Seq(Entry), Rising(entries),
         NEW e \in ToSet(entries), NEW f \in ToSet(entries), e.id = f.id
  PROVE  e = f
<1>1. PICK j \in 1..Len(entries) : entries[j] = e
  BY MemberAt
<1>2. PICK k \in 1..Len(entries) : entries[k] = f
  BY MemberAt
<1>3. entries[j].id = entries[k].id
  BY <1>1, <1>2
<1>4. j = k
  BY <1>3, RisingOrder
<1> QED
  BY <1>1, <1>2, <1>4

LEMMA BranchFields ==
  ASSUME NEW entries \in Seq(Entry), NEW p, IsBranch(entries, p)
  PROVE  /\ p \in Seq(Entry) /\ Len(p) \in Nat /\ Len(p) >= 1
         /\ \A k \in 1..Len(p) : p[k] \in ToSet(entries) /\ p[k] \in Entry
         /\ p[1].parent = NoId
         /\ \A k \in 2..Len(p) : k - 1 \in 1..Len(p) /\ p[k].parent = p[k - 1].id
                                 /\ p[k].parent # NoId
<1>1. p \in Seq(Entry) /\ Len(p) \in Nat /\ Len(p) >= 1
  BY DEF IsBranch
<1>2. \A k \in 1..Len(p) : p[k] \in ToSet(entries) /\ p[k] \in Entry
  BY <1>1, MemberOf DEF IsBranch
<1>3. ASSUME NEW k \in 2..Len(p)
      PROVE  k - 1 \in 1..Len(p) /\ p[k].parent = p[k - 1].id /\ p[k].parent # NoId
  <2>1. k - 1 \in 1..Len(p)
    BY <1>1
  <2>2. p[k - 1].id # NoId
    BY <1>1, <2>1, NumbersAt
  <2> QED
    BY <2>1, <2>2 DEF IsBranch
<1> QED
  BY <1>1, <1>2, <1>3 DEF IsBranch

(* Two branches with the same last entry agree from there back.            *)
LEMMA BranchesAgree ==
  ASSUME NEW entries \in Seq(Entry), OlderParents(entries),
         NEW p, IsBranch(entries, p), NEW q, IsBranch(entries, q),
         p[Len(p)].id = q[Len(q)].id,
         NEW d \in Nat, d < Len(p), d < Len(q)
  PROVE  p[Len(p) - d] = q[Len(q) - d]
<1>1. /\ Len(p) \in Nat /\ Len(q) \in Nat
      /\ \A k \in 1..Len(p) : p[k] \in ToSet(entries)
      /\ \A k \in 1..Len(q) : q[k] \in ToSet(entries)
      /\ \A k \in 2..Len(p) : p[k].parent = p[k - 1].id
      /\ \A k \in 2..Len(q) : q[k].parent = q[k - 1].id
  BY BranchFields
<1> DEFINE T == {i \in Nat : i < Len(p) /\ i < Len(q) /\ p[Len(p) - i] # q[Len(q) - i]}
<1>2. SUFFICES ASSUME T # {} PROVE FALSE
  OBVIOUS
<1>3. PICK i \in T : \A k \in T : i <= k
  <2>1. T \in SUBSET Nat
    OBVIOUS
  <2> HIDE DEF T
  <2> QED
    BY <1>2, <2>1, LeastMember
<1>4. i \in Nat /\ i < Len(p) /\ i < Len(q) /\ p[Len(p) - i] # q[Len(q) - i]
  OBVIOUS
<1>5. Len(p) - i \in 1..Len(p) /\ Len(q) - i \in 1..Len(q)
  BY <1>1, <1>4
<1>6. p[Len(p) - i].id = q[Len(q) - i].id
  <2>1. CASE i = 0
    <3>1. Len(p) - i = Len(p) /\ Len(q) - i = Len(q)
      BY <1>1, <2>1
    <3> QED
      BY <3>1
  <2>2. CASE i # 0
    <3>1. i - 1 \in Nat /\ i - 1 < Len(p) /\ i - 1 < Len(q) /\ ~(i <= i - 1)
      BY <1>1, <1>4, <2>2
    <3>2. p[Len(p) - (i - 1)] = q[Len(q) - (i - 1)]
      BY <1>3, <3>1
    <3>3. /\ Len(p) - (i - 1) \in 2..Len(p) /\ Len(p) - (i - 1) - 1 = Len(p) - i
          /\ Len(q) - (i - 1) \in 2..Len(q) /\ Len(q) - (i - 1) - 1 = Len(q) - i
      BY <1>1, <1>4, <2>2
    <3>4. /\ p[Len(p) - (i - 1)].parent = p[Len(p) - i].id
          /\ q[Len(q) - (i - 1)].parent = q[Len(q) - i].id
      BY <1>1, <3>3
    <3> QED
      BY <3>2, <3>4
  <2> QED
    BY <2>1, <2>2
<1>7. p[Len(p) - i] \in ToSet(entries) /\ q[Len(q) - i] \in ToSet(entries)
  BY <1>1, <1>5
<1>8. p[Len(p) - i] = q[Len(q) - i]
  BY <1>6, <1>7, OneOfId DEF OlderParents
<1> QED
  BY <1>4, <1>8

LEMMA BranchNotLonger ==
  ASSUME NEW entries \in Seq(Entry), OlderParents(entries),
         NEW p, IsBranch(entries, p), NEW q, IsBranch(entries, q),
         p[Len(p)].id = q[Len(q)].id
  PROVE  ~ (Len(p) < Len(q))
<1> SUFFICES ASSUME Len(p) < Len(q) PROVE FALSE
  OBVIOUS
<1>1. Len(p) \in Nat /\ Len(q) \in Nat /\ Len(p) >= 1
  BY BranchFields
<1>2. PICK d \in Nat : d = Len(p) - 1
  BY <1>1
<1>3. d < Len(p) /\ d < Len(q) /\ Len(p) - d = 1 /\ Len(q) - d \in 2..Len(q)
  BY <1>1, <1>2
<1>4. p[Len(p) - d] = q[Len(q) - d]
  BY <1>3, BranchesAgree
<1>5. p[Len(p) - d].parent = NoId
  BY <1>3, BranchFields
<1>6. q[Len(q) - d].parent # NoId
  BY <1>3, BranchFields
<1> QED
  BY <1>4, <1>5, <1>6

LEMMA BranchUnique ==
  ASSUME NEW entries \in Seq(Entry), OlderParents(entries),
         NEW p, IsBranch(entries, p), NEW q, IsBranch(entries, q),
         p[Len(p)].id = q[Len(q)].id
  PROVE  p = q
<1>1. p \in Seq(Entry) /\ q \in Seq(Entry) /\ Len(p) \in Nat /\ Len(q) \in Nat
  BY BranchFields
<1>2. ~ (Len(p) < Len(q)) /\ ~ (Len(q) < Len(p))
  BY BranchNotLonger
<1>3. Len(p) = Len(q)
  BY <1>1, <1>2
<1>4. ASSUME NEW k \in 1..Len(p) PROVE p[k] = q[k]
  <2>0. Len(p) - k \in Nat
    BY <1>1
  <2>1. PICK d \in Nat : d = Len(p) - k
    BY <2>0
  <2>2. d < Len(p) /\ d < Len(q) /\ Len(p) - d = k /\ Len(q) - d = k
    BY <1>1, <1>3, <2>1
  <2>3. p[Len(p) - d] = q[Len(q) - d]
    BY <2>2, BranchesAgree
  <2> QED
    BY <2>2, <2>3
<1> QED
  BY <1>1, <1>3, <1>4

LEMMA TreeAppend ==
  ASSUME NEW entries \in Seq(Entry), OlderParents(entries), NEW e \in Entry,
         \A i \in IdsOf(entries) : i < e.id,
         e.parent \in IdsOf(entries) \cup {NoId},
         NEW all, all = Append(entries, e)
  PROVE  OlderParents(all)
<1>1. /\ all \in Seq(Entry) /\ Len(all) = Len(entries) + 1 /\ Len(entries) \in Nat
      /\ ToSet(all) = ToSet(entries) \cup {e} /\ IdsOf(all) = IdsOf(entries) \cup {e.id}
  BY SetOfAppended
<1>2. all[Len(entries) + 1] = e /\ \A k \in 1..Len(entries) : all[k] = entries[k]
  OBVIOUS
<1>3. \A k \in 1..Len(entries) : entries[k].id < e.id
  BY MemberOf
<1>4. ASSUME NEW j \in 1..Len(all), NEW k \in 1..Len(all), j < k PROVE all[j].id < all[k].id
  <2>1. j \in 1..Len(entries)
    BY <1>1, <1>4
  <2>2. CASE k = Len(entries) + 1
    BY <1>2, <1>3, <2>1, <2>2
  <2>3. CASE k # Len(entries) + 1
    <3>1. k \in 1..Len(entries)
      BY <1>1, <2>3
    <3>2. entries[j].id < entries[k].id
      BY <1>4, <2>1, <3>1, RisingOrder DEF OlderParents
    <3> QED
      BY <1>2, <2>1, <3>1, <3>2
  <2> QED
    BY <2>2, <2>3
<1>5. DOMAIN all = 1..Len(all)
  BY <1>1
<1>6. Rising(all)
  BY <1>4, <1>5 DEF Rising
<1>7. \A f \in ToSet(all) : f.parent # NoId => f.parent \in IdsOf(all) /\ f.parent < f.id
  BY <1>1 DEF OlderParents
<1> QED
  BY <1>6, <1>7 DEF OlderParents

(* A branch of the session with a new entry is an old one, or an old one   *)
(* with the new entry at its end.                                          *)
LEMMA BranchOfAppended ==
  ASSUME NEW entries \in Seq(Entry), OlderParents(entries), NEW e \in Entry,
         \A i \in IdsOf(entries) : i < e.id,
         e.parent \in IdsOf(entries) \cup {NoId},
         NEW p, IsBranch(Append(entries, e), p), ~IsBranch(entries, p)
  PROVE  \E f : /\ f \in Seq(Entry) /\ p = Append(f, e)
                /\ \/ f = <<>> /\ e.parent = NoId
                   \/ IsBranch(entries, f) /\ f[Len(f)].id = e.parent
<1> DEFINE last == Len(p)
<1>1. PICK all : all = Append(entries, e)
  OBVIOUS
<1>2. all \in Seq(Entry) /\ ToSet(all) = ToSet(entries) \cup {e}
  BY <1>1, SetOfAppended
<1>3. /\ p \in Seq(Entry) /\ last \in Nat /\ last >= 1
      /\ \A k \in 1..last : p[k] \in ToSet(all) /\ p[k] \in Entry
      /\ p[1].parent = NoId
      /\ \A k \in 2..last : k - 1 \in 1..last /\ p[k].parent = p[k - 1].id /\ p[k].parent # NoId
  <2>1. all \in Seq(Entry) /\ IsBranch(all, p)
    BY <1>1, <1>2
  <2> QED
    BY ONLY <2>1, BranchFields
<1>4. e.id \in Nat /\ e.parent < e.id
  <2>1. e.id \in Nat /\ e.id # NoId
    BY EntryNumbers
  <2> QED
    BY <2>1 DEF NoId
<1>5. ASSUME NEW k \in 1..last, p[k] = e PROVE k = last
  <2> SUFFICES ASSUME k # last PROVE FALSE
    OBVIOUS
  <2>1. k + 1 \in 2..last /\ k + 1 - 1 = k /\ k + 1 \in 1..last
    BY <1>3
  <2>2. p[k + 1].parent = e.id /\ p[k + 1] \in ToSet(all) /\ p[k + 1].parent # NoId
    BY <1>3, <1>5, <2>1
  <2>3. CASE p[k + 1] = e
    BY <1>4, <2>2, <2>3
  <2>4. CASE p[k + 1] # e
    <3>1. p[k + 1] \in ToSet(entries)
      BY <1>2, <2>2, <2>4
    <3>2. p[k + 1].parent \in IdsOf(entries)
      BY <2>2, <3>1 DEF OlderParents
    <3> QED
      BY <1>4, <2>2, <3>2
  <2> QED
    BY <2>3, <2>4
<1>6. \E k \in 1..last : p[k] = e
  <2> SUFFICES ASSUME \A k \in 1..last : p[k] # e PROVE FALSE
    OBVIOUS
  <2>1. ASSUME NEW f \in ToSet(p) PROVE f \in ToSet(entries)
    <3>1. PICK k \in 1..last : p[k] = f
      BY <1>3, MemberAt
    <3> QED
      BY <1>2, <1>3, <3>1
  <2>2. IsBranch(entries, p)
    BY <1>1, <2>1 DEF IsBranch
  <2> QED
    BY <2>2
<1>7. p[last] = e
  BY <1>5, <1>6
<1>8. PICK f : f = [k \in 1..(last - 1) |-> p[k]]
  OBVIOUS
<1>9. f \in Seq(Entry) /\ Len(f) = last - 1 /\ \A k \in 1..(last - 1) : f[k] = p[k]
  <2>1. last - 1 \in Nat /\ \A k \in 1..(last - 1) : p[k] \in Entry
    BY <1>3
  <2>2. f \in [1..(last - 1) -> Entry]
    BY <1>8, <2>1
  <2> HIDE DEF last
  <2> QED
    BY <1>8, <2>1, <2>2
<1>10. p = Append(f, e)
  <2>1. Append(f, e) \in Seq(Entry) /\ Len(Append(f, e)) = last
    BY <1>3, <1>9
  <2>2. \A k \in 1..last : Append(f, e)[k] = p[k]
    BY <1>3, <1>7, <1>9
  <2> QED
    BY <1>3, <2>1, <2>2
<1>11. CASE last = 1
  <2>1. f = <<>> /\ e.parent = NoId
    BY <1>3, <1>7, <1>9, <1>11
  <2> QED
    BY <1>9, <1>10, <2>1
<1>12. CASE last # 1
  <2>1. Len(f) >= 1 /\ Len(f) \in 1..(last - 1) /\ last \in 2..last /\ 1 \in 1..(last - 1)
    BY <1>3, <1>9, <1>12
  <2>2. f[Len(f)].id = e.parent
    BY <1>3, <1>7, <1>9, <2>1
  <2>3. f[1].parent = NoId
    BY <1>3, <1>9, <2>1
  <2>4. ASSUME NEW k \in 2..Len(f) PROVE f[k].parent = f[k - 1].id
    <3>1. k \in 2..last /\ k \in 1..(last - 1) /\ k - 1 \in 1..(last - 1)
      BY <1>3, <1>9
    <3> QED
      BY <1>3, <1>9, <3>1
  <2>5. ASSUME NEW g \in ToSet(f) PROVE g \in ToSet(entries)
    <3>1. PICK k \in 1..Len(f) : f[k] = g
      BY <1>9, MemberAt
    <3>2. k \in 1..last /\ k # last /\ p[k] = g
      BY <1>3, <1>9, <3>1
    <3> QED
      BY <1>2, <1>3, <1>5, <3>2
  <2>6. f # <<>>
    BY <1>9, <2>1
  <2>7. IsBranch(entries, f)
    BY <1>9, <2>3, <2>4, <2>5, <2>6 DEF IsBranch
  <2> QED
    BY <1>9, <1>10, <2>2, <2>7
<1> QED
  BY <1>11, <1>12

-----------------------------------------------------------------------------
(* A path stays complete when an entry is appended that may follow it.      *)

(* A path with an entry behind it.                                         *)
IsAppended(all, p, e, n) ==
  /\ p \in Seq(Entry) /\ all \in Seq(Entry) /\ e \in Entry /\ n \in Nat /\ Len(p) = n
  /\ Len(all) = n + 1 /\ all[n + 1] = e /\ \A k \in 1..n : all[k] = p[k]
  /\ DOMAIN all = 1..(n + 1) /\ DOMAIN p = 1..n

LEMMA AppendRising ==
  ASSUME NEW all, NEW p, NEW e, NEW n, IsAppended(all, p, e, n), Rising(p),
         \A k \in 1..n : p[k].id < e.id
  PROVE  Rising(all)
<1>1. ASSUME NEW j \in 1..(n + 1), NEW k \in 1..(n + 1), j < k PROVE all[j].id < all[k].id
  <2>1. n \in Nat /\ j \in 1..n
    BY <1>1 DEF IsAppended
  <2>2. CASE k = n + 1
    BY <2>1, <2>2 DEF IsAppended
  <2>3. CASE k # n + 1
    <3>1. k \in 1..n
      BY <2>1, <2>3
    <3> QED
      BY <1>1, <2>1, <3>1 DEF IsAppended, Rising
  <2> QED
    BY <2>2, <2>3
<1> QED
  BY <1>1 DEF IsAppended, Rising

LEMMA AppendFollows ==
  ASSUME NEW all, NEW p, NEW e, NEW n, IsAppended(all, p, e, n), ResultsFollow(p),
         MayFollow(p, e)
  PROVE  ResultsFollow(all)
<1>0. n \in Nat
  BY DEF IsAppended
<1>1. ASSUME NEW k \in 1..(n + 1), all[k].type = "toolResult" PROVE AnswersCall(all, k)
  <2>1. CASE k = n + 1
    <3>1. PICK j \in 1..n : /\ p[j].type \in {"assistant", "toolResult"}
                            /\ \A x \in (j + 1)..n : ~IsMessage(p[x])
      BY <1>1, <2>1 DEF IsAppended, MayFollow
    <3>2. j \in 1..(k - 1) /\ all[j] = p[j]
      BY <1>0, <2>1 DEF IsAppended
    <3>3. ASSUME NEW x \in (j + 1)..(k - 1) PROVE ~IsMessage(all[x])
      <4>1. x \in (j + 1)..n /\ x \in 1..n
        BY <1>0, <2>1
      <4>2. all[x] = p[x]
        BY <4>1 DEF IsAppended
      <4> QED
        BY <3>1, <4>1, <4>2
    <3> QED
      BY <3>1, <3>2, <3>3 DEF AnswersCall
  <2>2. CASE k # n + 1
    <3>1. k \in 1..n
      BY <1>0, <2>2
    <3>2. AnswersCall(p, k)
      BY <1>1, <3>1 DEF IsAppended, ResultsFollow
    <3>3. \A x \in 1..(k - 1) : all[x] = p[x]
      BY <1>0, <3>1 DEF IsAppended
    <3>4. PICK j \in 1..(k - 1) : /\ p[j].type \in {"assistant", "toolResult"}
                                  /\ \A x \in (j + 1)..(k - 1) : ~IsMessage(p[x])
      BY <3>2 DEF AnswersCall
    <3>5. \A x \in (j + 1)..(k - 1) : x \in 1..(k - 1)
      OBVIOUS
    <3> QED
      BY <3>3, <3>4, <3>5 DEF AnswersCall
  <2> QED
    BY <2>1, <2>2
<1> QED
  BY <1>1 DEF IsAppended, ResultsFollow

(* Which message is in front of which entry, as far as position m, does not *)
(* change behind it.                                                       *)
LEMMA AppendLeaves ==
  ASSUME NEW all, NEW p, NEW e, NEW n, IsAppended(all, p, e, n),
         NEW m \in Nat, m <= n + 1
  PROVE  /\ \A q \in 1..(m - 1) : KeptWholeFrom(all, q, m) <=> KeptWholeFrom(p, q, m)
         /\ m <= n => /\ RefsBefore(all, m) <=> RefsBefore(p, m)
                      /\ \A i : CoveredBy(all, m, i) <=> CoveredBy(p, m, i)
<1>0. n \in Nat
  BY DEF IsAppended
<1>1. ASSUME NEW q \in 1..(m - 1)
      PROVE  KeptWholeFrom(all, q, m) <=> KeptWholeFrom(p, q, m)
  <2>1. \A k \in q..(m - 1) : all[k] = p[k]
    BY <1>0 DEF IsAppended
  <2>2. \A k \in q..(m - 1) : \A x \in q..(k - 1) : x \in q..(m - 1)
    BY <1>0
  <2> QED
    BY <2>1, <2>2 DEF KeptWholeFrom
<1>2. ASSUME m <= n PROVE RefsBefore(all, m) <=> RefsBefore(p, m)
  <2>1. \A k \in 1..m : all[k] = p[k]
    BY <1>0, <1>2 DEF IsAppended
  <2>2. \A k \in 1..m : \A x \in 1..(k - 1) : x \in 1..m
    OBVIOUS
  <2> QED
    BY <2>1, <2>2 DEF RefsBefore
<1>3. ASSUME m <= n, NEW i PROVE CoveredBy(all, m, i) <=> CoveredBy(p, m, i)
  <2>1. \A k \in 1..m : all[k] = p[k]
    BY <1>0, <1>3 DEF IsAppended
  <2> QED
    BY <2>1 DEF CoveredBy
<1> QED
  BY <1>1, <1>2, <1>3

LEMMA AppendWhole ==
  ASSUME NEW all, NEW p, NEW e, NEW n, IsAppended(all, p, e, n), KeptWhole(p),
         MayFollow(p, e)
  PROVE  KeptWhole(all)
<1>0. n \in Nat
  BY DEF IsAppended
<1>1. ASSUME NEW m \in 1..(n + 1), NEW q \in 1..(n + 1),
             IsCompaction(all[m]), q < m, all[q].id = all[m].ref
      PROVE  KeptWholeFrom(all, q, m)
  <2>1. q \in 1..n /\ all[q] = p[q] /\ q \in 1..(m - 1) /\ m \in Nat /\ m <= n + 1
    BY <1>0, <1>1 DEF IsAppended
  <2>2. KeptWholeFrom(p, q, m)
    <3>1. CASE m = n + 1
      <4>1. all[m] = e /\ Len(p) + 1 = m /\ q \in DOMAIN p
        BY <2>1, <3>1 DEF IsAppended
      <4> QED
        BY <1>1, <2>1, <4>1 DEF MayFollow
    <3>2. CASE m # n + 1
      <4>1. m \in 1..n /\ all[m] = p[m] /\ m \in DOMAIN p /\ q \in DOMAIN p
        BY <1>0, <2>1, <3>2 DEF IsAppended
      <4> QED
        BY <1>1, <2>1, <4>1 DEF KeptWhole
    <3> QED
      BY <3>1, <3>2
  <2> QED
    BY <2>1, <2>2, AppendLeaves
<1> QED
  BY <1>1 DEF IsAppended, KeptWhole

LEMMA AppendDrops ==
  ASSUME NEW all, NEW p, NEW e, NEW n, IsAppended(all, p, e, n), NothingDropped(p),
         MayFollow(p, e)
  PROVE  NothingDropped(all)
<1>0. n \in Nat
  BY DEF IsAppended
<1>1. ASSUME NEW m \in 1..(n + 1), IsCompaction(all[m]), RefsBefore(all, m),
             NEW q \in 1..(m - 1), NEW k \in 1..(m - 1),
             all[q].id = all[m].ref, k < q, all[k].type \in Visible
      PROVE  CoveredBy(all, m, all[k].id)
  <2>1. q \in 1..n /\ k \in 1..n /\ all[q] = p[q] /\ all[k] = p[k]
    BY <1>0 DEF IsAppended
  <2>2. CASE m = n + 1
    <3>1. all[m] = e /\ Len(p) = n /\ q \in DOMAIN p /\ k \in 1..(q - 1)
      BY <1>0, <1>1, <2>1, <2>2 DEF IsAppended
    <3>2. RefsBefore(all, n)
      <4>1. \A j \in 1..n : j \in 1..m
        BY <1>0, <2>2
      <4> QED
        BY <1>1, <4>1 DEF RefsBefore
    <3>3. RefsBefore(p, n)
      BY <1>0, <3>2, AppendLeaves
    <3>4. CoveredBy(p, n, p[k].id) \/ p[k].id \in e.covers
      BY <1>1, <2>1, <3>1, <3>3 DEF MayFollow
    <3>5. CASE CoveredBy(p, n, p[k].id)
      <4>1. CoveredBy(all, n, p[k].id)
        BY <1>0, <3>5, AppendLeaves
      <4>2. \A j \in 1..n : j \in 1..m
        BY <1>0, <2>2
      <4> QED
        BY <2>1, <4>1, <4>2 DEF CoveredBy
    <3>6. CASE p[k].id \in e.covers
      <4>1. m \in 1..m
        BY <1>0, <2>2
      <4> QED
        BY <1>1, <2>1, <3>1, <3>6, <4>1 DEF CoveredBy
    <3> QED
      BY <3>4, <3>5, <3>6
  <2>3. CASE m # n + 1
    <3>1. m \in 1..n /\ all[m] = p[m] /\ m \in DOMAIN p /\ m \in Nat /\ m <= n
      BY <1>0, <2>3 DEF IsAppended
    <3>2. RefsBefore(p, m)
      BY <1>0, <1>1, <3>1, AppendLeaves
    <3>3. CoveredBy(p, m, p[k].id)
      BY <1>1, <2>1, <3>1, <3>2 DEF NothingDropped
    <3>4. CoveredBy(all, m, p[k].id)
      BY <1>0, <3>1, <3>3, AppendLeaves
    <3> QED
      BY <2>1, <3>4
  <2> QED
    BY <2>2, <2>3
<1> QED
  BY <1>1 DEF IsAppended, NothingDropped

LEMMA CompleteAppend ==
  ASSUME NEW p \in Seq(Entry), Complete(p), NEW e \in Entry,
         \A k \in 1..Len(p) : p[k].id < e.id,
         IsCompaction(e) => e.ref < e.id, MayFollow(p, e),
         NEW all, all = Append(p, e)
  PROVE  Complete(all)
<1>1. PICK n : n = Len(p)
  OBVIOUS
<1>2. IsAppended(all, p, e, n)
  BY <1>1, SetOfAppended DEF IsAppended
<1>3. RefsOlder(all)
  <2>1. ASSUME NEW m \in 1..(n + 1), IsCompaction(all[m]) PROVE all[m].ref < all[m].id
    <3>1. m = n + 1 \/ m \in 1..n
      BY <1>1
    <3> QED
      BY <1>2, <2>1, <3>1 DEF Complete, RefsOlder, IsAppended
  <2> QED
    BY <1>2, <2>1 DEF RefsOlder, IsAppended
<1>4. Rising(all) /\ ResultsFollow(all) /\ KeptWhole(all) /\ NothingDropped(all)
  BY <1>1, <1>2, AppendRising, AppendFollows, AppendWhole, AppendDrops DEF Complete
<1> QED
  BY <1>3, <1>4 DEF Complete

LEMMA CompleteEmpty == ASSUME NEW p, p = <<>> PROVE p \in Seq(Entry) /\ Complete(p)
  BY DEF Complete, Rising, RefsOlder, ResultsFollow, KeptWhole, NothingDropped

(* Every branch of a session stays complete when an entry is appended that  *)
(* may follow the path to its parent.                                      *)
LEMMA AppendComplete ==
  ASSUME NEW entries \in Seq(Entry), OlderParents(entries), AllComplete(entries),
         NEW e \in Entry, \A i \in IdsOf(entries) : i < e.id,
         e.parent \in IdsOf(entries) \cup {NoId},
         IsCompaction(e) => e.ref < e.id,
         MayFollow(Path(entries, e.parent), e),
         NEW all, all = Append(entries, e)
  PROVE  OlderParents(all) /\ AllComplete(all)
<1>1. OlderParents(all)
  BY TreeAppend
<1>2. ASSUME NEW p, IsBranch(all, p) PROVE Complete(p)
  <2>1. CASE IsBranch(entries, p)
    BY <2>1 DEF AllComplete
  <2>2. CASE ~IsBranch(entries, p)
    <3>1. PICK f : /\ f \in Seq(Entry) /\ p = Append(f, e)
                   /\ \/ f = <<>> /\ e.parent = NoId
                      \/ IsBranch(entries, f) /\ f[Len(f)].id = e.parent
      BY <1>2, <2>2, BranchOfAppended
    <3>2. Complete(f) /\ f = Path(entries, e.parent) /\ \A k \in 1..Len(f) : f[k].id < e.id
      <4>1. CASE f = <<>> /\ e.parent = NoId
        <5>1. Complete(f) /\ f = Path(entries, e.parent)
          BY <4>1, CompleteEmpty, PathOfNone
        <5>2. Len(f) = 0
          BY <4>1
        <5> QED
          BY <5>1, <5>2
      <4>2. CASE IsBranch(entries, f) /\ f[Len(f)].id = e.parent
        <5>1. Complete(f)
          BY <4>2 DEF AllComplete
        <5>2. \A k \in 1..Len(f) : f[k] \in ToSet(entries)
          BY <4>2, BranchFields
        <5>3. \A k \in 1..Len(f) : f[k].id \in IdsOf(entries)
          BY <5>2 DEF IdsOf
        <5>4. Len(f) \in 1..Len(f)
          BY <4>2, BranchFields
        <5>5. e.parent \in IdsOf(entries)
          BY <4>2, <5>3, <5>4
        <5>6. PICK q : q = Path(entries, e.parent)
          OBVIOUS
        <5>7. IsBranch(entries, q) /\ q[Len(q)].id = e.parent
          BY <5>5, <5>6, PathIsBranch
        <5>8. f = q
          BY <4>2, <5>7, BranchUnique
        <5> QED
          BY <5>1, <5>3, <5>6, <5>8
      <4> QED
        BY <3>1, <4>1, <4>2
    <3> QED
      BY <3>1, <3>2, CompleteAppend
  <2> QED
    BY <2>1, <2>2
<1> QED
  BY <1>1, <1>2 DEF AllComplete

LEMMA GreatestIs ==
  ASSUME NEW last \in Nat, NEW S \in SUBSET (0..last), S # {}
  PROVE  Max(S) \in S /\ \A k \in S : Max(S) >= k
<1>1. \E m \in S : \A k \in S : m >= k
  BY GreatestNumber
<1> QED
  BY <1>1 DEF Max

LEMMA LastMessage ==
  ASSUME NEW path \in Seq(Entry), NEW last, last = SelectLastInSeq(path, IsMessage)
  PROVE  /\ last \in 0..Len(path) /\ (last # 0 => IsMessage(path[last]))
         /\ \A n \in (last + 1)..Len(path) : ~IsMessage(path[n])
<1> DEFINE I == {i \in 1..Len(path) : IsMessage(path[i])}
<1>1. last = IF I # {} THEN Max(I) ELSE 0
  BY DEF SelectLastInSeq
<1>2. Len(path) \in Nat /\ I \in SUBSET (0..Len(path))
  OBVIOUS
<1>3. I # {} => Max(I) \in I /\ \A k \in I : Max(I) >= k
  <2> HIDE DEF I
  <2> QED
    BY <1>2, GreatestIs
<1>4. CASE I = {}
  <2>1. last = 0
    BY <1>1, <1>4
  <2>2. \A n \in 1..Len(path) : ~IsMessage(path[n])
    BY <1>4
  <2> QED
    BY <1>2, <2>1, <2>2
<1>5. CASE I # {}
  <2>1. last \in I /\ \A k \in I : last >= k
    BY <1>1, <1>3, <1>5
  <2>2. last \in 1..Len(path) /\ IsMessage(path[last])
    BY <2>1
  <2>3. ASSUME NEW n \in (last + 1)..Len(path), IsMessage(path[n]) PROVE FALSE
    <3>1. n \in 1..Len(path) /\ ~(last >= n)
      BY <1>2, <2>2
    <3> QED
      BY <2>1, <2>3, <3>1
  <2>4. last \in 0..Len(path)
    BY <1>2, <2>2
  <2> QED
    BY <2>2, <2>3, <2>4
<1> QED
  BY <1>4, <1>5

LEMMA LastCompactionIs ==
  ASSUME NEW path \in Seq(Entry), NEW last, last = LastCompaction(path)
  PROVE  /\ last \in 0..Len(path) /\ (last # 0 => IsCompaction(path[last]))
         /\ \A n \in (last + 1)..Len(path) : ~IsCompaction(path[n])
<1> DEFINE I == {i \in 1..Len(path) : IsCompaction(path[i])}
<1>1. last = IF I # {} THEN Max(I) ELSE 0
  BY DEF LastCompaction, SelectLastInSeq, IsCompaction
<1>2. Len(path) \in Nat /\ I \in SUBSET (0..Len(path))
  OBVIOUS
<1>3. I # {} => Max(I) \in I /\ \A k \in I : Max(I) >= k
  <2> HIDE DEF I
  <2> QED
    BY <1>2, GreatestIs
<1>4. CASE I = {}
  <2>1. last = 0
    BY <1>1, <1>4
  <2>2. \A n \in 1..Len(path) : ~IsCompaction(path[n])
    BY <1>4
  <2> QED
    BY <1>2, <2>1, <2>2
<1>5. CASE I # {}
  <2>1. last \in I /\ \A k \in I : last >= k
    BY <1>1, <1>3, <1>5
  <2>2. last \in 1..Len(path) /\ IsCompaction(path[last])
    BY <2>1
  <2>3. ASSUME NEW n \in (last + 1)..Len(path), IsCompaction(path[n]) PROVE FALSE
    <3>1. n \in 1..Len(path) /\ ~(last >= n)
      BY <1>2, <2>2
    <3> QED
      BY <2>1, <2>3, <3>1
  <2>4. last \in 0..Len(path)
    BY <1>2, <2>2
  <2> QED
    BY <2>2, <2>3, <2>4
<1> QED
  BY <1>4, <1>5

LEMMA PositionIs ==
  ASSUME NEW p \in Seq(Entry), Rising(p), NEW k \in 1..Len(p)
  PROVE  PositionOf(p, p[k].id) = k
<1>1. p[k].id \in IdsOf(p) /\ DOMAIN p = 1..Len(p)
  BY MemberOf
<1>2. \A j \in 1..Len(p) : p[j].id = p[k].id => j = k
  BY RisingOrder
<1> QED
  BY <1>1, <1>2 DEF PositionOf

(* Every id of a path has a position.                                      *)
LEMMA IdAt ==
  ASSUME NEW p \in Seq(Entry), NEW i \in IdsOf(p)
  PROVE  \E k \in 1..Len(p) : p[k].id = i
<1>1. PICK e \in ToSet(p) : e.id = i
  BY DEF IdsOf
<1> QED
  BY <1>1, MemberAt

(* What a compaction on a complete path keeps from is in front of it.      *)
LEMMA RefsInFront ==
  ASSUME NEW p \in Seq(Entry), Complete(p),
         NEW m \in 1..Len(p), IsCompaction(p[m]), p[m].ref \in IdsOf(p)
  PROVE  \E q \in 1..(m - 1) : p[q].id = p[m].ref
<1>1. PICK q \in 1..Len(p) : p[q].id = p[m].ref
  BY IdAt
<1>2. p[q].id < p[m].id
  BY <1>1 DEF Complete, RefsOlder
<1>3. q < m
  BY <1>2, RisingOrder DEF Complete
<1> QED
  BY <1>1, <1>3

LEMMA SpanOf ==
  ASSUME NEW p \in Seq(Entry), NEW a \in 1..(Len(p) + 1), NEW z \in (a - 1)..Len(p),
         NEW s, s = SubSeq(p, a, z)
  PROVE  /\ s \in Seq(Entry) /\ Len(s) = z - a + 1
         /\ \A k \in 1..Len(s) : s[k] = p[a + k - 1]
<1>1. a \in Int /\ z \in Int /\ Len(p) \in Nat
  OBVIOUS
<1>2. \A k \in a..z : p[k] \in Entry
  <2>1. \A k \in a..z : k \in 1..Len(p)
    BY <1>1
  <2> QED
    BY <2>1
<1>3. /\ s \in Seq(Entry) /\ Len(s) = IF a <= z THEN z - a + 1 ELSE 0
      /\ \A k \in 1..(z - a + 1) : s[k] = p[a + k - 1]
  BY <1>1, <1>2, SubSeqProperties
<1>4. ~(a <= z) => z - a + 1 = 0
  BY <1>1
<1> QED
  BY <1>3, <1>4

(* The context of a path: its last compaction, what that kept, and the     *)
(* rest.                                                                   *)
Shows(context, p, last, q) ==
  /\ context \in Seq(Entry) /\ Len(context) = Len(p) - q + 1
  /\ context[1] = p[last]
  /\ \A k \in q..(last - 1) : context[k - q + 2] = p[k]
  /\ \A k \in (last + 1)..Len(p) : context[k - q + 1] = p[k]

LEMMA ContextShape ==
  ASSUME NEW p \in Seq(Entry), NEW last \in 1..Len(p), NEW q \in 1..(last - 1),
         NEW context,
         context = <<p[last]>> \o SubSeq(p, q, last - 1) \o SubSeq(p, last + 1, Len(p))
  PROVE  Shows(context, p, last, q)
<1>0. Len(p) \in Nat /\ p[last] \in Entry
  OBVIOUS
<1>1. PICK a, b, c : a = <<p[last]>> /\ b = SubSeq(p, q, last - 1)
                     /\ c = SubSeq(p, last + 1, Len(p))
  OBVIOUS
<1>2. a \in Seq(Entry) /\ Len(a) = 1 /\ a[1] = p[last]
  BY <1>0, <1>1
<1>3. b \in Seq(Entry) /\ Len(b) = last - q /\ \A k \in 1..(last - q) : b[k] = p[q + k - 1]
  <2>1. PICK z : z = last - 1
    OBVIOUS
  <2>2. q \in 1..(Len(p) + 1) /\ z \in (q - 1)..Len(p) /\ z - q + 1 = last - q
    BY <1>0, <2>1
  <2>3. b = SubSeq(p, q, z)
    BY <1>1, <2>1
  <2>4. b \in Seq(Entry) /\ Len(b) = z - q + 1 /\ \A k \in 1..Len(b) : b[k] = p[q + k - 1]
    BY <2>2, <2>3, SpanOf
  <2> QED
    BY <2>2, <2>4
<1>4. c \in Seq(Entry) /\ Len(c) = Len(p) - last
      /\ \A k \in 1..(Len(p) - last) : c[k] = p[last + k]
  <2>1. PICK x, z : x = last + 1 /\ z = Len(p)
    OBVIOUS
  <2>2. /\ x \in 1..(Len(p) + 1) /\ z \in (x - 1)..Len(p) /\ z - x + 1 = Len(p) - last
    BY <1>0, <2>1
  <2>3. c = SubSeq(p, x, z)
    BY <1>1, <2>1
  <2>4. c \in Seq(Entry) /\ Len(c) = z - x + 1 /\ \A k \in 1..Len(c) : c[k] = p[x + k - 1]
    BY <2>2, <2>3, SpanOf
  <2>5. \A k \in 1..(Len(p) - last) : x + k - 1 = last + k
    BY <1>0, <2>1
  <2> QED
    BY <2>2, <2>4, <2>5
<1>5. PICK d : d = a \o b
  OBVIOUS
<1>6. /\ d \in Seq(Entry) /\ Len(d) = 1 + (last - q)
      /\ d[1] = p[last] /\ \A k \in 1..(last - q) : d[k + 1] = p[q + k - 1]
  <2>1. a \in Seq(Entry) /\ b \in Seq(Entry)
    BY <1>2, <1>3
  <2>2. /\ a \o b \in Seq(Entry) /\ Len(a \o b) = Len(a) + Len(b)
        /\ \A k \in 1..Len(a) : (a \o b)[k] = a[k]
        /\ \A k \in 1..Len(b) : (a \o b)[Len(a) + k] = b[k]
    BY ONLY <2>1
  <2>3. d[1] = p[last]
    BY <1>2, <1>5, <2>2
  <2>4. ASSUME NEW k \in 1..(last - q) PROVE d[k + 1] = p[q + k - 1]
    <3>1. Len(a) + k = k + 1 /\ k \in 1..Len(b)
      BY <1>2, <1>3
    <3>2. d[Len(a) + k] = b[k]
      BY <1>5, <2>2, <3>1
    <3>3. b[k] = p[q + k - 1]
      BY <1>3
    <3> QED
      BY ONLY <3>1, <3>2, <3>3
  <2> QED
    BY <1>2, <1>3, <1>5, <2>2, <2>3, <2>4
<1>7. /\ context \in Seq(Entry) /\ Len(context) = Len(d) + Len(c)
      /\ \A k \in 1..Len(d) : context[k] = d[k]
      /\ \A k \in 1..Len(c) : context[Len(d) + k] = c[k]
  <2>1. d \in Seq(Entry) /\ c \in Seq(Entry)
    BY <1>4, <1>6
  <2>2. /\ d \o c \in Seq(Entry) /\ Len(d \o c) = Len(d) + Len(c)
        /\ \A k \in 1..Len(d) : (d \o c)[k] = d[k]
        /\ \A k \in 1..Len(c) : (d \o c)[Len(d) + k] = c[k]
    BY ONLY <2>1
  <2>3. context = d \o c
    BY <1>1, <1>5
  <2> QED
    BY <2>2, <2>3
<1>8. Len(context) = Len(p) - q + 1
  BY <1>0, <1>4, <1>6, <1>7
<1>9. context[1] = p[last]
  <2>1. 1 \in 1..Len(d)
    BY <1>6
  <2> QED
    BY <1>6, <1>7, <2>1
<1>10. ASSUME NEW k \in q..(last - 1) PROVE context[k - q + 2] = p[k]
  <2>1. PICK j \in 1..(last - q) : j = k - q + 1
    BY <1>0
  <2>2. k - q + 2 = j + 1 /\ q + j - 1 = k /\ j + 1 \in 1..Len(d)
    BY <1>0, <1>6, <2>1
  <2>3. d[j + 1] = p[q + j - 1]
    BY <1>6
  <2>4. context[j + 1] = d[j + 1]
    BY <1>7, <2>2
  <2> QED
    BY ONLY <2>2, <2>3, <2>4
<1>11. ASSUME NEW k \in (last + 1)..Len(p) PROVE context[k - q + 1] = p[k]
  <2>1. PICK j \in 1..(Len(p) - last) : j = k - last
    BY <1>0
  <2>2. k - q + 1 = Len(d) + j /\ last + j = k /\ j \in 1..Len(c)
    BY <1>0, <1>4, <1>6, <2>1
  <2>3. context[Len(d) + j] = c[j]
    BY <1>7, <2>2
  <2>4. c[j] = p[last + j]
    BY <1>4
  <2> QED
    BY ONLY <2>2, <2>3, <2>4
<1> QED
  BY <1>7, <1>8, <1>9, <1>10, <1>11 DEF Shows

-----------------------------------------------------------------------------
(* The context of a path that is complete.                                 *)

(* What ContextComplete says of a path and its context.                    *)
ShownOrCovered(p, context) ==
  \A e \in ToSet(p) : e.type \in Visible =>
    \/ e \in ToSet(context)
    \/ \E c \in {d \in ToSet(p) : d.type = "compaction"} : e.id \in c.covers

LEMMA RefsAllBefore ==
  ASSUME NEW p \in Seq(Entry), Complete(p),
         \A e \in ToSet(p) : IsCompaction(e) => e.ref \in IdsOf(p),
         NEW m \in 0..Len(p)
  PROVE  RefsBefore(p, m)
<1>1. ASSUME NEW j \in 1..m, IsCompaction(p[j]) PROVE \E q \in 1..(j - 1) : p[q].id = p[j].ref
  <2>1. j \in 1..Len(p)
    OBVIOUS
  <2>2. p[j] \in ToSet(p)
    BY <2>1, MemberOf
  <2> QED
    BY <1>1, <2>1, <2>2, RefsInFront
<1> QED
  BY <1>1 DEF RefsBefore

LEMMA CompleteIsShown ==
  ASSUME NEW p \in Seq(Entry), Complete(p),
         \A e \in ToSet(p) : IsCompaction(e) => e.ref \in IdsOf(p),
         NEW last \in 1..Len(p), IsCompaction(p[last]),
         NEW q \in 1..(last - 1), p[q].id = p[last].ref,
         NEW context, Shows(context, p, last, q)
  PROVE  ShownOrCovered(p, context)
<1>0. Len(p) \in Nat /\ context \in Seq(Entry) /\ Len(context) = Len(p) - q + 1
  BY DEF Shows
<1>1. ASSUME NEW k \in 1..Len(p), p[k].type \in Visible
      PROVE  \/ p[k] \in ToSet(context)
             \/ \E c \in {d \in ToSet(p) : d.type = "compaction"} : p[k].id \in c.covers
  <2>1. CASE k > last
    <3>1. k - q + 1 \in 1..Len(context) /\ k \in (last + 1)..Len(p)
      BY <1>0, <2>1
    <3>2. context[k - q + 1] = p[k]
      BY <3>1 DEF Shows
    <3> QED
      BY <1>0, <3>1, <3>2, MemberOf
  <2>2. CASE q <= k /\ k < last
    <3>1. k - q + 2 \in 1..Len(context) /\ k \in q..(last - 1)
      BY <1>0, <2>2
    <3>2. context[k - q + 2] = p[k]
      BY <3>1 DEF Shows
    <3> QED
      BY <1>0, <3>1, <3>2, MemberOf
  <2>3. k # last
    BY <1>1 DEF IsCompaction, Visible
  <2>4. CASE k < q
    <3>1. RefsBefore(p, last)
      BY RefsAllBefore
    <3>2. k \in 1..(last - 1) /\ last \in DOMAIN p
      BY <1>0, <2>4
    <3>3. CoveredBy(p, last, p[k].id)
      BY <1>1, <2>4, <3>1, <3>2 DEF Complete, NothingDropped
    <3>4. PICK j \in 1..last : IsCompaction(p[j]) /\ p[k].id \in p[j].covers
      BY <3>3 DEF CoveredBy
    <3>5. j \in 1..Len(p)
      BY <1>0
    <3>6. p[j] \in ToSet(p)
      BY <3>5, MemberOf
    <3> QED
      BY <3>4, <3>6 DEF IsCompaction
  <2> QED
    BY <1>0, <2>1, <2>2, <2>3, <2>4
<1>2. ASSUME NEW e \in ToSet(p), e.type \in Visible
      PROVE  \/ e \in ToSet(context)
             \/ \E c \in {d \in ToSet(p) : d.type = "compaction"} : e.id \in c.covers
  <2>1. PICK k \in 1..Len(p) : p[k] = e
    BY MemberAt
  <2> QED
    BY <1>1, <1>2, <2>1
<1> QED
  BY <1>2 DEF ShownOrCovered

LEMMA CompleteAnswers ==
  ASSUME NEW p \in Seq(Entry), Complete(p),
         NEW last \in 1..Len(p), IsCompaction(p[last]),
         NEW q \in 1..(last - 1), p[q].id = p[last].ref,
         NEW context, Shows(context, p, last, q)
  PROVE  ResultsFollow(context)
<1>0. /\ Len(p) \in Nat /\ context \in Seq(Entry) /\ Len(context) = Len(p) - q + 1
      /\ DOMAIN context = 1..Len(context) /\ DOMAIN p = 1..Len(p)
  BY DEF Shows
<1>1. IsMessage(p[last]) /\ p[last].type \notin {"assistant", "toolResult"}
  BY DEF IsMessage, IsCompaction
<1>2. SUFFICES ASSUME NEW i \in 1..Len(context), context[i].type = "toolResult"
               PROVE  AnswersCall(context, i)
  BY <1>0 DEF ResultsFollow
<1>3. CASE i = 1
  BY <1>1, <1>2, <1>3 DEF Shows
<1>4. CASE i \in 2..(last - q + 1)
  <2>1. PICK k : k = q + i - 2
    OBVIOUS
  <2>2. k \in q..(last - 1) /\ k - q + 2 = i /\ k \in 1..Len(p)
    BY <1>0, <1>4, <2>1
  <2>3. context[i] = p[k]
    BY <2>2 DEF Shows
  <2>4. PICK j \in 1..(k - 1) : /\ p[j].type \in {"assistant", "toolResult"}
                                /\ \A n \in (j + 1)..(k - 1) : ~IsMessage(p[n])
    <3>1. AnswersCall(p, k)
      BY <1>0, <1>2, <2>2, <2>3 DEF Complete, ResultsFollow
    <3> QED
      BY <3>1 DEF AnswersCall
  <2>5. PICK x \in q..(k - 1) : IsMessage(p[x])
    <3>1. q \in DOMAIN p /\ last \in DOMAIN p /\ q < last
      BY <1>0
    <3>2. KeptWholeFrom(p, q, last)
      BY <3>1 DEF Complete, KeptWhole
    <3> QED
      BY <1>2, <2>2, <2>3, <3>2 DEF KeptWholeFrom
  <2>6. j \in q..(k - 1)
    <3>1. ~(j < q)
      BY <2>2, <2>4, <2>5
    <3> QED
      BY <2>2, <3>1
  <2>7. PICK h : h = j - q + 2
    OBVIOUS
  <2>8. h \in 1..(i - 1) /\ j \in q..(last - 1)
    BY <2>2, <2>6, <2>7
  <2>9. context[h] = p[j]
    BY <2>7, <2>8 DEF Shows
  <2>10. ASSUME NEW n \in (h + 1)..(i - 1) PROVE ~IsMessage(context[n])
    <3>1. PICK y : y = q + n - 2
      OBVIOUS
    <3>2. y \in (j + 1)..(k - 1) /\ y \in q..(last - 1) /\ y - q + 2 = n
      BY <2>2, <2>6, <2>7, <2>8, <3>1
    <3>3. context[n] = p[y]
      BY <3>2 DEF Shows
    <3> QED
      BY <2>4, <3>2, <3>3
  <2> QED
    BY <2>4, <2>8, <2>9, <2>10 DEF AnswersCall
<1>5. CASE i > last - q + 1
  <2>1. PICK k : k = q + i - 1
    OBVIOUS
  <2>2. k \in (last + 1)..Len(p) /\ k - q + 1 = i /\ k \in 1..Len(p)
    BY <1>0, <1>5, <2>1
  <2>3. context[i] = p[k]
    BY <2>2 DEF Shows
  <2>4. PICK j \in 1..(k - 1) : /\ p[j].type \in {"assistant", "toolResult"}
                                /\ \A n \in (j + 1)..(k - 1) : ~IsMessage(p[n])
    <3>1. AnswersCall(p, k)
      BY <1>0, <1>2, <2>2, <2>3 DEF Complete, ResultsFollow
    <3> QED
      BY <3>1 DEF AnswersCall
  <2>5. j \in (last + 1)..(k - 1)
    <3>1. j # last
      BY <1>1, <2>4
    <3>2. ~(j < last)
      <4>1. j < last => last \in (j + 1)..(k - 1)
        BY <1>0, <2>2
      <4> QED
        BY <1>1, <2>4, <4>1
    <3> QED
      BY <2>2, <3>1, <3>2
  <2>6. PICK h : h = j - q + 1
    OBVIOUS
  <2>7. h \in 1..(i - 1) /\ j \in (last + 1)..Len(p)
    BY <2>2, <2>5, <2>6
  <2>8. context[h] = p[j]
    BY <2>6, <2>7 DEF Shows
  <2>9. ASSUME NEW n \in (h + 1)..(i - 1) PROVE ~IsMessage(context[n])
    <3>1. PICK y : y = q + n - 1
      OBVIOUS
    <3>2. y \in (j + 1)..(k - 1) /\ y \in (last + 1)..Len(p) /\ y - q + 1 = n
      BY <2>2, <2>5, <2>6, <2>7, <3>1
    <3>3. context[n] = p[y]
      BY <3>2 DEF Shows
    <3> QED
      BY <2>4, <3>2, <3>3
  <2> QED
    BY <2>4, <2>7, <2>8, <2>9 DEF AnswersCall
<1> QED
  BY <1>0, <1>3, <1>4, <1>5

(* The context of a complete path.                                         *)
LEMMA CompleteShows ==
  ASSUME NEW p \in Seq(Entry), Complete(p),
         \A e \in ToSet(p) : IsCompaction(e) => e.ref \in IdsOf(p),
         NEW context, context = ContextOf(p)
  PROVE  ShownOrCovered(p, context) /\ ResultsFollow(context)
<1>1. PICK last : last = LastCompaction(p)
  OBVIOUS
<1>2. last \in 0..Len(p) /\ (last # 0 => IsCompaction(p[last]))
  BY <1>1, LastCompactionIs
<1>3. CASE last = 0
  <2>1. context = p
    BY <1>1, <1>3 DEF ContextOf
  <2> QED
    BY <2>1 DEF ShownOrCovered, Complete
<1>4. CASE last # 0
  <2>1. last \in 1..Len(p) /\ IsCompaction(p[last])
    BY <1>2, <1>4
  <2>2. p[last] \in ToSet(p)
    BY <2>1, MemberOf
  <2>3. PICK q \in 1..(last - 1) : p[q].id = p[last].ref
    BY <2>1, <2>2, RefsInFront
  <2>4. q \in 1..Len(p)
    BY <2>1
  <2>5. PositionOf(p, p[last].ref) = q
    BY <2>3, <2>4, PositionIs DEF Complete
  <2>6. context = <<p[last]>> \o SubSeq(p, q, last - 1) \o SubSeq(p, last + 1, Len(p))
    BY <1>1, <1>4, <2>5 DEF ContextOf
  <2>7. Shows(context, p, last, q)
    BY <2>1, <2>6, ContextShape
  <2> QED
    BY <2>1, <2>3, <2>7, CompleteIsShown, CompleteAnswers
<1> QED
  BY <1>3, <1>4

-----------------------------------------------------------------------------
(* What the operations append may follow the path.                         *)

(* No message is between the entry a compaction keeps from and its cut     *)
(* point.                                                                  *)
LEMMA FirstKeptIs ==
  ASSUME NEW path \in Seq(Entry), NEW cut \in CutPoints(path),
         NEW first, first = FirstKept(path, cut)
  PROVE  /\ cut \in 1..Len(path) /\ path[cut].type \in Visible \ {"toolResult"}
         /\ first \in BoundaryStart(path)..cut
         /\ \A x \in first..(cut - 1) : ~IsMessage(path[x])
<1>1. PICK start : start = BoundaryStart(path)
  OBVIOUS
<1>2. start \in 1..Len(path) /\ first \in 1..Len(path) /\ Len(path) \in Nat
  BY <1>1, FirstKeptType
<1>3. cut \in start..Len(path) /\ path[cut].type \in Visible \ {"toolResult"}
  BY <1>1 DEF CutPoints
<1> DEFINE stops == {k \in start..(cut - 1) : IsMessage(path[k])}
<1>4. first = IF stops = {} THEN start ELSE Max(stops) + 1
  BY <1>1 DEF FirstKept
<1>5. stops # {} => Max(stops) \in stops /\ \A k \in stops : Max(stops) >= k
  <2>1. cut \in Nat /\ stops \in SUBSET (0..cut)
    BY <1>2, <1>3
  <2> HIDE DEF stops
  <2> QED
    BY <2>1, GreatestIs
<1>6. CASE stops = {}
  <2>1. first = start
    BY <1>4, <1>6
  <2>2. \A x \in start..(cut - 1) : ~IsMessage(path[x])
    BY <1>6
  <2> QED
    BY <1>1, <1>2, <1>3, <2>1, <2>2
<1>7. CASE stops # {}
  <2>1. PICK last : last = Max(stops)
    OBVIOUS
  <2>2. first = last + 1 /\ last \in stops /\ \A k \in stops : last >= k
    BY <1>4, <1>5, <1>7, <2>1
  <2>3. last \in start..(cut - 1)
    BY <2>2
  <2>4. ASSUME NEW x \in first..(cut - 1), IsMessage(path[x]) PROVE FALSE
    <3>1. x \in start..(cut - 1) /\ ~(last >= x)
      BY <1>2, <1>3, <2>2, <2>3
    <3>2. x \in stops
      BY <2>4, <3>1
    <3> QED
      BY <2>2, <3>1, <3>2
  <2>5. first \in start..cut
    BY <1>2, <1>3, <2>2, <2>3
  <2> QED
    BY <1>1, <1>2, <1>3, <2>4, <2>5
<1> QED
  BY <1>6, <1>7

(* The span of a compaction begins where the last one kept from.           *)
LEMMA SpanBegins ==
  ASSUME NEW p \in Seq(Entry), Complete(p), RefsBefore(p, Len(p)),
         NEW k \in 1..Len(p), k < BoundaryStart(p), p[k].type \in Visible
  PROVE  CoveredBy(p, Len(p), p[k].id)
<1>0. Len(p) \in Nat /\ DOMAIN p = 1..Len(p)
  OBVIOUS
<1>1. PICK last : last = LastCompaction(p)
  OBVIOUS
<1>2. last \in 0..Len(p) /\ (last # 0 => IsCompaction(p[last]))
  BY <1>1, LastCompactionIs
<1>3. last # 0
  <2>1. last = 0 => BoundaryStart(p) = 1
    BY <1>1 DEF BoundaryStart
  <2> QED
    BY <2>1
<1>4. last \in 1..Len(p) /\ IsCompaction(p[last])
  BY <1>2, <1>3
<1>5. PICK q \in 1..(last - 1) : p[q].id = p[last].ref
  BY <1>4 DEF RefsBefore
<1>6. q \in 1..Len(p)
  BY <1>0, <1>4
<1>7. PositionOf(p, p[last].ref) = q
  BY <1>5, <1>6, PositionIs DEF Complete
<1>8. q > 0
  BY <1>5
<1>9. BoundaryStart(p) = q
  BY <1>1, <1>3, <1>7, <1>8 DEF BoundaryStart
<1>10. k < q /\ k \in 1..(last - 1) /\ last \in DOMAIN p
  BY <1>0, <1>4, <1>5, <1>9
<1>11. RefsBefore(p, last)
  <2>1. \A j \in 1..last : j \in 1..Len(p)
    BY <1>0, <1>4
  <2> QED
    BY <2>1 DEF RefsBefore
<1>12. CoveredBy(p, last, p[k].id)
  BY <1>4, <1>5, <1>10, <1>11 DEF Complete, NothingDropped
<1>13. \A j \in 1..last : j \in 1..Len(p)
  BY <1>0, <1>4
<1> QED
  BY <1>12, <1>13 DEF CoveredBy

LEMMA CompactFollows ==
  ASSUME NEW p \in Seq(Entry), Complete(p), NEW cut \in CutPoints(p),
         NEW first, first = FirstKept(p, cut),
         NEW e, IsCompaction(e), e.ref = p[first].id,
         e.covers = {p[k].id : k \in {n \in BoundaryStart(p)..(first - 1) :
                                        p[n].type \in Visible}}
  PROVE  MayFollow(p, e)
<1>0. Len(p) \in Nat /\ DOMAIN p = 1..Len(p)
  OBVIOUS
<1>1. PICK start : start = BoundaryStart(p)
  OBVIOUS
<1>2. /\ cut \in 1..Len(p) /\ p[cut].type \in Visible \ {"toolResult"}
      /\ first \in start..cut /\ start \in 1..Len(p) /\ first \in 1..Len(p)
      /\ \A x \in first..(cut - 1) : ~IsMessage(p[x])
  BY <1>1, FirstKeptIs, FirstKeptType
<1>3. e.type # "toolResult"
  BY DEF IsCompaction
<1>4. SUFFICES ASSUME NEW q \in 1..Len(p), p[q].id = e.ref
               PROVE  /\ KeptWholeFrom(p, q, Len(p) + 1)
                      /\ RefsBefore(p, Len(p)) =>
                           \A k \in 1..(q - 1) : p[k].type \in Visible =>
                             CoveredBy(p, Len(p), p[k].id) \/ p[k].id \in e.covers
  BY <1>0, <1>3 DEF MayFollow
<1>5. q = first
  BY <1>2, <1>4, RisingOrder DEF Complete
<1>6. ASSUME NEW k \in q..(Len(p) + 1 - 1), p[k].type = "toolResult"
      PROVE  \E x \in q..(k - 1) : IsMessage(p[x])
  <2>1. IsMessage(p[k]) /\ IsMessage(p[cut])
    BY <1>2, <1>6 DEF IsMessage, Visible
  <2>2. k # cut
    BY <1>2, <1>6
  <2>3. ~(k < cut)
    <3>1. k < cut => k \in first..(cut - 1)
      BY <1>0, <1>2, <1>5
    <3> QED
      BY <1>2, <2>1, <3>1
  <2>4. cut \in q..(k - 1)
    BY <1>0, <1>2, <1>5, <2>2, <2>3
  <2> QED
    BY <2>1, <2>4
<1>7. ASSUME RefsBefore(p, Len(p)), NEW k \in 1..(q - 1), p[k].type \in Visible
      PROVE  CoveredBy(p, Len(p), p[k].id) \/ p[k].id \in e.covers
  <2>1. k \in 1..Len(p)
    BY <1>0
  <2>2. CASE k < start
    BY <1>1, <1>7, <2>1, <2>2, SpanBegins
  <2>3. CASE k >= start
    <3>1. k \in start..(first - 1)
      BY <1>2, <1>5, <2>3
    <3> QED
      BY <1>1, <1>7, <3>1
  <2> QED
    BY <1>2, <2>2, <2>3
<1> QED
  BY <1>6, <1>7 DEF KeptWholeFrom

(* What AppendMessage asks for.                                            *)
LEMMA MessageFollows ==
  ASSUME NEW p \in Seq(Entry), NEW e, ~IsCompaction(e),
         NEW last, last = SelectLastInSeq(p, IsMessage),
         e.type = "toolResult" => last # 0 /\ p[last].type \in {"assistant", "toolResult"}
  PROVE  MayFollow(p, e)
<1>1. last \in 0..Len(p) /\ \A n \in (last + 1)..Len(p) : ~IsMessage(p[n])
  BY LastMessage
<1>2. e.type = "toolResult" => last \in DOMAIN p
  BY <1>1
<1> QED
  BY <1>1, <1>2 DEF MayFollow

LEMMA OtherFollows ==
  ASSUME NEW p, NEW e, ~IsCompaction(e), e.type # "toolResult" PROVE MayFollow(p, e)
  BY DEF MayFollow

-----------------------------------------------------------------------------
(* The entries of a fork.                                                  *)

(* The entries t of a fork: those of a path p that are no labels, in its    *)
(* order (idx tells from where), and labels behind them.                   *)
Thins(t, p, n, idx) ==
  /\ t \in Seq(Entry) /\ p \in Seq(Entry) /\ n \in 0..Len(t) /\ idx \in [1..n -> 1..Len(p)]
  /\ \A j, k \in 1..n : j < k => idx[j] < idx[k]
  /\ \A k \in 1..n : /\ t[k].id = p[idx[k]].id /\ t[k].type = p[idx[k]].type
                     /\ t[k].ref = p[idx[k]].ref /\ t[k].covers = p[idx[k]].covers
  /\ \A k \in 1..n : \A i \in 1..idx[k] : ~IsLabel(p[i]) => \E j \in 1..k : idx[j] = i
  /\ \A k \in (n + 1)..Len(t) : t[k].type = "label"

ThinsFacts(t, p, n, idx) ==
  /\ DOMAIN t = 1..Len(t) /\ DOMAIN p = 1..Len(p) /\ Len(t) \in Nat /\ Len(p) \in Nat
  /\ n \in Nat /\ n <= Len(t)
  /\ \A k \in 1..n : idx[k] \in 1..Len(p)
  /\ \A j, k \in 1..n : idx[j] < idx[k] <=> j < k
  /\ \A k \in 1..n : /\ t[k].id = p[idx[k]].id /\ t[k].type = p[idx[k]].type
                     /\ t[k].ref = p[idx[k]].ref /\ t[k].covers = p[idx[k]].covers
                     /\ IsCompaction(t[k]) <=> IsCompaction(p[idx[k]])
                     /\ IsMessage(t[k]) <=> IsMessage(p[idx[k]])
  /\ \A k \in 1..n : \A i \in 1..idx[k] :
       IsMessage(p[i]) => \E j \in 1..k : idx[j] = i
  /\ \A k \in 1..Len(t) : IsMessage(t[k]) => k \in 1..n

LEMMA ThinsGives ==
  ASSUME NEW t, NEW p, NEW n, NEW idx, Thins(t, p, n, idx)
  PROVE  ThinsFacts(t, p, n, idx)
<1>1. /\ DOMAIN t = 1..Len(t) /\ DOMAIN p = 1..Len(p) /\ Len(t) \in Nat /\ Len(p) \in Nat
      /\ n \in Nat /\ n <= Len(t)
      /\ \A k \in 1..n : idx[k] \in 1..Len(p)
  BY DEF Thins
<1>2. ASSUME NEW j \in 1..n, NEW k \in 1..n PROVE idx[j] < idx[k] <=> j < k
  <2>1. idx[j] \in Nat /\ idx[k] \in Nat
    BY <1>1
  <2>2. j < k => idx[j] < idx[k]
    BY DEF Thins
  <2>3. k < j => idx[k] < idx[j]
    BY DEF Thins
  <2>4. j < k \/ j = k \/ k < j
    BY <1>1
  <2> QED
    BY <2>1, <2>2, <2>3, <2>4
<1>3. \A k \in 1..n : /\ t[k].id = p[idx[k]].id /\ t[k].type = p[idx[k]].type
                      /\ t[k].ref = p[idx[k]].ref /\ t[k].covers = p[idx[k]].covers
  BY DEF Thins
<1>4. \A k \in 1..n : /\ IsCompaction(t[k]) <=> IsCompaction(p[idx[k]])
                      /\ IsMessage(t[k]) <=> IsMessage(p[idx[k]])
  BY <1>3 DEF IsCompaction, IsMessage
<1>5. \A i : IsMessage(p[i]) => ~IsLabel(p[i])
  BY DEF IsMessage, IsLabel, Visible
<1>6. ASSUME NEW k \in 1..n, NEW i \in 1..idx[k], IsMessage(p[i])
      PROVE  \E j \in 1..k : idx[j] = i
  BY <1>5, <1>6 DEF Thins
<1>7. ASSUME NEW k \in 1..Len(t), IsMessage(t[k]) PROVE k \in 1..n
  <2>1. t[k].type # "label"
    BY <1>7 DEF IsMessage, Visible
  <2>2. k \notin (n + 1)..Len(t)
    BY <2>1 DEF Thins
  <2> QED
    BY <1>1, <2>2
<1> QED
  BY <1>1, <1>2, <1>3, <1>4, <1>6, <1>7 DEF ThinsFacts

LEMMA ThinsFollow ==
  ASSUME NEW t, NEW p, NEW n, NEW idx, ThinsFacts(t, p, n, idx), ResultsFollow(p)
  PROVE  ResultsFollow(t)
<1>1. SUFFICES ASSUME NEW k \in 1..Len(t), t[k].type = "toolResult" PROVE AnswersCall(t, k)
  BY DEF ThinsFacts, ResultsFollow
<1>2. k \in 1..n
  <2>1. IsMessage(t[k])
    BY <1>1 DEF IsMessage, Visible
  <2> QED
    BY <2>1 DEF ThinsFacts
<1>3. idx[k] \in 1..Len(p) /\ p[idx[k]].type = "toolResult" /\ idx[k] \in DOMAIN p
  BY <1>1, <1>2 DEF ThinsFacts
<1>4. AnswersCall(p, idx[k])
  BY <1>3 DEF ResultsFollow
<1>5. PICK i \in 1..(idx[k] - 1) : /\ p[i].type \in {"assistant", "toolResult"}
                                   /\ \A x \in (i + 1)..(idx[k] - 1) : ~IsMessage(p[x])
  BY <1>4 DEF AnswersCall
<1>6. i \in 1..idx[k] /\ i < idx[k] /\ IsMessage(p[i])
  BY <1>3, <1>5 DEF IsMessage, Visible
<1>7. PICK j \in 1..k : idx[j] = i
  BY <1>2, <1>6 DEF ThinsFacts
<1>8. j \in 1..n /\ j < k
  <2>1. j \in 1..n
    BY <1>2, <1>7 DEF ThinsFacts
  <2> QED
    BY <1>2, <1>6, <1>7, <2>1 DEF ThinsFacts
<1>9. j \in 1..(k - 1) /\ t[j].type \in {"assistant", "toolResult"}
  BY <1>2, <1>5, <1>7, <1>8 DEF ThinsFacts
<1>10. ASSUME NEW x \in (j + 1)..(k - 1) PROVE ~IsMessage(t[x])
  <2>1. x \in 1..n /\ j < x /\ x < k
    BY <1>2, <1>8 DEF ThinsFacts
  <2>2. idx[x] \in 1..Len(p) /\ i < idx[x] /\ idx[x] < idx[k]
    BY <1>2, <1>7, <1>8, <2>1 DEF ThinsFacts
  <2>3. idx[x] \in (i + 1)..(idx[k] - 1)
    BY <1>3, <1>5, <2>2
  <2>4. ~IsMessage(p[idx[x]])
    BY <1>5, <2>3
  <2> QED
    BY <2>1, <2>4 DEF ThinsFacts
<1> QED
  BY <1>9, <1>10 DEF AnswersCall

LEMMA ThinsWhole ==
  ASSUME NEW t, NEW p, NEW n, NEW idx, ThinsFacts(t, p, n, idx), KeptWhole(p)
  PROVE  KeptWhole(t)
<1>1. SUFFICES ASSUME NEW m \in 1..Len(t), NEW q \in 1..Len(t),
                      IsCompaction(t[m]), q < m, t[q].id = t[m].ref,
                      NEW k \in q..(m - 1), t[k].type = "toolResult"
               PROVE  \E x \in q..(k - 1) : IsMessage(t[x])
  BY DEF ThinsFacts, KeptWhole, KeptWholeFrom
<1>2. m \in 1..n /\ q \in 1..n /\ k \in 1..n
  <2>1. IsMessage(t[m])
    BY <1>1 DEF IsMessage, IsCompaction
  <2>2. m \in 1..n
    BY <2>1 DEF ThinsFacts
  <2> QED
    BY <1>1, <2>2 DEF ThinsFacts
<1>3. PICK im, iq, ik : im = idx[m] /\ iq = idx[q] /\ ik = idx[k]
  OBVIOUS
<1>4. /\ im \in 1..Len(p) /\ iq \in 1..Len(p) /\ ik \in 1..Len(p) /\ DOMAIN p = 1..Len(p)
      /\ iq < im /\ ik < im
      /\ IsCompaction(p[im]) /\ p[iq].id = p[im].ref /\ p[ik].type = "toolResult"
  BY <1>1, <1>2, <1>3 DEF ThinsFacts
<1>5. iq <= ik
  <2>1. q = k \/ q < k
    BY <1>2 DEF ThinsFacts
  <2>2. q < k => iq < ik
    BY <1>2, <1>3 DEF ThinsFacts
  <2> QED
    BY <1>3, <1>4, <2>1, <2>2
<1>6. KeptWholeFrom(p, iq, im)
  BY <1>4 DEF KeptWhole
<1>7. ik \in iq..(im - 1)
  BY ONLY <1>4, <1>5
<1>8. PICK y \in iq..(ik - 1) : IsMessage(p[y])
  BY <1>4, <1>6, <1>7 DEF KeptWholeFrom
<1>9. y \in 1..ik /\ y < ik /\ ~(y < iq)
  BY ONLY <1>4, <1>8
<1>10. PICK x \in 1..k : idx[x] = y
  BY <1>2, <1>3, <1>8, <1>9 DEF ThinsFacts
<1>11. x \in 1..n
  BY <1>2, <1>10 DEF ThinsFacts
<1>12. x < k /\ ~(x < q)
  BY <1>2, <1>3, <1>9, <1>10, <1>11 DEF ThinsFacts
<1>13. x \in q..(k - 1)
  BY <1>2, <1>11, <1>12
<1>14. IsMessage(t[x])
  BY <1>8, <1>10, <1>11 DEF ThinsFacts
<1> QED
  BY <1>13, <1>14

LEMMA ThinsDrops ==
  ASSUME NEW t, NEW p, NEW n, NEW idx, ThinsFacts(t, p, n, idx), NothingDropped(p)
  PROVE  NothingDropped(t)
<1>1. SUFFICES ASSUME NEW m \in 1..Len(t), IsCompaction(t[m]), RefsBefore(t, m),
                      NEW q \in 1..(m - 1), NEW k \in 1..(m - 1),
                      t[q].id = t[m].ref, k < q, t[k].type \in Visible
               PROVE  CoveredBy(t, m, t[k].id)
  BY DEF ThinsFacts, NothingDropped
<1>2. m \in 1..n /\ q \in 1..n /\ k \in 1..n /\ q < m /\ k < m
  <2>1. IsMessage(t[m])
    BY <1>1 DEF IsMessage, IsCompaction
  <2>2. m \in 1..n
    BY <2>1 DEF ThinsFacts
  <2> QED
    BY <1>1, <2>2 DEF ThinsFacts
<1>3. PICK im, iq, ik : im = idx[m] /\ iq = idx[q] /\ ik = idx[k]
  OBVIOUS
<1>4. /\ im \in 1..Len(p) /\ iq \in 1..Len(p) /\ ik \in 1..Len(p) /\ DOMAIN p = 1..Len(p)
      /\ iq < im /\ ik < im /\ ik < iq
      /\ IsCompaction(p[im]) /\ p[iq].id = p[im].ref
      /\ p[ik].type \in Visible /\ t[k].id = p[ik].id
  BY <1>1, <1>2, <1>3 DEF ThinsFacts
<1>5. RefsBefore(p, im)
  <2> SUFFICES ASSUME NEW i \in 1..im, IsCompaction(p[i])
               PROVE  \E x \in 1..(i - 1) : p[x].id = p[i].ref
    BY DEF RefsBefore
  <2>1. IsMessage(p[i])
    BY DEF IsMessage, IsCompaction
  <2>2. PICK j \in 1..m : idx[j] = i
    BY <1>2, <1>3, <2>1 DEF ThinsFacts
  <2>3. j \in 1..n
    BY <1>2, <2>2 DEF ThinsFacts
  <2>4. IsCompaction(t[j]) /\ t[j].ref = p[i].ref
    BY <2>2, <2>3 DEF ThinsFacts
  <2>5. PICK x \in 1..(j - 1) : t[x].id = t[j].ref
    BY <1>1, <2>4 DEF RefsBefore
  <2>6. x \in 1..n /\ x < j
    BY <2>3 DEF ThinsFacts
  <2>7. PICK ix : ix = idx[x]
    OBVIOUS
  <2>8. ix \in 1..Len(p) /\ ix < i /\ p[ix].id = p[i].ref
    BY <2>2, <2>3, <2>4, <2>5, <2>6, <2>7 DEF ThinsFacts
  <2>9. ix \in 1..(i - 1)
    BY ONLY <1>4, <2>8
  <2> QED
    BY <2>8, <2>9
<1>6. iq \in 1..(im - 1) /\ ik \in 1..(im - 1)
  BY ONLY <1>4
<1>12. CoveredBy(p, im, p[ik].id)
  BY <1>4, <1>5, <1>6 DEF NothingDropped
<1>7. PICK i \in 1..im : IsCompaction(p[i]) /\ p[ik].id \in p[i].covers
  BY <1>12 DEF CoveredBy
<1>8. IsMessage(p[i])
  BY <1>7 DEF IsMessage, IsCompaction
<1>9. PICK j \in 1..m : idx[j] = i
  BY <1>2, <1>3, <1>8 DEF ThinsFacts
<1>10. j \in 1..n
  BY <1>2, <1>9 DEF ThinsFacts
<1>11. IsCompaction(t[j]) /\ t[k].id \in t[j].covers
  BY <1>4, <1>7, <1>9, <1>10 DEF ThinsFacts
<1> QED
  BY <1>11 DEF CoveredBy

LEMMA ThinsComplete ==
  ASSUME NEW t, NEW p, NEW n, NEW idx, Thins(t, p, n, idx), Rising(t), Complete(p)
  PROVE  Complete(t)
<1>1. ThinsFacts(t, p, n, idx)
  BY ThinsGives
<1>2. RefsOlder(t)
  <2> SUFFICES ASSUME NEW m \in 1..Len(t), IsCompaction(t[m]) PROVE t[m].ref < t[m].id
    BY <1>1 DEF ThinsFacts, RefsOlder
  <2>1. IsMessage(t[m])
    BY DEF IsMessage, IsCompaction
  <2>2. m \in 1..n
    BY <1>1, <2>1 DEF ThinsFacts
  <2>3. /\ IsCompaction(p[idx[m]]) /\ idx[m] \in DOMAIN p
        /\ t[m].ref = p[idx[m]].ref /\ t[m].id = p[idx[m]].id
    BY <1>1, <2>2 DEF ThinsFacts
  <2> QED
    BY <2>3 DEF Complete, RefsOlder
<1>3. ResultsFollow(t) /\ KeptWhole(t) /\ NothingDropped(t)
  BY <1>1, ThinsFollow, ThinsWhole, ThinsDrops DEF Complete
<1> QED
  BY <1>2, <1>3 DEF Complete

Begins(u, t) == Len(u) <= Len(t) /\ \A k \in 1..Len(u) : u[k] = t[k]

LEMMA ThinsPrefix ==
  ASSUME NEW t, NEW p, NEW n, NEW idx, Thins(t, p, n, idx), Rising(t), Complete(p),
         NEW u \in Seq(Entry), Begins(u, t)
  PROVE  Complete(u)
<1>1. /\ Len(u) \in Nat /\ Len(t) \in Nat /\ n \in 0..Len(t) /\ Len(u) <= Len(t)
      /\ \A k \in 1..Len(u) : k \in 1..Len(t) /\ u[k] = t[k]
      /\ DOMAIN u = 1..Len(u) /\ DOMAIN t = 1..Len(t)
  BY DEF Thins, Begins
<1>2. Rising(u)
  BY <1>1 DEF Rising
<1>3. PICK x : x = IF n <= Len(u) THEN n ELSE Len(u)
  OBVIOUS
<1>4. /\ x \in 0..Len(u) /\ \A k \in 1..x : k \in 1..n /\ k \in 1..Len(u)
      /\ \A k \in (x + 1)..Len(u) : k \in (n + 1)..Len(t) /\ k \in 1..Len(u)
  <2>1. CASE n <= Len(u)
    <3>1. x = n
      BY <1>3, <2>1
    <3> QED
      BY <1>1, <2>1, <3>1
  <2>2. CASE ~(n <= Len(u))
    <3>1. x = Len(u) /\ Len(u) \in Nat /\ n \in Nat /\ Len(u) < n
      BY <1>1, <1>3, <2>2
    <3> QED
      BY ONLY <3>1
  <2> QED
    BY <2>1, <2>2
<1>5. PICK few : few = [k \in 1..x |-> idx[k]]
  OBVIOUS
<1>6. few \in [1..x -> 1..Len(p)] /\ \A k \in 1..x : few[k] = idx[k]
  BY <1>4, <1>5 DEF Thins
<1>7. \A j, k \in 1..x : j < k => few[j] < few[k]
  BY <1>4, <1>6 DEF Thins
<1>8. \A k \in 1..x : /\ u[k].id = p[few[k]].id /\ u[k].type = p[few[k]].type
                      /\ u[k].ref = p[few[k]].ref /\ u[k].covers = p[few[k]].covers
  BY <1>1, <1>4, <1>6 DEF Thins
<1>9. ASSUME NEW k \in 1..x, NEW i \in 1..few[k], ~IsLabel(p[i])
      PROVE  \E j \in 1..k : few[j] = i
  <2>1. k \in 1..n /\ i \in 1..idx[k]
    BY <1>4, <1>6
  <2>2. PICK j \in 1..k : idx[j] = i
    BY <1>9, <2>1 DEF Thins
  <2>3. j \in 1..x
    BY <1>4
  <2> QED
    BY <1>6, <2>2, <2>3
<1>10. \A k \in (x + 1)..Len(u) : u[k].type = "label"
  BY <1>1, <1>4 DEF Thins
<1>11. Thins(u, p, x, few)
  BY <1>4, <1>6, <1>7, <1>8, <1>9, <1>10 DEF Thins
<1> QED
  BY <1>2, <1>11, ThinsComplete

(* The numbers of a finite set from the least to the greatest.             *)
LEMMA AscendingOrder ==
  ASSUME NEW S \in SUBSET Nat, IsFiniteSet(S), NEW n, n = Cardinality(S),
         NEW up, up = Ascending(S)
  PROVE  /\ n \in Nat /\ up \in [1..n -> S]
         /\ \A j, k \in 1..n : j < k => up[j] < up[k]
         /\ \A i \in S : \E k \in 1..n : up[k] = i
<1> DEFINE upTo(i) == {k \in S : k <= i}
<1>0. n \in Nat /\ up \in [1..n -> S]
  BY AscendingType
<1>1. \A i : IsFiniteSet(upTo(i)) /\ Cardinality(upTo(i)) \in Nat /\ Cardinality(upTo(i)) <= n
  BY FS_Subset, FS_CardinalityType
<1>2. ASSUME NEW k \in 1..n PROVE up[k] \in S /\ Cardinality(upTo(up[k])) = k
  <2>1. \E i \in S : Cardinality({j \in S : j <= i}) = k
    BY RankExists
  <2> QED
    BY <2>1 DEF Ascending
<1>3. ASSUME NEW i \in S, NEW j \in S, i < j
      PROVE  Cardinality(upTo(i)) < Cardinality(upTo(j))
  <2>1. upTo(i) \cup {j} \subseteq upTo(j) /\ j \notin upTo(i)
    <3>1. \A k \in S : k <= i => k <= j
      BY <1>3
    <3>2. j \in upTo(j) /\ ~(j <= i)
      BY <1>3
    <3> QED
      BY <3>1, <3>2
  <2>2. PICK a, b : a = upTo(i) /\ b = upTo(j)
    OBVIOUS
  <2>3. /\ IsFiniteSet(a) /\ IsFiniteSet(b) /\ Cardinality(a) \in Nat /\ Cardinality(b) \in Nat
        /\ a \cup {j} \subseteq b /\ j \notin a
    BY <1>1, <2>1, <2>2
  <2>4. IsFiniteSet(a \cup {j}) /\ Cardinality(a \cup {j}) = Cardinality(a) + 1
    BY ONLY <2>3, FS_AddElement
  <2>5. Cardinality(a \cup {j}) <= Cardinality(b)
    BY ONLY <2>3, FS_Subset
  <2>6. Cardinality(a) < Cardinality(b)
    BY ONLY <2>3, <2>4, <2>5
  <2> QED
    BY <2>2, <2>6
<1> HIDE DEF upTo
<1>4. ASSUME NEW j \in 1..n, NEW k \in 1..n, j < k PROVE up[j] < up[k]
  <2>1. up[j] \in S /\ up[k] \in S /\ up[j] \in Nat /\ up[k] \in Nat
    BY <1>2
  <2>2. Cardinality(upTo(up[j])) = j /\ Cardinality(upTo(up[k])) = k
    BY <1>2
  <2>3. up[j] # up[k]
    BY <1>4, <2>2
  <2>4. ~(up[k] < up[j])
    <3>1. up[k] < up[j] => k < j
      BY <1>3, <2>1, <2>2
    <3> QED
      BY <1>4, <3>1
  <2> QED
    BY <2>1, <2>3, <2>4
<1>5. ASSUME NEW i \in S PROVE \E k \in 1..n : up[k] = i
  <2>1. PICK k : k = Cardinality(upTo(i))
    OBVIOUS
  <2>2. k \in Nat /\ k <= n
    BY <1>1, <2>1
  <2>3. k # 0
    <3>1. i \in upTo(i)
      BY DEF upTo
    <3> QED
      BY <1>1, <2>1, <3>1, FS_EmptySet
  <2>4. k \in 1..n
    BY <1>0, <2>2, <2>3
  <2>5. up[k] \in S /\ Cardinality(upTo(up[k])) = k
    BY <1>2, <2>4
  <2>6. PICK u : u = up[k]
    OBVIOUS
  <2>7. u \in S /\ Cardinality(upTo(u)) = k /\ Cardinality(upTo(i)) = k /\ ~(k < k)
    BY <2>1, <2>2, <2>5, <2>6
  <2>8. i < u => Cardinality(upTo(i)) < Cardinality(upTo(u))
    BY <1>3, <2>7
  <2>9. u < i => Cardinality(upTo(u)) < Cardinality(upTo(i))
    BY <1>3, <2>7
  <2>10. ~(i < u) /\ ~(u < i)
    BY ONLY <2>7, <2>8, <2>9
  <2>11. i \in Nat /\ u \in Nat
    BY <2>7
  <2>12. u = i
    BY ONLY <2>10, <2>11
  <2> QED
    BY <2>4, <2>6, <2>12
<1> QED
  BY <1>0, <1>4, <1>5

(* Entries of s, each the child of the one before it.                      *)
ChainOf(c, s, root) ==
  /\ c \in Seq(Entry) /\ s \in Seq(Entry) /\ Len(c) = Len(s)
  /\ \A k \in 1..Len(s) :
       /\ c[k].id = s[k].id /\ c[k].type = s[k].type
       /\ c[k].ref = s[k].ref /\ c[k].covers = s[k].covers
       /\ c[k].parent = IF k = 1 THEN root ELSE s[k - 1].id

LEMMA ChainedFields ==
  ASSUME NEW s \in Seq(Entry), NEW root \in 0..MaxEntries, NEW c, c = Chained(s, root)
  PROVE  ChainOf(c, s, root)
<1>1. c \in Seq(Entry) /\ Len(c) = Len(s)
  BY ChainedType
<1>2. ASSUME NEW k \in 1..Len(s)
      PROVE  /\ c[k].id = s[k].id /\ c[k].type = s[k].type
             /\ c[k].ref = s[k].ref /\ c[k].covers = s[k].covers
             /\ c[k].parent = IF k = 1 THEN root ELSE s[k - 1].id
  <2>1. PICK e, p : e = s[k] /\ p = IF k = 1 THEN root ELSE s[k - 1].id
    OBVIOUS
  <2>2. e \in Entry
    BY <2>1
  <2>3. c[k] = [e EXCEPT !.parent = p]
    <3>1. DOMAIN s = 1..Len(s)
      OBVIOUS
    <3>2. c[k] = [s[k] EXCEPT !.parent = IF k = 1 THEN root ELSE s[k - 1].id]
      BY <3>1 DEF Chained
    <3> QED
      BY <2>1, <3>2
  <2>4. /\ c[k].id = e.id /\ c[k].type = e.type /\ c[k].ref = e.ref /\ c[k].covers = e.covers
        /\ c[k].parent = p
    BY ONLY <2>2, <2>3 DEF Entry
  <2> QED
    BY <2>1, <2>4
<1> QED
  BY <1>1, <1>2 DEF ChainOf

(* Every entry is the child of the one before it.                          *)
IsChain(s) ==
  /\ s \in Seq(Entry)
  /\ \A k \in 1..Len(s) : s[k].parent = IF k = 1 THEN NoId ELSE s[k - 1].id

LEMMA ChainBranches ==
  ASSUME NEW s, IsChain(s), Rising(s), NEW p, IsBranch(s, p)
  PROVE  Begins(p, s)
<1>1. /\ s \in Seq(Entry) /\ Len(s) \in Nat
      /\ \A k \in 1..Len(s) : s[k].parent = IF k = 1 THEN NoId ELSE s[k - 1].id
  BY DEF IsChain
<1>2. /\ p \in Seq(Entry) /\ Len(p) \in Nat /\ Len(p) >= 1
      /\ \A k \in 1..Len(p) : p[k] \in ToSet(s) /\ p[k] \in Entry
      /\ p[1].parent = NoId
      /\ \A k \in 2..Len(p) : k - 1 \in 1..Len(p) /\ p[k].parent = p[k - 1].id /\ p[k].parent # NoId
  BY <1>1, BranchFields
<1> DEFINE T == {k \in 1..Len(p) : ~(k \in 1..Len(s) /\ p[k] = s[k])}
<1>3. T = {}
  <2> SUFFICES ASSUME T # {} PROVE FALSE
    OBVIOUS
  <2>1. PICK k \in T : \A j \in T : k <= j
    <3>1. T \in SUBSET Nat
      BY <1>2
    <3> HIDE DEF T
    <3> QED
      BY <3>1, LeastMember
  <2>2. k \in 1..Len(p) /\ ~(k \in 1..Len(s) /\ p[k] = s[k])
    OBVIOUS
  <2>3. PICK j \in 1..Len(s) : s[j] = p[k]
    BY <1>1, <1>2, <2>2, MemberAt
  <2>4. CASE k = 1
    <3>1. s[j].parent = NoId
      BY <1>2, <2>3, <2>4
    <3>2. j = 1
      <4>1. j # 1 => j - 1 \in 1..Len(s) /\ s[j].parent = s[j - 1].id
        BY <1>1
      <4>2. j # 1 => s[j - 1].id # NoId
        BY <1>1, <4>1, NumbersAt
      <4> QED
        BY <3>1, <4>1, <4>2
    <3> QED
      BY <2>2, <2>3, <2>4, <3>2
  <2>5. CASE k # 1
    <3>1. k \in 2..Len(p) /\ k - 1 \in 1..Len(p) /\ ~(k <= k - 1)
      BY <1>2, <2>2, <2>5
    <3>2. k - 1 \in 1..Len(s) /\ p[k - 1] = s[k - 1]
      BY <2>1, <3>1
    <3>3. s[j].parent = s[k - 1].id /\ s[j].parent # NoId
      BY <1>2, <2>3, <3>1, <3>2
    <3>4. j # 1 /\ j - 1 \in 1..Len(s) /\ s[j].parent = s[j - 1].id
      BY <1>1, <3>3
    <3>5. j - 1 = k - 1
      BY <1>1, <3>2, <3>3, <3>4, RisingOrder
    <3>6. j = k
      BY <2>2, <3>5
    <3> QED
      BY <2>2, <2>3, <3>6
  <2> QED
    BY <2>4, <2>5
<1>4. \A k \in 1..Len(p) : k \in 1..Len(s) /\ p[k] = s[k]
  BY <1>3
<1>5. Len(p) \in 1..Len(s)
  BY <1>2, <1>4
<1> QED
  BY <1>1, <1>2, <1>4, <1>5 DEF Begins

LEMMA ChainSound ==
  ASSUME NEW s, IsChain(s), Rising(s) PROVE OlderParents(s)
<1>1. s \in Seq(Entry)
  BY DEF IsChain
<1>2. ASSUME NEW e \in ToSet(s), e.parent # NoId
      PROVE  e.parent \in IdsOf(s) /\ e.parent < e.id
  <2>1. PICK k \in 1..Len(s) : s[k] = e
    BY <1>1, MemberAt
  <2>2. k # 1
    BY <1>2, <2>1 DEF IsChain
  <2>3. k - 1 \in 1..Len(s) /\ k - 1 < k /\ e.parent = s[k - 1].id
    BY <1>1, <2>1, <2>2 DEF IsChain
  <2>4. e.parent \in IdsOf(s)
    BY <1>1, <2>3, MemberOf
  <2>5. s[k - 1].id < s[k].id
    BY <1>1, <2>3, RisingOrder
  <2> QED
    BY <2>1, <2>3, <2>4, <2>5
<1> QED
  BY <1>2 DEF OlderParents

(* A chain of what is left of a complete path is a session all of whose    *)
(* branches are complete.                                                  *)
LEMMA ChainComplete ==
  ASSUME NEW t, NEW p, NEW n, NEW idx, Thins(t, p, n, idx), Rising(t), Complete(p), IsChain(t)
  PROVE  OlderParents(t) /\ AllComplete(t)
<1>1. ASSUME NEW u, IsBranch(t, u) PROVE Complete(u)
  <2>1. Begins(u, t)
    BY <1>1, ChainBranches
  <2>2. u \in Seq(Entry)
    BY <1>1 DEF IsBranch
  <2> QED
    BY <2>1, <2>2, ThinsPrefix
<1> QED
  BY <1>1, ChainSound DEF AllComplete

(* What BranchedEntries puts together: the entries of the path that are no *)
(* labels, s, and the labels for them, a, each chained.                    *)
ForkParts(new, path, next, kept, a, c, root) ==
  /\ ChainOf(kept, WithoutLabels(path), NoId)
  /\ root = IF kept = <<>> THEN NoId ELSE Last(kept).id
  /\ ChainOf(c, a, root)
  /\ \A k \in 1..Len(a) : a[k].id = next + k - 1 /\ a[k].type = "label"
  /\ new = kept \o c

LEMMA PartsOfFork ==
  ASSUME NEW path \in Seq(Entry), NEW labels \in SUBSET (1..MaxEntries),
         NEW next \in Nat \ {0}, next + Cardinality(labels) - 1 <= MaxEntries
  PROVE  \E kept, a, c, root :
           ForkParts(BranchedEntries(path, labels, next), path, next, kept, a, c, root)
<1> DEFINE kept == PathWithoutLabels(path)
           L == labels \cap IdsOf(kept)
           n == Cardinality(L)
           targets == Ascending(L)
           line(k) == [id |-> next + k - 1, parent |-> NoId, type |-> "label",
                       ref |-> targets[k], covers |-> {}]
           added == [k \in DOMAIN targets |-> line(k)]
           root == IF kept = <<>> THEN NoId ELSE Last(kept).id
<1>0. MaxEntries \in Nat /\ labels \subseteq Nat /\ IsFiniteSet(labels) /\ NoId \in 0..MaxEntries
  <2>1. MaxEntries \in Nat /\ NoId \in 0..MaxEntries
    BY SessionFileAssumption DEF NoId
  <2>2. IsFiniteSet(1..MaxEntries)
    BY <2>1, FS_Interval
  <2>3. IsFiniteSet(labels)
    BY <2>2, FS_Subset
  <2>4. \A i \in labels : i \in Nat
    OBVIOUS
  <2> QED
    BY <2>1, <2>3, <2>4
<1>1. kept \in Seq(Entry) /\ ChainOf(kept, WithoutLabels(path), NoId)
  <2>1. PICK s : s = WithoutLabels(path)
    OBVIOUS
  <2>2. s \in Seq(Entry)
    BY <2>1, WithoutLabelsType
  <2>3. kept = Chained(s, NoId)
    BY <2>1 DEF PathWithoutLabels
  <2>4. ChainOf(kept, s, NoId)
    BY <1>0, <2>2, <2>3, ChainedFields
  <2> QED
    BY <2>1, <2>4 DEF ChainOf
<1>2. L \in SUBSET Nat /\ IsFiniteSet(L) /\ n \in Nat /\ n <= Cardinality(labels)
  BY <1>0, FS_Subset, FS_CardinalityType
<1>3. targets \in [1..n -> L] /\ DOMAIN targets = 1..n
  BY <1>2, AscendingType
<1>4. L \subseteq 1..MaxEntries
  OBVIOUS
<1> HIDE DEF L, targets, kept
<1>5. Cardinality(labels) \in Nat
  BY <1>0, FS_CardinalityType
<1>6. ASSUME NEW k \in 1..n
      PROVE  line(k) \in Entry /\ line(k).id = next + k - 1 /\ line(k).type = "label"
  <2>1. targets[k] \in 0..MaxEntries
    <3>1. targets[k] \in L
      BY <1>3
    <3>2. \A i \in 1..MaxEntries : i \in 0..MaxEntries
      BY <1>0
    <3> QED
      BY <1>4, <3>1, <3>2
  <2>2. next + k - 1 \in 1..MaxEntries
    BY <1>0, <1>2, <1>5
  <2>3. {} \in SUBSET (1..MaxEntries) /\ "label" \in SessionEntryTypes
    BY DEF SessionEntryTypes
  <2> QED
    BY <1>0, <2>1, <2>2, <2>3 DEF Entry
<1> HIDE DEF line, n
<1>7. added \in [1..n -> Entry]
  BY <1>3, <1>6
<1>8. PICK a \in Seq(Entry) : a = added /\ Len(a) = n /\ \A k \in 1..n : a[k] = line(k)
  <2>1. \A k \in 1..n : added[k] = line(k)
    BY <1>3
  <2> HIDE DEF added
  <2>2. added \in Seq(Entry) /\ Len(added) = n
    BY <1>2, <1>7
  <2> QED
    BY <2>1, <2>2
<1>9. root \in 0..MaxEntries
  <2>1. kept # <<>> => Last(kept).id \in 0..MaxEntries
    <3>1. kept # <<>> => /\ Len(kept) \in Nat /\ Len(kept) \in 1..Len(kept)
                         /\ Last(kept) = kept[Len(kept)]
      BY <1>1 DEF Last
    <3>2. kept # <<>> => Last(kept) \in Entry
      BY <1>1, <3>1
    <3> QED
      BY <1>0, <3>2 DEF Entry
  <2> QED
    BY <1>0, <2>1
<1> HIDE DEF added, root
<1>10. PICK c : c = Chained(a, root)
  OBVIOUS
<1>11. ChainOf(c, a, root)
  BY <1>8, <1>9, <1>10, ChainedFields
<1>12. BranchedEntries(path, labels, next) = kept \o c
  BY <1>8, <1>10 DEF BranchedEntries, kept, L, targets, line, added, root
<1>13. \A k \in 1..Len(a) : a[k].id = next + k - 1 /\ a[k].type = "label"
  BY <1>6, <1>8
<1>14. root = IF kept = <<>> THEN NoId ELSE Last(kept).id
  BY DEF root
<1>15. ForkParts(BranchedEntries(path, labels, next), path, next, kept, a, c, root)
  BY <1>1, <1>11, <1>12, <1>13, <1>14 DEF ForkParts
<1> QED
  BY <1>15

(* The entries of a path that are no labels, in its order.                 *)
KeptOf(s, path, n, idx) ==
  /\ s \in Seq(Entry) /\ Len(s) = n /\ n \in Nat /\ idx \in [1..n -> 1..Len(path)]
  /\ \A j, k \in 1..n : j < k => idx[j] < idx[k]
  /\ \A k \in 1..n : s[k] = path[idx[k]]
  /\ \A i \in 1..Len(path) : ~IsLabel(path[i]) => \E j \in 1..n : idx[j] = i

LEMMA WithoutLabelsKeeps ==
  ASSUME NEW path \in Seq(Entry)
  PROVE  \E n, idx : KeptOf(WithoutLabels(path), path, n, idx)
<1> DEFINE S == {k \in DOMAIN path : ~IsLabel(path[k])}
<1>1. S \in SUBSET Nat /\ S \subseteq 1..Len(path) /\ IsFiniteSet(S)
      /\ \A i \in 1..Len(path) : ~IsLabel(path[i]) => i \in S
  <2>1. IsFiniteSet(1..Len(path)) /\ S \subseteq 1..Len(path) /\ DOMAIN path = 1..Len(path)
    BY FS_Interval
  <2> QED
    BY <2>1, FS_Subset
<1>2. PICK up, n : up = Ascending(S) /\ n = Cardinality(S)
  OBVIOUS
<1>3. WithoutLabels(path) = [k \in DOMAIN up |-> path[up[k]]]
  BY <1>2 DEF WithoutLabels
<1> HIDE DEF S
<1>4. /\ n \in Nat /\ up \in [1..n -> S]
      /\ \A j, k \in 1..n : j < k => up[j] < up[k]
      /\ \A i \in S : \E k \in 1..n : up[k] = i
  BY <1>1, <1>2, AscendingOrder
<1>5. up \in [1..n -> 1..Len(path)] /\ DOMAIN up = 1..n
  BY <1>1, <1>4
<1>6. PICK s : s = WithoutLabels(path)
  OBVIOUS
<1>7. s \in Seq(Entry)
  BY <1>6, WithoutLabelsType
<1>8. DOMAIN s = 1..n /\ \A k \in 1..n : s[k] = path[up[k]]
  BY <1>3, <1>5, <1>6
<1>9. Len(s) = n
  BY <1>4, <1>7, <1>8
<1>10. KeptOf(s, path, n, up)
  BY <1>1, <1>4, <1>5, <1>7, <1>8, <1>9 DEF KeptOf
<1> QED
  BY <1>6, <1>10

LEMMA JoinedAt ==
  ASSUME NEW s \in Seq(Entry), NEW t \in Seq(Entry), NEW u, u = s \o t
  PROVE  /\ u \in Seq(Entry) /\ Len(u) = Len(s) + Len(t)
         /\ Len(s) \in Nat /\ Len(t) \in Nat
         /\ \A k \in 1..Len(s) : u[k] = s[k]
         /\ \A k \in (Len(s) + 1)..Len(u) : k - Len(s) \in 1..Len(t) /\ u[k] = t[k - Len(s)]
<1>1. /\ s \o t \in Seq(Entry) /\ Len(s \o t) = Len(s) + Len(t)
      /\ \A k \in 1..Len(s) : (s \o t)[k] = s[k]
      /\ \A k \in 1..Len(t) : (s \o t)[Len(s) + k] = t[k]
      /\ Len(s) \in Nat /\ Len(t) \in Nat
  OBVIOUS
<1>2. PICK m, n : m = Len(s) /\ n = Len(t)
  OBVIOUS
<1>3. /\ u \in Seq(Entry) /\ Len(u) = m + n /\ m \in Nat /\ n \in Nat
      /\ \A k \in 1..m : u[k] = s[k]
      /\ \A k \in 1..n : u[m + k] = t[k]
  BY <1>1, <1>2
<1>4. ASSUME NEW k \in (m + 1)..(m + n) PROVE k - m \in 1..n /\ u[k] = t[k - m]
  <2>1. PICK i : i = k - m
    OBVIOUS
  <2>2. i \in 1..n /\ m + i = k
    BY <1>3, <2>1
  <2>3. u[m + i] = t[i]
    BY <1>3, <2>2
  <2> QED
    BY <2>1, <2>2, <2>3
<1> QED
  BY <1>2, <1>3, <1>4

LEMMA BranchedThins ==
  ASSUME NEW path \in Seq(Entry), Rising(path), NEW labels \in SUBSET (1..MaxEntries),
         NEW next \in Nat \ {0}, next + Cardinality(labels) - 1 <= MaxEntries,
         \A i \in IdsOf(path) : i < next,
         NEW new, new = BranchedEntries(path, labels, next)
  PROVE  \E n, idx : Thins(new, path, n, idx) /\ Rising(new) /\ IsChain(new)
<1>1. PICK kept, a, c, root : ForkParts(new, path, next, kept, a, c, root)
  BY PartsOfFork
<1>2. PICK s : s = WithoutLabels(path)
  OBVIOUS
<1>3. PICK n, idx : KeptOf(s, path, n, idx)
  BY <1>2, WithoutLabelsKeeps
<1>4. /\ n \in Nat /\ idx \in [1..n -> 1..Len(path)] /\ Len(path) \in Nat
      /\ \A j, k \in 1..n : j < k => idx[j] < idx[k]
      /\ \A i \in 1..Len(path) : ~IsLabel(path[i]) => \E j \in 1..n : idx[j] = i
  BY <1>3 DEF KeptOf
<1>5. kept \in Seq(Entry) /\ Len(kept) = n
  BY <1>1, <1>2, <1>3 DEF ForkParts, ChainOf, KeptOf
<1>6. ASSUME NEW k \in 1..n
      PROVE  /\ kept[k].id = path[idx[k]].id /\ kept[k].type = path[idx[k]].type
             /\ kept[k].ref = path[idx[k]].ref /\ kept[k].covers = path[idx[k]].covers
  <2>1. Len(s) = n /\ s[k] = path[idx[k]]
    BY <1>3 DEF KeptOf
  <2>2. ChainOf(kept, s, NoId)
    BY <1>1, <1>2 DEF ForkParts
  <2> QED
    BY <2>1, <2>2 DEF ChainOf
<1>7. ASSUME NEW k \in 1..n
      PROVE  kept[k].parent = IF k = 1 THEN NoId ELSE kept[k - 1].id
  <2>1. Len(s) = n
    BY <1>3 DEF KeptOf
  <2>2. ChainOf(kept, s, NoId)
    BY <1>1, <1>2 DEF ForkParts
  <2>3. kept[k].parent = IF k = 1 THEN NoId ELSE s[k - 1].id
    BY <2>1, <2>2 DEF ChainOf
  <2>4. k # 1 => k - 1 \in 1..n
    BY <1>4
  <2>5. k # 1 => kept[k - 1].id = s[k - 1].id
    BY <2>1, <2>2, <2>4 DEF ChainOf
  <2> QED
    BY <2>3, <2>5
<1>8. PICK m : m = Len(c)
  OBVIOUS
<1>9. /\ c \in Seq(Entry) /\ m \in Nat
      /\ \A k \in 1..m : c[k].id = next + k - 1 /\ c[k].type = "label"
  <2>1. ChainOf(c, a, root) /\ \A k \in 1..Len(a) : a[k].id = next + k - 1 /\ a[k].type = "label"
    BY <1>1 DEF ForkParts
  <2>2. c \in Seq(Entry) /\ Len(c) = Len(a) /\ Len(c) \in Nat
    <3>1. c \in Seq(Entry) /\ Len(c) = Len(a)
      BY <2>1 DEF ChainOf
    <3> QED
      BY <3>1
  <2>3. \A k \in 1..Len(a) : c[k].id = a[k].id /\ c[k].type = a[k].type
    BY <2>1 DEF ChainOf
  <2> QED
    BY <1>8, <2>1, <2>2, <2>3
<1>10. ASSUME NEW k \in 1..m
       PROVE  c[k].parent = IF k # 1 THEN c[k - 1].id ELSE IF n = 0 THEN NoId ELSE kept[n].id
  <2>1. ChainOf(c, a, root)
    BY <1>1 DEF ForkParts
  <2>2. k # 1 => k - 1 \in 1..m
    BY <1>9
  <2>3. root = IF kept = <<>> THEN NoId ELSE Last(kept).id
    BY <1>1 DEF ForkParts
  <2>4. kept = <<>> <=> n = 0
    BY <1>5
  <2>5. Last(kept) = kept[n]
    BY <1>5 DEF Last
  <2>6. c[k].parent = IF k = 1 THEN root ELSE a[k - 1].id
    BY <1>8, <2>1 DEF ChainOf
  <2>7. k # 1 => c[k - 1].id = a[k - 1].id
    BY <1>8, <2>1, <2>2 DEF ChainOf
  <2> QED
    BY <2>3, <2>4, <2>5, <2>6, <2>7
<1>11. new = kept \o c
  BY <1>1 DEF ForkParts
<1>12. /\ new \in Seq(Entry) /\ Len(new) = n + m
       /\ \A k \in 1..n : new[k] = kept[k]
       /\ \A k \in (n + 1)..(n + m) : k - n \in 1..m /\ new[k] = c[k - n]
  <2>1. /\ new \in Seq(Entry) /\ Len(new) = Len(kept) + Len(c)
        /\ \A k \in 1..Len(kept) : new[k] = kept[k]
        /\ \A k \in (Len(kept) + 1)..Len(new) :
             k - Len(kept) \in 1..Len(c) /\ new[k] = c[k - Len(kept)]
    <3>1. kept \in Seq(Entry) /\ c \in Seq(Entry) /\ new = kept \o c
      BY <1>5, <1>9, <1>11
    <3> QED
      BY ONLY <3>1, JoinedAt
  <2> QED
    BY <1>5, <1>8, <2>1
<1>13. Thins(new, path, n, idx)
  <2>1. n \in 0..Len(new)
    BY <1>4, <1>9, <1>12
  <2>2. \A k \in 1..n : /\ new[k].id = path[idx[k]].id /\ new[k].type = path[idx[k]].type
                        /\ new[k].ref = path[idx[k]].ref /\ new[k].covers = path[idx[k]].covers
    BY <1>6, <1>12
  <2>3. \A k \in (n + 1)..Len(new) : new[k].type = "label"
    BY <1>9, <1>12
  <2>4. ASSUME NEW k \in 1..n, NEW i \in 1..idx[k], ~IsLabel(path[i])
        PROVE  \E j \in 1..k : idx[j] = i
    <3>1. idx[k] \in 1..Len(path)
      BY <1>4
    <3>2. PICK q : q = idx[k]
      OBVIOUS
    <3>3. i \in 1..q /\ q \in 1..Len(path)
      BY <2>4, <3>1, <3>2
    <3>4. i \in 1..Len(path) /\ i \in Nat
      BY <1>4, <3>3
    <3>5. PICK j \in 1..n : idx[j] = i
      BY <1>4, <2>4, <3>4
    <3>6. k < j => q < i
      BY <1>4, <3>2, <3>5
    <3>7. ~(k < j)
      BY <3>3, <3>4, <3>6
    <3>8. j \in 1..k
      BY <1>4, <3>7
    <3> QED
      BY <3>5, <3>8
  <2> QED
    BY <1>4, <1>12, <2>1, <2>2, <2>3, <2>4 DEF Thins
<1>14. ASSUME NEW k \in 1..n PROVE new[k].id \in Nat /\ new[k].id < next
  <2>1. idx[k] \in 1..Len(path)
    BY <1>4
  <2>2. PICK q \in 1..Len(path) : q = idx[k]
    BY <2>1
  <2>3. path[q].id \in IdsOf(path)
    BY MemberOf
  <2>4. path[q].id \in Nat /\ path[q].id < next
    BY <2>3, NumbersAt
  <2> QED
    BY <1>6, <1>12, <2>2, <2>4
<1>15. ASSUME NEW k \in (n + 1)..(n + m) PROVE new[k].id = next + (k - n) - 1
  BY <1>9, <1>12
<1>16. Rising(new)
  <2> SUFFICES ASSUME NEW j \in 1..(n + m), NEW k \in 1..(n + m), j < k
               PROVE  new[j].id < new[k].id
    <3>1. DOMAIN new = 1..(n + m)
      BY <1>12
    <3> QED
      BY <3>1 DEF Rising
  <2>1. CASE k <= n
    <3>1. j \in 1..n /\ k \in 1..n
      BY <1>4, <1>9, <2>1
    <3>2. idx[j] < idx[k] /\ idx[j] \in 1..Len(path) /\ idx[k] \in 1..Len(path)
      BY <1>4, <3>1
    <3>3. PICK x, y : x = idx[j] /\ y = idx[k]
      OBVIOUS
    <3>4. x < y /\ x \in DOMAIN path /\ y \in DOMAIN path
      BY <3>2, <3>3
    <3>5. path[x].id < path[y].id
      BY <3>4 DEF Rising
    <3> QED
      BY <1>6, <1>12, <3>1, <3>3, <3>5
  <2>2. CASE ~(k <= n) /\ j <= n
    <3>1. j \in 1..n /\ k \in (n + 1)..(n + m)
      BY <1>4, <1>9, <2>2
    <3>2. PICK x, y : x = new[j].id /\ y = new[k].id
      OBVIOUS
    <3>3. x \in Nat /\ x < next /\ y = next + (k - n) - 1
      BY <1>14, <1>15, <3>1, <3>2
    <3>4. x < y
      BY <1>4, <1>9, <3>1, <3>3
    <3> QED
      BY <3>2, <3>4
  <2>3. CASE ~(k <= n) /\ ~(j <= n)
    <3>1. j \in (n + 1)..(n + m) /\ k \in (n + 1)..(n + m)
      BY <1>4, <1>9, <2>3
    <3>2. PICK x, y : x = new[j].id /\ y = new[k].id
      OBVIOUS
    <3>3. x = next + (j - n) - 1 /\ y = next + (k - n) - 1
      BY <1>15, <3>1, <3>2
    <3>4. x < y
      BY <1>4, <1>9, <3>1, <3>3
    <3> QED
      BY <3>2, <3>4
  <2> QED
    BY <2>1, <2>2, <2>3
<1>17. IsChain(new)
  <2> SUFFICES ASSUME NEW k \in 1..(n + m)
               PROVE  new[k].parent = IF k = 1 THEN NoId ELSE new[k - 1].id
    BY <1>12 DEF IsChain
  <2>1. CASE k <= n
    <3>1. k \in 1..n /\ (k # 1 => k - 1 \in 1..n)
      BY <1>4, <1>9, <2>1
    <3>2. new[k] = kept[k] /\ (k # 1 => new[k - 1] = kept[k - 1])
      BY <1>12, <3>1
    <3> QED
      BY <1>7, <3>1, <3>2
  <2>2. CASE k = n + 1
    <3>1. k - n = 1 /\ k - 1 = n /\ k \in (n + 1)..(n + m) /\ 1 \in 1..m
      BY <1>4, <1>9, <2>2
    <3>2. new[k] = c[1]
      BY <1>12, <3>1
    <3>3. k = 1 <=> n = 0
      BY <1>4, <2>2
    <3>4. n # 0 => new[n] = kept[n]
      BY <1>4, <1>12
    <3> QED
      BY <1>10, <3>1, <3>2, <3>3, <3>4
  <2>3. CASE n + 1 < k
    <3>1. /\ k \in (n + 1)..(n + m) /\ k - 1 \in (n + 1)..(n + m) /\ k # 1
          /\ k - n \in 1..m /\ k - n # 1 /\ (k - n) - 1 = (k - 1) - n
      BY <1>4, <1>9, <2>3
    <3>2. PICK i : i = k - n
      OBVIOUS
    <3>3. new[k] = c[i] /\ new[k - 1] = c[i - 1] /\ i \in 1..m /\ i # 1
      BY <1>12, <3>1, <3>2
    <3> QED
      BY <1>10, <3>1, <3>3
  <2>4. k <= n \/ k = n + 1 \/ n + 1 < k
    BY <1>4, <1>9
  <2> QED
    BY <2>1, <2>2, <2>3, <2>4
<1> QED
  BY <1>13, <1>16, <1>17

-----------------------------------------------------------------------------
(* A session with its file, whichever step of an operation it is in.       *)

SessionRecord ==
  [fileEntries : Seq(Entry), leafId : 0..MaxEntries, labels : SUBSET (1..MaxEntries),
   flushed : BOOLEAN]

DiskRecord ==
  [exists : BOOLEAN, header : {"none", "torn", "ok"}, lines : Seq(Entry),
   tail : Ends \ {"none"}]

CountRecord ==
  [next : Nat \ {0}, events : Nat, forks : Nat, cuts : Nat,
   acked : SUBSET (1..MaxEntries), forked : 0..MaxEntries]

NowRecord ==
  [session : SessionRecord, disk : DiskRecord, counts : CountRecord, ok : BOOLEAN]

(* Entries and what they refer to are older than the next entry.           *)
Older(entries, next) == \A e \in ToSet(entries) : e.id < next /\ e.ref < next

OlderThanNext(now) ==
  /\ Older(now.session.fileEntries, now.counts.next)
  /\ Older(now.disk.lines, now.counts.next)

(* A session that has written a line has a file with a header; without a   *)
(* file nothing was acknowledged.                                          *)
FileSound(now) ==
  /\ now.session.flushed => now.disk.exists /\ now.disk.header # "none"
  /\ ~now.disk.exists => now.disk = NoSessionFile /\ now.counts.acked = {}
  /\ now.disk.header = "none" => now.disk.lines = <<>> /\ now.disk.tail = "done"

(* What is lost already, and what the next line will lose because of how   *)
(* the last one ends.                                                      *)
AtStake(tail) == IF tail = "whole" THEN 2 ELSE IF tail = "torn" THEN 1 ELSE 0

LossBounded(now) ==
  now.disk.header # "torn" =>
    Cardinality(now.counts.acked \ IdsOf(now.disk.lines)) + AtStake(now.disk.tail)
      <= 2 * now.counts.cuts

FileFollows(now) ==
  now.counts.cuts = 0 =>
    /\ now.disk = IF now.session.flushed THEN Rewritten(now.session.fileEntries)
                  ELSE NoSessionFile
    /\ now.session.flushed = HasAssistant(now.session.fileEntries)

LabelsFollow(now) ==
  now.counts.cuts = 0 => now.session.labels = LabelsOf(now.session.fileEntries)

(* Every branch is complete, and the leaf is an entry.                      *)
TreeOf(s) ==
  /\ OlderParents(s.fileEntries) /\ AllComplete(s.fileEntries)
  /\ s.leafId \in IdsOf(s.fileEntries) \cup {NoId}

TreeFollows(now) == now.counts.cuts = 0 => TreeOf(now.session)

FileGood(now) ==
  /\ now \in NowRecord /\ OlderThanNext(now) /\ FileSound(now) /\ LossBounded(now)
  /\ FileFollows(now)
  /\ now.ok \/ now.counts.cuts > 0

LEMMA FiniteAcked ==
  ASSUME NEW A \in SUBSET (1..MaxEntries)
  PROVE  IsFiniteSet(A) /\ Cardinality(A) \in Nat
<1>1. MaxEntries \in Nat
  BY SessionFileAssumption
<1>2. IsFiniteSet(1..MaxEntries)
  BY <1>1, FS_Interval
<1> QED
  BY <1>2, FS_Subset, FS_CardinalityType

(* Writing one line, after which at most one more entry is missing per     *)
(* line that was joined.                                                   *)
LEMMA LossOfSome ==
  ASSUME NEW A \in SUBSET (1..MaxEntries), NEW B \in SUBSET (1..MaxEntries),
         NEW i, A \subseteq B \cup {i}
  PROVE  Cardinality(A) <= Cardinality(B) + 1
<1>1. IsFiniteSet(A) /\ IsFiniteSet(B) /\ Cardinality(A) \in Nat /\ Cardinality(B) \in Nat
  BY FiniteAcked
<1>2. CASE i \in B
  <2>1. A \subseteq B
    BY <1>2
  <2>2. Cardinality(A) <= Cardinality(B)
    BY ONLY <1>1, <2>1, FS_Subset
  <2> QED
    BY ONLY <1>1, <2>2
<1>3. CASE i \notin B
  <2>1. IsFiniteSet(B \cup {i}) /\ Cardinality(B \cup {i}) = Cardinality(B) + 1
    BY <1>1, <1>3, FS_AddElement
  <2>2. Cardinality(A) <= Cardinality(B \cup {i})
    BY <2>1, FS_Subset
  <2> QED
    BY <1>1, <2>1, <2>2
<1> QED
  BY <1>2, <1>3

LEMMA LossOfNone ==
  ASSUME NEW A \in SUBSET (1..MaxEntries), NEW B \in SUBSET (1..MaxEntries), A \subseteq B
  PROVE  Cardinality(A) <= Cardinality(B)
<1>1. IsFiniteSet(B)
  BY FiniteAcked
<1> QED
  BY <1>1, FS_Subset

(* What an entry behind the others leaves of the labels.                   *)
LEMMA LabelsAppend ==
  ASSUME NEW entries \in Seq(Entry), NEW next \in Nat, Older(entries, next),
         NEW e \in Entry, e.id = next
  PROVE  /\ e.type \notin {"label", "unlabel"} =>
              LabelsOf(Append(entries, e)) = LabelsOf(entries)
         /\ e.type = "label" /\ e.ref \in IdsOf(entries) =>
              LabelsOf(Append(entries, e)) = LabelsOf(entries) \cup {e.ref}
         /\ e.type = "unlabel" =>
              LabelsOf(Append(entries, e)) = LabelsOf(entries) \ {e.ref}
<1> DEFINE last == Len(entries)
<1>0. last \in Nat
  OBVIOUS
<1>1. PICK all : all = Append(entries, e)
  OBVIOUS
<1>2. /\ all \in Seq(Entry) /\ Len(all) = last + 1 /\ IdsOf(all) = IdsOf(entries) \cup {next}
  BY <1>1, SetOfAppended
<1>3. /\ all[last + 1] = e /\ DOMAIN all = 1..(last + 1) /\ DOMAIN entries = 1..last
      /\ \A k \in 1..last : all[k] = entries[k]
  BY <1>1
<1> DEFINE Marked(s, i, k) == s[k].type = "label" /\ s[k].ref = i
           Kept(s, i, k) == \A n \in (k + 1)..Len(s) : ~(s[n].type = "unlabel" /\ s[n].ref = i)
<1>4. \A s : LabelsOf(s) = {i \in IdsOf(s) : \E k \in DOMAIN s : Marked(s, i, k) /\ Kept(s, i, k)}
  BY DEF LabelsOf
<1>5. \A i : \A k \in 1..last : Marked(all, i, k) <=> Marked(entries, i, k)
  BY <1>3
<1>6. \A i : \A k \in 1..last : Kept(all, i, k) <=> Kept(entries, i, k) /\ ~(e.type = "unlabel" /\ e.ref = i)
  <2> SUFFICES ASSUME NEW i, NEW k \in 1..last
               PROVE  Kept(all, i, k) <=> Kept(entries, i, k) /\ ~(e.type = "unlabel" /\ e.ref = i)
    OBVIOUS
  <2>1. \A n \in (k + 1)..Len(all) : n = last + 1 \/ n \in (k + 1)..last
    BY <1>0, <1>2
  <2>2. last + 1 \in (k + 1)..Len(all) /\ \A n \in (k + 1)..last : n \in (k + 1)..Len(all) /\ n \in 1..last
    BY <1>0, <1>2
  <2>3. Kept(all, i, k) => Kept(entries, i, k) /\ ~(e.type = "unlabel" /\ e.ref = i)
    BY <1>3, <2>2
  <2>4. Kept(entries, i, k) /\ ~(e.type = "unlabel" /\ e.ref = i) => Kept(all, i, k)
    BY <1>3, <2>1, <2>2
  <2> QED
    BY <2>3, <2>4
<1>7. \A i : Kept(all, i, last + 1)
  BY <1>0, <1>2
<1>8. \A i : Marked(all, i, last + 1) <=> e.type = "label" /\ e.ref = i
  BY <1>3
<1>9. \A k \in 1..last : ~Marked(entries, next, k)
  <2> SUFFICES ASSUME NEW k \in 1..last PROVE entries[k].ref # next
    OBVIOUS
  <2>1. entries[k] \in ToSet(entries) /\ entries[k].ref \in 0..MaxEntries
    BY MemberOf DEF Entry
  <2> QED
    BY <2>1 DEF Older
<1> HIDE DEF Marked, Kept
<1>10. ASSUME NEW i
       PROVE  i \in LabelsOf(all) <=>
                \/ i \in LabelsOf(entries) /\ ~(e.type = "unlabel" /\ e.ref = i)
                \/ i \in IdsOf(all) /\ e.type = "label" /\ e.ref = i
  <2>1. i \in LabelsOf(all) <=> i \in IdsOf(all) /\ \E k \in 1..(last + 1) : Marked(all, i, k) /\ Kept(all, i, k)
    BY <1>3, <1>4
  <2>2. i \in LabelsOf(entries) <=> i \in IdsOf(entries) /\ \E k \in 1..last : Marked(entries, i, k) /\ Kept(entries, i, k)
    BY <1>3, <1>4
  <2>3. \A k \in 1..(last + 1) : k = last + 1 \/ k \in 1..last
    BY <1>0
  <2>4. last + 1 \in 1..(last + 1) /\ \A k \in 1..last : k \in 1..(last + 1)
    BY <1>0
  <2>5. (\E k \in 1..(last + 1) : Marked(all, i, k) /\ Kept(all, i, k)) <=>
          \/ e.type = "label" /\ e.ref = i
          \/ \E k \in 1..last : Marked(entries, i, k) /\ Kept(entries, i, k)
                                /\ ~(e.type = "unlabel" /\ e.ref = i)
    BY <1>5, <1>6, <1>7, <1>8, <2>3, <2>4
  <2>6. i \in IdsOf(all) <=> i \in IdsOf(entries) \/ i = next
    BY <1>2
  <2> QED
    BY <1>9, <2>1, <2>2, <2>5, <2>6
<1>11. IdsOf(entries) \subseteq IdsOf(all)
  BY <1>2
<1> QED
  BY <1>1, <1>10, <1>11

-----------------------------------------------------------------------------
(* Writing: one line, or everything for the first time.                    *)

LEMMA AppendLineFields ==
  ASSUME NEW f \in DiskRecord, NEW e \in Entry, NEW end \in Ends,
         NEW g, g = AppendLine(f, e, end)
  PROVE  /\ g \in DiskRecord /\ g.exists = f.exists
         /\ g.header = IF f.tail = "whole" /\ end # "none" /\ f.lines = <<>> THEN "torn" ELSE f.header
         /\ g.lines = IF f.tail = "done" /\ end \in {"done", "whole"} THEN Append(f.lines, e)
                      ELSE IF f.tail = "whole" /\ end # "none" /\ f.lines # <<>> THEN Front(f.lines)
                      ELSE f.lines
         /\ g.tail = IF end = "none" THEN f.tail ELSE IF end = "done" THEN "done"
                       ELSE IF end = "whole" /\ f.tail = "done" THEN "whole" ELSE "torn"
<1> DEFINE header == IF f.tail = "whole" /\ end # "none" /\ f.lines = <<>> THEN "torn" ELSE f.header
           lines == IF f.tail = "done" /\ end \in {"done", "whole"} THEN Append(f.lines, e)
                    ELSE IF f.tail = "whole" /\ end # "none" /\ f.lines # <<>> THEN Front(f.lines)
                    ELSE f.lines
           tail == IF end = "none" THEN f.tail ELSE IF end = "done" THEN "done"
                     ELSE IF end = "whole" /\ f.tail = "done" THEN "whole" ELSE "torn"
<1>1. f = [exists |-> f.exists, header |-> f.header, lines |-> f.lines, tail |-> f.tail]
      /\ f.exists \in BOOLEAN /\ f.header \in {"none", "torn", "ok"} /\ f.lines \in Seq(Entry)
      /\ f.tail \in {"done", "torn", "whole"}
  BY DEF DiskRecord, Ends
<1>2. lines \in Seq(Entry)
  <2>1. f.lines # <<>> => Front(f.lines) \in Seq(Entry)
    BY <1>1, SetOfFront
  <2>2. Append(f.lines, e) \in Seq(Entry)
    BY <1>1
  <2> QED
    BY <1>1, <2>1, <2>2
<1>3. header \in {"none", "torn", "ok"} /\ tail \in {"done", "torn", "whole"}
  BY <1>1 DEF Ends
<1>4. g = [f EXCEPT !.header = header, !.lines = lines, !.tail = tail]
  <2>1. tail = CASE end = "none" -> f.tail
                 [] end = "done" -> "done"
                 [] end = "torn" -> "torn"
                 [] end = "whole" -> IF f.tail = "done" THEN "whole" ELSE "torn"
    BY DEF Ends
  <2>2. lines = IF f.tail = "done" /\ end \in {"done", "whole"} THEN Append(f.lines, e)
                ELSE IF (f.tail = "whole" /\ end # "none") /\ f.lines # <<>> THEN Front(f.lines)
                ELSE f.lines
    OBVIOUS
  <2> HIDE DEF tail, lines
  <2> QED
    BY <1>1, <2>1, <2>2 DEF AppendLine
<1> HIDE DEF header, lines, tail
<1>5. g = [exists |-> f.exists, header |-> header, lines |-> lines, tail |-> tail]
  BY <1>1, <1>4
<1>6. g \in DiskRecord /\ g.exists = f.exists /\ g.header = header /\ g.lines = lines /\ g.tail = tail
  BY <1>1, <1>2, <1>3, <1>5 DEF DiskRecord, Ends
<1> QED
  BY <1>6 DEF header, lines, tail

LEMMA AppendLineLoss ==
  ASSUME NEW f \in DiskRecord, NEW e \in Entry, NEW end \in Ends,
         NEW g, g = AppendLine(f, e, end),
         NEW acked \in SUBSET (1..MaxEntries), NEW cuts \in Nat,
         f.header # "torn",
         Cardinality(acked \ IdsOf(f.lines)) + AtStake(f.tail) <= 2 * cuts,
         g.header # "torn"
  PROVE  /\ end = "done" =>
              Cardinality((acked \cup {e.id}) \ IdsOf(g.lines)) + AtStake(g.tail) <= 2 * cuts
         /\ end # "done" =>
              Cardinality(acked \ IdsOf(g.lines)) + AtStake(g.tail) <= 2 * (cuts + 1)
<1> DEFINE lost == acked \ IdsOf(f.lines)
           after == (IF end = "done" THEN acked \cup {e.id} ELSE acked) \ IdsOf(g.lines)
<1>1. /\ g \in DiskRecord
      /\ g.header = IF f.tail = "whole" /\ end # "none" /\ f.lines = <<>> THEN "torn" ELSE f.header
      /\ g.lines = IF f.tail = "done" /\ end \in {"done", "whole"} THEN Append(f.lines, e)
                   ELSE IF f.tail = "whole" /\ end # "none" /\ f.lines # <<>> THEN Front(f.lines)
                   ELSE f.lines
      /\ g.tail = IF end = "none" THEN f.tail ELSE IF end = "done" THEN "done"
                    ELSE IF end = "whole" /\ f.tail = "done" THEN "whole" ELSE "torn"
  <2>1. f \in DiskRecord /\ e \in Entry /\ end \in Ends /\ g = AppendLine(f, e, end)
    OBVIOUS
  <2> QED
    BY ONLY <2>1, AppendLineFields
<1>2. /\ f.tail \in {"done", "torn", "whole"} /\ end \in {"done", "none", "torn", "whole"}
      /\ f.lines \in Seq(Entry) /\ g.lines \in Seq(Entry) /\ e.id \in 1..MaxEntries
  BY <1>1 DEF DiskRecord, Ends, Entry
<1>3. lost \in SUBSET (1..MaxEntries) /\ after \in SUBSET (1..MaxEntries)
  BY <1>2
<1>4. Cardinality(lost) \in Nat /\ Cardinality(after) \in Nat
  BY <1>3, FiniteAcked
<1>5. Cardinality(lost) + AtStake(f.tail) <= 2 * cuts
  OBVIOUS
<1> SUFFICES Cardinality(after) + AtStake(g.tail) <= 2 * (IF end = "done" THEN cuts ELSE cuts + 1)
  OBVIOUS
<1>6. CASE f.tail = "done"
  <2>1. IdsOf(Append(f.lines, e)) = IdsOf(f.lines) \cup {e.id}
    BY <1>2, SetOfAppended
  <2>2. after \subseteq lost
    BY <1>1, <1>2, <1>6, <2>1
  <2> HIDE DEF after, lost
  <2>3. Cardinality(after) <= Cardinality(lost)
    BY <1>3, <2>2, LossOfNone
  <2>4. AtStake(f.tail) = 0 /\ AtStake(g.tail) \in {0, 1, 2} /\ (end = "done" => AtStake(g.tail) = 0)
    BY <1>1, <1>2, <1>6 DEF AtStake
  <2> QED
    BY <1>4, <1>5, <2>3, <2>4
<1>7. CASE f.tail = "torn"
  <2>1. g.lines = f.lines
    BY <1>1, <1>2, <1>7
  <2>2. /\ end = "done" => after \subseteq lost \cup {e.id}
        /\ end # "done" => after \subseteq lost
    BY <2>1
  <2> HIDE DEF after, lost
  <2>3. /\ end = "done" => Cardinality(after) <= Cardinality(lost) + 1
        /\ end # "done" => Cardinality(after) <= Cardinality(lost)
    BY <1>3, <2>2, LossOfNone, LossOfSome
  <2>4. AtStake(f.tail) = 1 /\ AtStake(g.tail) \in {0, 1} /\ (end = "done" => AtStake(g.tail) = 0)
    BY <1>1, <1>2, <1>7 DEF AtStake
  <2> QED
    BY <1>4, <1>5, <2>3, <2>4
<1>8. CASE f.tail = "whole" /\ end = "none"
  <2>1. g.lines = f.lines
    BY <1>1, <1>2, <1>8
  <2>2. after \subseteq lost
    BY <1>8, <2>1
  <2> HIDE DEF after, lost
  <2>3. Cardinality(after) <= Cardinality(lost)
    BY <1>3, <2>2, LossOfNone
  <2>4. AtStake(f.tail) = 2 /\ AtStake(g.tail) = 2
    BY <1>1, <1>2, <1>8 DEF AtStake
  <2> QED
    BY <1>4, <1>5, <1>8, <2>3, <2>4
<1>9. CASE f.tail = "whole" /\ end # "none"
  <2>1. f.lines # <<>> /\ g.lines = Front(f.lines)
    BY <1>1, <1>2, <1>9
  <2>2. IdsOf(f.lines) \subseteq IdsOf(g.lines) \cup {Last(f.lines).id}
    BY <1>2, <2>1, SetOfFront
  <2> DEFINE first == acked \ IdsOf(g.lines)
  <2>3. first \subseteq lost \cup {Last(f.lines).id} /\ first \in SUBSET (1..MaxEntries)
    BY <2>2
  <2>4. /\ end = "done" => after \subseteq first \cup {e.id}
        /\ end # "done" => after \subseteq first
    OBVIOUS
  <2> HIDE DEF after, lost, first
  <2>5. Cardinality(first) \in Nat /\ Cardinality(first) <= Cardinality(lost) + 1
    BY <1>3, <2>3, LossOfSome, FiniteAcked
  <2>6. /\ end = "done" => Cardinality(after) <= Cardinality(first) + 1
        /\ end # "done" => Cardinality(after) <= Cardinality(first)
    BY <1>3, <2>3, <2>4, LossOfNone, LossOfSome
  <2>7. AtStake(f.tail) = 2 /\ AtStake(g.tail) \in {0, 1} /\ (end = "done" => AtStake(g.tail) = 0)
    BY <1>1, <1>2, <1>9 DEF AtStake
  <2> QED
    BY <1>4, <1>5, <2>5, <2>6, <2>7
<1> QED
  BY <1>2, <1>6, <1>7, <1>8, <1>9

LEMMA FirstFlushFields ==
  ASSUME NEW entries \in Seq(Entry), NEW cut, cut.end \in Ends, cut.lines \in Int,
         cut.lines <= Len(entries)
  PROVE  LET f == FirstFlush(entries, cut) IN
         /\ f \in DiskRecord /\ f.exists
         /\ ToSet(f.lines) \subseteq ToSet(entries)
         /\ cut.end = "done" => f = Rewritten(entries)
         /\ f.header = "none" => f.lines = <<>> /\ f.tail = "done"
<1> DEFINE f == FirstFlush(entries, cut)
           part == SubSeq(entries, 1, cut.lines)
<1>0. Len(entries) \in Nat /\ \A k \in 1..cut.lines : entries[k] \in Entry
  BY DOMAIN entries = 1..Len(entries)
<1>1. /\ part \in Seq(Entry)
      /\ Len(part) = IF 1 <= cut.lines THEN cut.lines - 1 + 1 ELSE 0
      /\ \A k \in 1..(cut.lines - 1 + 1) : part[k] = entries[1 + k - 1]
  BY <1>0, SubSeqProperties
<1>2. \A k \in 1..Len(part) : \E n \in 1..Len(entries) : part[k] = entries[n]
  <2> SUFFICES ASSUME NEW k \in 1..Len(part)
               PROVE  k \in 1..Len(entries) /\ part[k] = entries[k]
    OBVIOUS
  <2>1. k \in 1..(cut.lines - 1 + 1) /\ 1 + k - 1 = k /\ k \in 1..Len(entries)
    BY <1>0, <1>1
  <2> QED
    BY <1>1, <2>1
<1>3. PICK p \in Seq(Entry) : p = part
  BY <1>1
<1>4. ToSet(p) \subseteq ToSet(entries)
  <2>1. \A k \in 1..Len(p) : \E n \in 1..Len(entries) : p[k] = entries[n]
    BY <1>2, <1>3
  <2> QED
    BY <2>1, SetOfSome
<1>5. cut.lines < 0 => p = <<>>
  <2>1. cut.lines < 0 => Len(p) = 0
    BY <1>1, <1>3
  <2> QED
    BY <2>1
<1>6. CASE cut.end = "done"
  <2>1. f = [exists |-> TRUE, header |-> "ok", lines |-> entries, tail |-> "done"]
    BY <1>6 DEF FirstFlush, Rewritten
  <2>2. f = Rewritten(entries)
    BY <1>6 DEF FirstFlush
  <2> HIDE DEF f
  <2>3. f.exists /\ f.header = "ok" /\ f.lines = entries
    BY <2>1
  <2>4. f \in DiskRecord
    BY <2>1 DEF DiskRecord, Ends
  <2> QED
    BY <2>2, <2>3, <2>4 DEF f
<1>7. CASE cut.end # "done"
  <2>1. f = [exists |-> TRUE,
             header |-> IF cut.lines >= 0 \/ cut.end = "whole" THEN "ok" ELSE cut.end,
             lines |-> p, tail |-> IF cut.end = "none" THEN "done" ELSE cut.end]
    BY <1>3, <1>7 DEF FirstFlush
  <2>2. cut.end \in {"none", "torn", "whole"}
    BY <1>7 DEF Ends
  <2>3. f \in DiskRecord /\ f.exists /\ f.lines = p
    BY <2>1, <2>2 DEF DiskRecord, Ends
  <2>4. f.header = "none" => f.lines = <<>> /\ f.tail = "done"
    BY <1>5, <2>1, <2>2
  <2> QED
    BY <1>4, <1>7, <2>3, <2>4
<1> QED
  BY <1>6, <1>7

NowParts(now) ==
  /\ now.session \in SessionRecord /\ now.disk \in DiskRecord /\ now.counts \in CountRecord
  /\ now.ok \in BOOLEAN
  /\ now = [session |-> now.session, disk |-> now.disk, counts |-> now.counts, ok |-> now.ok]
  /\ now.session = [fileEntries |-> now.session.fileEntries, leafId |-> now.session.leafId,
                    labels |-> now.session.labels, flushed |-> now.session.flushed]
  /\ now.session.fileEntries \in Seq(Entry) /\ now.session.leafId \in 0..MaxEntries
  /\ now.session.labels \in SUBSET (1..MaxEntries) /\ now.session.flushed \in BOOLEAN
  /\ now.disk.lines \in Seq(Entry) /\ now.disk.exists \in BOOLEAN
  /\ now.disk.header \in {"none", "torn", "ok"} /\ now.disk.tail \in {"done", "torn", "whole"}
  /\ now.counts = [next |-> now.counts.next, events |-> now.counts.events,
                   forks |-> now.counts.forks, cuts |-> now.counts.cuts,
                   acked |-> now.counts.acked, forked |-> now.counts.forked]
  /\ now.counts.next \in Nat /\ now.counts.next # 0 /\ now.counts.events \in Nat
  /\ now.counts.forks \in Nat /\ now.counts.cuts \in Nat
  /\ now.counts.acked \in SUBSET (1..MaxEntries) /\ now.counts.forked \in 0..MaxEntries

LEMMA NowFields ==
  ASSUME NEW now \in NowRecord PROVE NowParts(now)
<1>1. /\ now.session \in SessionRecord /\ now.disk \in DiskRecord /\ now.counts \in CountRecord
      /\ now.ok \in BOOLEAN
      /\ now = [session |-> now.session, disk |-> now.disk, counts |-> now.counts, ok |-> now.ok]
  BY DEF NowRecord
<1>2. \A s \in SessionRecord :
        /\ s = [fileEntries |-> s.fileEntries, leafId |-> s.leafId, labels |-> s.labels,
                flushed |-> s.flushed]
        /\ s.fileEntries \in Seq(Entry) /\ s.leafId \in 0..MaxEntries
        /\ s.labels \in SUBSET (1..MaxEntries) /\ s.flushed \in BOOLEAN
  BY DEF SessionRecord
<1>3. \A d \in DiskRecord :
        /\ d.lines \in Seq(Entry) /\ d.exists \in BOOLEAN
        /\ d.header \in {"none", "torn", "ok"} /\ d.tail \in {"done", "torn", "whole"}
  BY DEF DiskRecord, Ends
<1>4. \A c \in CountRecord :
        /\ c = [next |-> c.next, events |-> c.events, forks |-> c.forks, cuts |-> c.cuts,
                acked |-> c.acked, forked |-> c.forked]
        /\ c.next \in Nat /\ c.next # 0 /\ c.events \in Nat
        /\ c.forks \in Nat /\ c.cuts \in Nat
        /\ c.acked \in SUBSET (1..MaxEntries) /\ c.forked \in 0..MaxEntries
  BY DEF CountRecord
<1> QED
  BY <1>1, <1>2, <1>3, <1>4 DEF NowParts

(* What a write leaves, field by field.                                     *)
IsWritten(now, f, ids, cut, r) ==
  /\ r \in NowRecord /\ r.disk = f
  /\ r.ok <=> cut.end = "done"
  /\ r.session.fileEntries = now.session.fileEntries
  /\ r.session.leafId = now.session.leafId
  /\ r.session.labels = now.session.labels
  /\ r.session.flushed <=> now.session.flushed \/ cut.end = "done"
  /\ r.counts.next = now.counts.next
  /\ cut.end = "done" => /\ r.counts.cuts = now.counts.cuts
                         /\ r.counts.acked = now.counts.acked \cup ids
  /\ cut.end # "done" => /\ r.counts.cuts = now.counts.cuts + 1
                         /\ r.counts.acked = now.counts.acked

LEMMA WroteFields ==
  ASSUME NEW now \in NowRecord, NEW f \in DiskRecord, NEW ids \in SUBSET (1..MaxEntries),
         NEW cut, cut.end \in Ends,
         NEW r, r = Wrote(now, f, ids, cut)
  PROVE  IsWritten(now, f, ids, cut, r)
<1> DEFINE done == cut.end = "done"
           s == [fileEntries |-> now.session.fileEntries, leafId |-> now.session.leafId,
                 labels |-> now.session.labels, flushed |-> now.session.flushed \/ done]
           c == [next |-> now.counts.next,
                 events |-> IF done THEN now.counts.events ELSE now.counts.events + 1,
                 forks |-> now.counts.forks,
                 cuts |-> IF done THEN now.counts.cuts ELSE now.counts.cuts + 1,
                 acked |-> IF done THEN now.counts.acked \cup ids ELSE now.counts.acked,
                 forked |-> now.counts.forked]
<1>1. NowParts(now)
  BY NowFields
<1>2. r = [session |-> s, disk |-> f, counts |-> c, ok |-> done]
  BY <1>1, ZenonT(60) DEF Wrote, NowParts
<1>3. done \in BOOLEAN
  OBVIOUS
<1>4. s \in SessionRecord
  BY <1>1, <1>3 DEF NowParts, SessionRecord
<1>5. c \in CountRecord
  <2>1. /\ (IF done THEN now.counts.events ELSE now.counts.events + 1) \in Nat
        /\ (IF done THEN now.counts.cuts ELSE now.counts.cuts + 1) \in Nat
        /\ (IF done THEN now.counts.acked \cup ids ELSE now.counts.acked) \in SUBSET (1..MaxEntries)
    BY <1>1 DEF NowParts
  <2> QED
    BY <1>1, <2>1 DEF NowParts, CountRecord
<1>6. r \in NowRecord
  <2> HIDE DEF s, c, done
  <2> QED
    BY <1>2, <1>3, <1>4, <1>5 DEF NowRecord
<1>7. /\ r.session = s /\ r.counts = c /\ r.disk = f /\ r.ok = done
  <2> HIDE DEF s, c, done
  <2> QED
    BY ONLY <1>2
<1>8. /\ s.fileEntries = now.session.fileEntries /\ s.labels = now.session.labels
      /\ s.leafId = now.session.leafId
      /\ s.flushed <=> now.session.flushed \/ done
      /\ c.next = now.counts.next
      /\ done => c.cuts = now.counts.cuts /\ c.acked = now.counts.acked \cup ids
      /\ ~done => c.cuts = now.counts.cuts + 1 /\ c.acked = now.counts.acked
  OBVIOUS
<1> HIDE DEF s, c
<1> QED
  BY <1>6, <1>7, <1>8 DEF IsWritten

LEMMA HasAssistantAppend ==
  ASSUME NEW entries \in Seq(Entry), NEW e \in Entry
  PROVE  HasAssistant(Append(entries, e)) <=> HasAssistant(entries) \/ e.type = "assistant"
<1>1. ToSet(Append(entries, e)) = ToSet(entries) \cup {e}
  BY SetOfAppended
<1> QED
  BY <1>1 DEF HasAssistant

LEMMA OlderAppend ==
  ASSUME NEW entries \in Seq(Entry), NEW next \in Nat, NEW e \in Entry,
         Older(entries, next), e.id <= next, e.ref < next
  PROVE  Older(Append(entries, e), next + 1) /\ Older(entries, next + 1)
<1>1. ToSet(Append(entries, e)) = ToSet(entries) \cup {e} /\ ToSet(entries) \subseteq Entry
  BY SetOfAppended, SetOfEntries
<1>2. ASSUME NEW f \in ToSet(entries) PROVE f.id < next + 1 /\ f.ref < next + 1
  <2>1. f.id \in Nat /\ f.ref \in Nat /\ f.id < next /\ f.ref < next
    <3>1. f \in Entry
      BY <1>1
    <3> QED
      BY <3>1, SessionFileAssumption DEF Entry, Older
  <2> QED
    BY <2>1
<1>3. e.id < next + 1 /\ e.ref < next + 1
  <2>1. e.id \in Nat /\ e.ref \in Nat
    BY SessionFileAssumption DEF Entry
  <2> QED
    BY <2>1
<1> QED
  BY <1>1, <1>2, <1>3 DEF Older

LEMMA OlderSome ==
  ASSUME NEW entries \in Seq(Entry), NEW some \in Seq(Entry), NEW next \in Nat,
         Older(entries, next), ToSet(some) \subseteq ToSet(entries)
  PROVE  Older(some, next)
  BY DEF Older

(* The entry as _appendEntry puts it in memory.                            *)
InMemory(now, e) ==
  [now EXCEPT !.session.fileEntries = Append(@, e),
              !.session.leafId = e.id,
              !.counts.next = @ + 1]

LEMMA AppendedFields ==
  ASSUME NEW now \in NowRecord, NEW e \in Entry, NEW r, r = InMemory(now, e)
  PROVE  /\ r \in NowRecord /\ r.disk = now.disk /\ r.ok = now.ok
         /\ r.session.fileEntries = Append(now.session.fileEntries, e)
         /\ r.session.leafId = e.id
         /\ r.session.labels = now.session.labels
         /\ r.session.flushed = now.session.flushed
         /\ r.counts.next = now.counts.next + 1
         /\ r.counts.cuts = now.counts.cuts
         /\ r.counts.acked = now.counts.acked
<1> DEFINE s == [fileEntries |-> Append(now.session.fileEntries, e), leafId |-> e.id,
                 labels |-> now.session.labels, flushed |-> now.session.flushed]
           c == [next |-> now.counts.next + 1, events |-> now.counts.events,
                 forks |-> now.counts.forks, cuts |-> now.counts.cuts,
                 acked |-> now.counts.acked, forked |-> now.counts.forked]
<1>1. NowParts(now)
  BY NowFields
<1>2. r = [session |-> s, disk |-> now.disk, counts |-> c, ok |-> now.ok]
  BY <1>1, ZenonT(60) DEF NowParts, InMemory
<1>3. s \in SessionRecord
  <2>1. Append(now.session.fileEntries, e) \in Seq(Entry)
    BY <1>1 DEF NowParts
  <2>2. e.id \in 0..MaxEntries
    BY SessionFileAssumption DEF Entry
  <2> QED
    BY <1>1, <2>1, <2>2 DEF NowParts, SessionRecord
<1>4. c \in CountRecord
  <2>1. now.counts.next + 1 \in Nat \ {0}
    BY <1>1 DEF NowParts
  <2> QED
    BY <1>1, <2>1 DEF NowParts, CountRecord
<1>5. r \in NowRecord
  <2> HIDE DEF s, c
  <2> QED
    BY <1>1, <1>2, <1>3, <1>4 DEF NowRecord, NowParts
<1>6. r.session = s /\ r.counts = c /\ r.disk = now.disk /\ r.ok = now.ok
  <2> HIDE DEF s, c
  <2> QED
    BY ONLY <1>2
<1>7. /\ s.fileEntries = Append(now.session.fileEntries, e) /\ s.leafId = e.id
      /\ s.labels = now.session.labels /\ s.flushed = now.session.flushed
      /\ c.next = now.counts.next + 1 /\ c.cuts = now.counts.cuts /\ c.acked = now.counts.acked
  OBVIOUS
<1> HIDE DEF s, c
<1> QED
  BY <1>5, <1>6, <1>7

(* What an append of one entry starts from and what it takes.              *)
Appending(now, type, ref, covers, cut) ==
  /\ now.ok
  /\ FileGood(now)
  /\ now.counts.next <= MaxEntries
  /\ type \in SessionEntryTypes /\ ref \in 0..MaxEntries /\ ref < now.counts.next
  /\ covers \in SUBSET (1..MaxEntries)
  /\ cut.end \in Ends /\ cut.lines \in Int /\ cut.lines <= Len(now.session.fileEntries)

NewEntry(now, type, ref, covers) ==
  [id |-> now.counts.next, parent |-> now.session.leafId, type |-> type,
   ref |-> ref, covers |-> covers]

(* One append leaves a session and a file that go together, and every      *)
(* write cut short pays for what it puts at stake.                         *)
LEMMA AppendKeepsGood ==
  ASSUME NEW now, NEW type, NEW ref, NEW covers, NEW cut,
         Appending(now, type, ref, covers, cut),
         NEW r, r = AppendSessionEntry(now, type, ref, covers, cut)
  PROVE  /\ FileGood(r)
         /\ r.session.fileEntries = Append(now.session.fileEntries, NewEntry(now, type, ref, covers))
         /\ r.session.leafId = now.counts.next
         /\ r.session.labels = now.session.labels
         /\ r.counts.next = now.counts.next + 1
         /\ r.counts.cuts >= now.counts.cuts
<1> DEFINE e == NewEntry(now, type, ref, covers)
<1>1. /\ now \in NowRecord /\ NowParts(now) /\ now.ok /\ OlderThanNext(now) /\ FileSound(now)
      /\ LossBounded(now) /\ FileFollows(now)
  BY NowFields DEF Appending, FileGood
<1>2. e \in Entry /\ e.id = now.counts.next /\ e.ref = ref /\ e.type = type
  <2>1. now.counts.next \in 1..MaxEntries /\ now.session.leafId \in 0..MaxEntries
    BY <1>1, SessionFileAssumption DEF Appending, NowParts
  <2> QED
    BY <2>1 DEF Appending, NewEntry, Entry
<1>3. r = Persist(InMemory(now, e), e, cut)
  BY DEF AppendSessionEntry, NewEntry, InMemory
<1>4. PICK q : q = InMemory(now, e)
  OBVIOUS
<1>5. /\ q \in NowRecord /\ q.disk = now.disk /\ q.ok = now.ok
      /\ q.session.fileEntries = Append(now.session.fileEntries, e)
      /\ q.session.leafId = e.id
      /\ q.session.labels = now.session.labels
      /\ q.session.flushed = now.session.flushed
      /\ q.counts.next = now.counts.next + 1
      /\ q.counts.cuts = now.counts.cuts
      /\ q.counts.acked = now.counts.acked
  <2>1. now \in NowRecord /\ e \in Entry /\ q = InMemory(now, e)
    BY <1>1, <1>2, <1>4
  <2> HIDE DEF e
  <2> QED
    BY ONLY <2>1, AppendedFields
<1>6. r = Persist(q, e, cut)
  BY <1>3, <1>4
<1> DEFINE entries == q.session.fileEntries
<1>7. /\ NowParts(q) /\ entries \in Seq(Entry) /\ now.session.fileEntries \in Seq(Entry)
      /\ Len(entries) = Len(now.session.fileEntries) + 1
      /\ IdsOf(entries) \in SUBSET (1..MaxEntries) /\ {e.id} \in SUBSET (1..MaxEntries)
      /\ HasAssistant(entries) <=> HasAssistant(now.session.fileEntries) \/ type = "assistant"
  <2> HIDE DEF e
  <2>1. now.session.fileEntries \in Seq(Entry) /\ e \in Entry
    BY <1>1, <1>2 DEF NowParts
  <2>2. /\ entries \in Seq(Entry) /\ Len(entries) = Len(now.session.fileEntries) + 1
        /\ HasAssistant(entries) <=> HasAssistant(now.session.fileEntries) \/ type = "assistant"
    BY <1>2, <1>5, <2>1, SetOfAppended, HasAssistantAppend
  <2>3. NowParts(q)
    BY <1>5, NowFields
  <2>4. IdsOf(entries) \in SUBSET (1..MaxEntries)
    BY <2>2, SetOfEntries
  <2>5. {e.id} \in SUBSET (1..MaxEntries)
    BY <1>2 DEF Entry
  <2> QED
    BY <2>1, <2>2, <2>3, <2>4, <2>5
<1>8. OlderThanNext(q)
  <2> HIDE DEF e
  <2>1. now.counts.next \in Nat /\ now.disk.lines \in Seq(Entry) /\ ref < now.counts.next
    BY <1>1 DEF NowParts, Appending
  <2>2. e.id <= now.counts.next /\ e.ref < now.counts.next
    BY <1>2, <2>1
  <2>3. Older(Append(now.session.fileEntries, e), now.counts.next + 1)
    BY <1>1, <1>2, <1>7, <2>1, <2>2, OlderAppend DEF OlderThanNext
  <2>4. Older(now.disk.lines, now.counts.next + 1)
    BY <1>1, <1>2, <2>1, <2>2, OlderAppend DEF OlderThanNext
  <2> QED
    BY <1>5, <2>3, <2>4 DEF OlderThanNext
<1>9. e.id < q.counts.next /\ e.ref < q.counts.next
  <2>1. now.counts.next \in Nat /\ ref \in Nat /\ ref < now.counts.next
    BY <1>1, SessionFileAssumption DEF NowParts, Appending
  <2> QED
    BY <1>2, <1>5, <2>1
<1>10. cut.end \in Ends /\ cut.lines \in Int /\ cut.lines <= Len(entries)
  <2>1. Len(now.session.fileEntries) \in Nat
    BY <1>7
  <2> QED
    BY <1>7, <2>1 DEF Appending
<1>11. FileSound(q)
  BY <1>1, <1>5 DEF FileSound
<1>12. q.ok /\ q.counts.cuts \in Nat /\ q.counts.acked \in SUBSET (1..MaxEntries) /\ q.disk \in DiskRecord
  BY <1>1, <1>5, <1>7 DEF NowParts
<1>13. LossBounded(q)
  BY <1>1, <1>5 DEF LossBounded
<1> HIDE DEF e
<1>14. SUFFICES /\ r \in NowRecord /\ OlderThanNext(r) /\ FileSound(r) /\ LossBounded(r)
                /\ FileFollows(r)
                /\ r.ok \/ r.counts.cuts > 0
                /\ r.session.fileEntries = entries /\ r.session.labels = q.session.labels
                /\ r.session.leafId = q.session.leafId
                /\ r.counts.next = q.counts.next /\ r.counts.cuts >= q.counts.cuts
  BY <1>2, <1>5 DEF FileGood, e
<1>15. CASE q.session.flushed
  <2>1. PICK f : f = AppendLine(q.disk, e, cut.end)
    OBVIOUS
  <2>2. /\ q.disk \in DiskRecord /\ e \in Entry /\ cut.end \in Ends /\ f = AppendLine(q.disk, e, cut.end)
    BY <1>2, <1>10, <1>12, <2>1
  <2>3. /\ f \in DiskRecord /\ f.exists = q.disk.exists
        /\ f.header = IF q.disk.tail = "whole" /\ cut.end # "none" /\ q.disk.lines = <<>>
                      THEN "torn" ELSE q.disk.header
        /\ f.lines = IF q.disk.tail = "done" /\ cut.end \in {"done", "whole"} THEN Append(q.disk.lines, e)
                     ELSE IF q.disk.tail = "whole" /\ cut.end # "none" /\ q.disk.lines # <<>>
                          THEN Front(q.disk.lines)
                     ELSE q.disk.lines
        /\ f.tail = IF cut.end = "none" THEN q.disk.tail ELSE IF cut.end = "done" THEN "done"
                    ELSE IF cut.end = "whole" /\ q.disk.tail = "done" THEN "whole" ELSE "torn"
    BY ONLY <2>2, AppendLineFields
  <2>4. PICK ids : ids = {e.id}
    OBVIOUS
  <2>5. r = Wrote(q, f, ids, cut)
    BY <1>6, <1>15, <2>1, <2>4 DEF Persist
  <2>6. q \in NowRecord /\ ids \in SUBSET (1..MaxEntries)
    BY <1>5, <1>7, <2>4
  <2>7. /\ r \in NowRecord /\ r.disk = f
        /\ r.ok <=> cut.end = "done"
        /\ r.session.fileEntries = q.session.fileEntries
        /\ r.session.leafId = q.session.leafId
        /\ r.session.labels = q.session.labels
        /\ r.session.flushed <=> q.session.flushed \/ cut.end = "done"
        /\ r.counts.next = q.counts.next
        /\ cut.end = "done" => /\ r.counts.cuts = q.counts.cuts
                               /\ r.counts.acked = q.counts.acked \cup ids
        /\ cut.end # "done" => /\ r.counts.cuts = q.counts.cuts + 1
                               /\ r.counts.acked = q.counts.acked
    <3>1. q \in NowRecord /\ f \in DiskRecord /\ ids \in SUBSET (1..MaxEntries)
          /\ cut.end \in Ends /\ r = Wrote(q, f, ids, cut)
      BY <2>2, <2>3, <2>5, <2>6
    <3>2. IsWritten(q, f, ids, cut, r)
      BY ONLY <3>1, WroteFields
    <3> QED
      BY ONLY <3>2 DEF IsWritten
  <2>8. OlderThanNext(r)
    <3>1. q.disk.lines \in Seq(Entry) /\ f.lines \in Seq(Entry)
      BY <1>7, <2>3 DEF NowParts, DiskRecord
    <3>2. ToSet(f.lines) \subseteq ToSet(q.disk.lines) \cup {e}
      <4>1. ToSet(Append(q.disk.lines, e)) = ToSet(q.disk.lines) \cup {e}
        BY <1>2, <3>1, SetOfAppended
      <4>2. q.disk.lines # <<>> => ToSet(Front(q.disk.lines)) \subseteq ToSet(q.disk.lines)
        BY <3>1, SetOfFront
      <4> QED
        BY <2>3, <4>1, <4>2
    <3>3. Older(f.lines, q.counts.next)
      BY <1>8, <1>9, <3>2 DEF OlderThanNext, Older
    <3> QED
      BY <1>8, <2>7, <3>3 DEF OlderThanNext
  <2>9. FileSound(r)
    <3>1. q.disk.exists /\ q.disk.header # "none"
      BY <1>11, <1>15 DEF FileSound
    <3>2. f.exists /\ f.header # "none"
      BY <2>3, <3>1
    <3> QED
      BY <2>7, <3>2 DEF FileSound
  <2>10. LossBounded(r)
    <3> SUFFICES ASSUME f.header # "torn"
                 PROVE  Cardinality(r.counts.acked \ IdsOf(f.lines)) + AtStake(f.tail)
                          <= 2 * r.counts.cuts
      BY <2>7 DEF LossBounded
    <3>1. q.disk.header # "torn"
      BY <2>3
    <3>2. Cardinality(q.counts.acked \ IdsOf(q.disk.lines)) + AtStake(q.disk.tail) <= 2 * q.counts.cuts
      BY <1>13, <3>1 DEF LossBounded
    <3>3. f.header # "torn"
      OBVIOUS
    <3>4. /\ cut.end = "done" =>
               Cardinality((q.counts.acked \cup {e.id}) \ IdsOf(f.lines)) + AtStake(f.tail)
                 <= 2 * q.counts.cuts
          /\ cut.end # "done" =>
               Cardinality(q.counts.acked \ IdsOf(f.lines)) + AtStake(f.tail)
                 <= 2 * (q.counts.cuts + 1)
      <4>1. PICK d, acked, c, end, n : d = q.disk /\ acked = q.counts.acked /\ c = q.counts.cuts
                                      /\ end = cut.end /\ n = e
        OBVIOUS
      <4>2. /\ d \in DiskRecord /\ n \in Entry /\ end \in Ends /\ f = AppendLine(d, n, end)
            /\ acked \in SUBSET (1..MaxEntries) /\ c \in Nat
            /\ d.header # "torn" /\ f.header # "torn"
            /\ Cardinality(acked \ IdsOf(d.lines)) + AtStake(d.tail) <= 2 * c
        BY ONLY <1>12, <2>2, <3>1, <3>2, <3>3, <4>1
      <4>3. /\ end = "done" =>
                 Cardinality((acked \cup {n.id}) \ IdsOf(f.lines)) + AtStake(f.tail) <= 2 * c
            /\ end # "done" =>
                 Cardinality(acked \ IdsOf(f.lines)) + AtStake(f.tail) <= 2 * (c + 1)
        BY ONLY <4>2, AppendLineLoss
      <4> QED
        BY ONLY <4>1, <4>3
    <3> QED
      BY <2>4, <2>7, <3>4
  <2>11. FileFollows(r)
    <3> SUFFICES ASSUME r.counts.cuts = 0
                 PROVE  /\ f = Rewritten(entries) /\ HasAssistant(entries)
      BY <1>15, <2>7 DEF FileFollows
    <3>1. cut.end = "done" /\ q.counts.cuts = 0
      BY <1>12, <2>7
    <3>2. now.disk = Rewritten(now.session.fileEntries) /\ HasAssistant(now.session.fileEntries)
      BY <1>1, <1>5, <1>15, <3>1 DEF FileFollows
    <3>3. q.disk.tail = "done" /\ q.disk.exists /\ q.disk.header = "ok" /\ q.disk.lines = now.session.fileEntries
      BY <1>5, <3>2 DEF Rewritten
    <3>4. f.exists /\ f.header = "ok" /\ f.tail = "done" /\ f.lines = entries
      BY <1>5, <2>3, <3>1, <3>3
    <3>5. f = [exists |-> f.exists, header |-> f.header, lines |-> f.lines, tail |-> f.tail]
      BY <2>3 DEF DiskRecord
    <3>6. f = Rewritten(entries)
      BY <3>4, <3>5 DEF Rewritten
    <3> QED
      BY <1>7, <3>2, <3>6
  <2>12. (r.ok \/ r.counts.cuts > 0) /\ r.counts.cuts >= q.counts.cuts
    BY <1>12, <2>7
  <2> QED
    BY <2>7, <2>8, <2>9, <2>10, <2>11, <2>12
<1>16. CASE ~q.session.flushed /\ ~HasAssistant(entries)
  <2>1. r = q
    BY <1>6, <1>16 DEF Persist
  <2>2. FileFollows(q)
    <3> SUFFICES ASSUME q.counts.cuts = 0
                 PROVE  /\ q.disk = NoSessionFile /\ ~HasAssistant(entries)
      <4>1. q.session.flushed \in BOOLEAN /\ HasAssistant(entries) \in BOOLEAN
        BY <1>7 DEF NowParts, HasAssistant
      <4>2. q.session.flushed = FALSE /\ HasAssistant(entries) = FALSE
        BY <1>16, <4>1
      <4> QED
        BY <1>16, <4>2 DEF FileFollows
    <3>1. now.disk = NoSessionFile
      BY <1>1, <1>5, <1>16 DEF FileFollows
    <3> QED
      BY <1>5, <1>16, <3>1
  <2>3. q.counts.cuts >= q.counts.cuts
    BY <1>12
  <2> QED
    BY <1>5, <1>8, <1>11, <1>12, <1>13, <2>1, <2>2, <2>3
<1>17. CASE ~q.session.flushed /\ HasAssistant(entries) /\ q.disk.exists
  <2>1. r = [q EXCEPT !.ok = FALSE]
    BY <1>6, <1>17 DEF Persist
  <2>2. r = [session |-> q.session, disk |-> q.disk, counts |-> q.counts, ok |-> FALSE]
    BY <1>7, <2>1 DEF NowParts
  <2>3. r \in NowRecord
    BY <1>7, <2>2 DEF NowParts, NowRecord
  <2>4. r.session = q.session /\ r.disk = q.disk /\ r.counts = q.counts
    BY <2>2
  <2>5. q.counts.cuts > 0
    <3> SUFFICES ASSUME q.counts.cuts = 0 PROVE FALSE
      BY <1>12
    <3>1. now.disk = NoSessionFile
      BY <1>1, <1>5, <1>17 DEF FileFollows
    <3> QED
      BY <1>5, <1>17, <3>1 DEF NoSessionFile
  <2>6. q.counts.cuts >= q.counts.cuts /\ q.counts.cuts # 0
    BY <1>12, <2>5
  <2>7. FileFollows(r) /\ FileSound(r) /\ LossBounded(r) /\ OlderThanNext(r)
    BY <1>8, <1>11, <1>13, <2>4, <2>6 DEF FileFollows, FileSound, LossBounded, OlderThanNext
  <2> QED
    BY <2>3, <2>4, <2>5, <2>6, <2>7
<1>18. CASE ~q.session.flushed /\ HasAssistant(entries) /\ ~q.disk.exists
  <2>1. PICK f : f = FirstFlush(entries, cut)
    OBVIOUS
  <2>2. /\ f \in DiskRecord /\ f.exists
        /\ ToSet(f.lines) \subseteq ToSet(entries)
        /\ cut.end = "done" => f = Rewritten(entries)
        /\ f.header = "none" => f.lines = <<>> /\ f.tail = "done"
    BY <1>7, <1>10, <2>1, FirstFlushFields
  <2>3. PICK ids : ids = IdsOf(entries)
    OBVIOUS
  <2>4. r = Wrote(q, f, ids, cut)
    BY <1>6, <1>18, <2>1, <2>3 DEF Persist
  <2>5. q \in NowRecord /\ ids \in SUBSET (1..MaxEntries) /\ cut.end \in Ends
    BY <1>5, <1>7, <1>10, <2>3
  <2>6. /\ r \in NowRecord /\ r.disk = f
        /\ r.ok <=> cut.end = "done"
        /\ r.session.fileEntries = q.session.fileEntries
        /\ r.session.leafId = q.session.leafId
        /\ r.session.labels = q.session.labels
        /\ r.session.flushed <=> q.session.flushed \/ cut.end = "done"
        /\ r.counts.next = q.counts.next
        /\ cut.end = "done" => /\ r.counts.cuts = q.counts.cuts
                               /\ r.counts.acked = q.counts.acked \cup ids
        /\ cut.end # "done" => /\ r.counts.cuts = q.counts.cuts + 1
                               /\ r.counts.acked = q.counts.acked
    <3>1. q \in NowRecord /\ f \in DiskRecord /\ ids \in SUBSET (1..MaxEntries)
          /\ cut.end \in Ends /\ r = Wrote(q, f, ids, cut)
      BY <2>2, <2>4, <2>5
    <3>2. IsWritten(q, f, ids, cut, r)
      BY ONLY <3>1, WroteFields
    <3> QED
      BY ONLY <3>2 DEF IsWritten
  <2>7. OlderThanNext(r)
    BY <1>8, <2>2, <2>6 DEF OlderThanNext, Older
  <2>8. q.counts.acked = {}
    BY <1>11, <1>18 DEF FileSound
  <2>9. Rewritten(entries).header = "ok" /\ Rewritten(entries).tail = "done" /\ Rewritten(entries).lines = entries
    BY DEF Rewritten
  <2>10. FileSound(r)
    BY <1>18, <2>2, <2>6, <2>9 DEF FileSound
  <2>11. r.counts.acked \ IdsOf(f.lines) = {}
    <3>1. CASE cut.end = "done"
      BY <2>2, <2>3, <2>6, <2>8, <2>9, <3>1
    <3>2. CASE cut.end # "done"
      BY <2>6, <2>8, <3>2
    <3> QED
      BY <3>1, <3>2
  <2>12. LossBounded(r)
    <3>1. AtStake(f.tail) \in {0, 1, 2} /\ (cut.end = "done" => AtStake(f.tail) = 0)
      BY <2>2, <2>9 DEF AtStake
    <3>2. Cardinality(r.counts.acked \ IdsOf(f.lines)) = 0
      BY <2>11, FS_EmptySet
    <3>3. r.counts.cuts \in Nat /\ (cut.end # "done" => r.counts.cuts >= 1)
      BY <1>12, <2>6
    <3>4. Cardinality(r.counts.acked \ IdsOf(f.lines)) + AtStake(f.tail) <= 2 * r.counts.cuts
      BY <3>1, <3>2, <3>3
    <3> QED
      BY <2>6, <3>4 DEF LossBounded
  <2>13. FileFollows(r)
    <3> SUFFICES ASSUME r.counts.cuts = 0
                 PROVE  f = Rewritten(entries) /\ r.session.flushed = TRUE
      BY <1>18, <2>6 DEF FileFollows
    <3>1. cut.end = "done"
      BY <1>12, <2>6
    <3> QED
      BY <2>2, <2>6, <3>1
  <2>14. (r.ok \/ r.counts.cuts > 0) /\ r.counts.cuts >= q.counts.cuts
    BY <1>12, <2>6
  <2> QED
    BY <2>6, <2>7, <2>10, <2>12, <2>13, <2>14
<1> QED
  BY <1>15, <1>16, <1>17, <1>18

Ready(now) == FileGood(now) /\ LabelsFollow(now) /\ TreeFollows(now)

(* What the invariant does not look at may change.                         *)
LEMMA GoodFields ==
  ASSUME NEW now, NEW r \in NowRecord, FileGood(now),
         r.session.fileEntries = now.session.fileEntries,
         r.session.flushed = now.session.flushed,
         r.disk = now.disk, r.counts.next = now.counts.next,
         r.counts.cuts = now.counts.cuts, r.counts.acked = now.counts.acked, now.ok => r.ok
  PROVE  /\ FileGood(r)
         /\ r.session.labels = now.session.labels /\ LabelsFollow(now) => LabelsFollow(r)
         /\ r.session.leafId = now.session.leafId /\ TreeFollows(now) => TreeFollows(r)
<1>1. /\ OlderThanNext(now) /\ FileSound(now) /\ LossBounded(now) /\ FileFollows(now)
      /\ now.ok \/ now.counts.cuts > 0
  BY DEF FileGood
<1>2. OlderThanNext(r)
  BY <1>1 DEF OlderThanNext
<1>3. FileSound(r)
  BY <1>1 DEF FileSound
<1>4. LossBounded(r)
  BY <1>1 DEF LossBounded
<1>5. FileFollows(r)
  BY <1>1 DEF FileFollows
<1>6. FileGood(r)
  BY <1>1, <1>2, <1>3, <1>4, <1>5 DEF FileGood
<1>7. r.session.labels = now.session.labels /\ LabelsFollow(now) => LabelsFollow(r)
  BY DEF LabelsFollow
<1>8. r.session.leafId = now.session.leafId /\ TreeFollows(now) => TreeFollows(r)
  BY DEF TreeFollows, TreeOf
<1> QED
  BY <1>6, <1>7, <1>8

Relabelled(now, labels) == [now EXCEPT !.session.labels = labels]
AtLeaf(now, leaf) == [now EXCEPT !.session.leafId = leaf]

LEMMA RelabelledFields ==
  ASSUME NEW now \in NowRecord, NEW labels \in SUBSET (1..MaxEntries),
         NEW r, r = Relabelled(now, labels)
  PROVE  /\ r \in NowRecord /\ r.session.labels = labels
         /\ r.session.leafId = now.session.leafId
         /\ r.session.fileEntries = now.session.fileEntries
         /\ r.session.flushed = now.session.flushed
         /\ r.disk = now.disk /\ r.counts = now.counts /\ r.ok = now.ok
<1> DEFINE s == [fileEntries |-> now.session.fileEntries, leafId |-> now.session.leafId,
                 labels |-> labels, flushed |-> now.session.flushed]
<1>1. NowParts(now)
  BY NowFields
<1>2. r = [session |-> s, disk |-> now.disk, counts |-> now.counts, ok |-> now.ok]
  BY <1>1, ZenonT(60) DEF NowParts, Relabelled
<1>3. s \in SessionRecord
  BY <1>1 DEF NowParts, SessionRecord
<1>4. /\ s.labels = labels /\ s.fileEntries = now.session.fileEntries
      /\ s.leafId = now.session.leafId
      /\ s.flushed = now.session.flushed
  OBVIOUS
<1> HIDE DEF s
<1>5. r \in NowRecord
  BY <1>1, <1>2, <1>3 DEF NowRecord, NowParts
<1>6. r.session = s /\ r.disk = now.disk /\ r.counts = now.counts /\ r.ok = now.ok
  BY ONLY <1>2
<1> QED
  BY <1>4, <1>5, <1>6

LEMMA EventFields ==
  ASSUME NEW now \in NowRecord, NEW r, r = Event(now)
  PROVE  /\ r \in NowRecord /\ r.session = now.session
         /\ r.disk = now.disk /\ r.ok = now.ok /\ r.counts.next = now.counts.next
         /\ r.counts.cuts = now.counts.cuts /\ r.counts.acked = now.counts.acked
<1> DEFINE c == [next |-> now.counts.next, events |-> now.counts.events + 1,
                 forks |-> now.counts.forks, cuts |-> now.counts.cuts,
                 acked |-> now.counts.acked, forked |-> now.counts.forked]
<1>1. NowParts(now)
  BY NowFields
<1>2. r = [session |-> now.session, disk |-> now.disk, counts |-> c, ok |-> now.ok]
  BY <1>1, ZenonT(60) DEF NowParts, Event
<1>3. c \in CountRecord
  <2>1. now.counts.events + 1 \in Nat
    BY <1>1 DEF NowParts
  <2> QED
    BY <1>1, <2>1 DEF NowParts, CountRecord
<1>4. c.next = now.counts.next /\ c.cuts = now.counts.cuts /\ c.acked = now.counts.acked
  OBVIOUS
<1> HIDE DEF c
<1>5. r \in NowRecord
  BY <1>1, <1>2, <1>3 DEF NowRecord, NowParts
<1>6. r.session = now.session /\ r.disk = now.disk /\ r.counts = c /\ r.ok = now.ok
  BY ONLY <1>2
<1> QED
  BY <1>4, <1>5, <1>6

LEMMA MovedFields ==
  ASSUME NEW now \in NowRecord, NEW leaf \in 0..MaxEntries,
         NEW r, r = AtLeaf(now, leaf)
  PROVE  /\ r \in NowRecord /\ r.session.labels = now.session.labels
         /\ r.session.leafId = leaf
         /\ r.session.fileEntries = now.session.fileEntries
         /\ r.session.flushed = now.session.flushed
         /\ r.disk = now.disk /\ r.counts = now.counts /\ r.ok = now.ok
<1> DEFINE s == [fileEntries |-> now.session.fileEntries, leafId |-> leaf,
                 labels |-> now.session.labels, flushed |-> now.session.flushed]
<1>1. NowParts(now)
  BY NowFields
<1>2. r = [session |-> s, disk |-> now.disk, counts |-> now.counts, ok |-> now.ok]
  BY <1>1, ZenonT(60) DEF NowParts, AtLeaf
<1>3. s \in SessionRecord
  BY <1>1 DEF NowParts, SessionRecord
<1>4. /\ s.labels = now.session.labels /\ s.fileEntries = now.session.fileEntries
      /\ s.leafId = leaf
      /\ s.flushed = now.session.flushed
  OBVIOUS
<1> HIDE DEF s
<1>5. r \in NowRecord
  BY <1>1, <1>2, <1>3 DEF NowRecord, NowParts
<1>6. r.session = s /\ r.disk = now.disk /\ r.counts = now.counts /\ r.ok = now.ok
  BY ONLY <1>2
<1> QED
  BY <1>4, <1>5, <1>6

LEMMA NewEntryIs ==
  ASSUME NEW now, NEW type, NEW ref, NEW covers, NEW cut,
         Appending(now, type, ref, covers, cut),
         NEW e, e = NewEntry(now, type, ref, covers)
  PROVE  /\ e \in Entry /\ e.id = now.counts.next /\ e.parent = now.session.leafId
         /\ e.type = type /\ e.ref = ref
<1>1. now.counts.next \in 1..MaxEntries /\ now.session.leafId \in 0..MaxEntries
  <2>1. NowParts(now)
    BY NowFields DEF Appending, FileGood
  <2> QED
    BY <2>1, SessionFileAssumption DEF Appending, NowParts
<1> QED
  BY <1>1 DEF Appending, NewEntry, Entry

(* An entry that may follow the leaf leaves every branch complete.         *)
LEMMA AppendKeepsTree ==
  ASSUME NEW now, NEW type, NEW ref, NEW covers, NEW cut,
         Appending(now, type, ref, covers, cut), TreeFollows(now),
         NEW e, e = NewEntry(now, type, ref, covers),
         now.counts.cuts = 0 =>
           MayFollow(Path(now.session.fileEntries, now.session.leafId), e),
         NEW r, FileGood(r),
         r.session.fileEntries = Append(now.session.fileEntries, e),
         r.session.leafId = now.counts.next,
         r.counts.cuts >= now.counts.cuts
  PROVE  TreeFollows(r)
<1> SUFFICES ASSUME r.counts.cuts = 0 PROVE TreeOf(r.session)
  BY DEF TreeFollows
<1>1. NowParts(now) /\ OlderThanNext(now) /\ ref < now.counts.next
  BY NowFields DEF Appending, FileGood
<1>2. now.counts.cuts = 0
  BY <1>1 DEF NowParts
<1>3. TreeOf(now.session)
  BY <1>2 DEF TreeFollows
<1>4. /\ e \in Entry /\ e.id = now.counts.next /\ e.parent = now.session.leafId
      /\ e.ref = ref
  BY NewEntryIs
<1>5. PICK s, all : s = now.session.fileEntries /\ all = Append(s, e)
  OBVIOUS
<1>6. s \in Seq(Entry) /\ \A i \in IdsOf(s) : i < e.id
  <2>1. s \in Seq(Entry) /\ Older(s, e.id)
    BY <1>1, <1>4, <1>5 DEF NowParts, OlderThanNext
  <2> QED
    BY <2>1 DEF Older, IdsOf
<1>7. /\ OlderParents(s) /\ AllComplete(s) /\ e.parent \in IdsOf(s) \cup {NoId}
      /\ MayFollow(Path(s, e.parent), e)
  BY <1>2, <1>3, <1>4, <1>5 DEF TreeOf
<1>8. IsCompaction(e) => e.ref < e.id
  BY <1>1, <1>4
<1>9. OlderParents(all) /\ AllComplete(all)
  BY <1>4, <1>5, <1>6, <1>7, <1>8, AppendComplete
<1>10. e.id \in IdsOf(all)
  BY <1>4, <1>5, <1>6, SetOfAppended
<1> QED
  BY <1>4, <1>5, <1>9, <1>10 DEF TreeOf

(* An entry that is no label changes none.                                 *)
LEMMA AppendKeepsReady ==
  ASSUME NEW now, NEW type, NEW ref, NEW covers, NEW cut,
         Appending(now, type, ref, covers, cut), LabelsFollow(now), TreeFollows(now),
         type \notin {"label", "unlabel"},
         now.counts.cuts = 0 =>
           MayFollow(Path(now.session.fileEntries, now.session.leafId),
                     NewEntry(now, type, ref, covers)),
         NEW r, r = AppendSessionEntry(now, type, ref, covers, cut)
  PROVE  /\ Ready(r) /\ r.counts.next = now.counts.next + 1
         /\ r.session.fileEntries
              = Append(now.session.fileEntries, NewEntry(now, type, ref, covers))
         /\ r.session.leafId = now.counts.next /\ r.counts.cuts >= now.counts.cuts
<1>1. /\ FileGood(r)
      /\ r.session.fileEntries = Append(now.session.fileEntries, NewEntry(now, type, ref, covers))
      /\ r.session.leafId = now.counts.next
      /\ r.session.labels = now.session.labels
      /\ r.counts.next = now.counts.next + 1
      /\ r.counts.cuts >= now.counts.cuts
  BY AppendKeepsGood
<1>2. /\ now \in NowRecord /\ NowParts(now) /\ r \in NowRecord /\ NowParts(r)
      /\ OlderThanNext(now)
  BY <1>1, NowFields DEF Appending, FileGood
<1>3. LabelsFollow(r)
  <2> SUFFICES ASSUME r.counts.cuts = 0
               PROVE  r.session.labels = LabelsOf(r.session.fileEntries)
    BY DEF LabelsFollow
  <2>1. now.counts.cuts = 0
    BY <1>1, <1>2 DEF NowParts
  <2>2. now.session.labels = LabelsOf(now.session.fileEntries)
    BY <2>1 DEF LabelsFollow
  <2>3. PICK e : e = NewEntry(now, type, ref, covers)
    OBVIOUS
  <2>4. e \in Entry /\ e.id = now.counts.next /\ e.type = type
    BY <2>3, NewEntryIs
  <2>5. PICK s : s = now.session.fileEntries
    OBVIOUS
  <2>6. PICK n : n = now.counts.next
    OBVIOUS
  <2>7. s \in Seq(Entry) /\ n \in Nat /\ Older(s, n) /\ e \in Entry /\ e.id = n
        /\ e.type \notin {"label", "unlabel"}
    BY <1>2, <2>4, <2>5, <2>6 DEF NowParts, OlderThanNext
  <2>8. LabelsOf(Append(s, e)) = LabelsOf(s)
    BY ONLY <2>7, LabelsAppend
  <2> QED
    BY <1>1, <2>2, <2>3, <2>5, <2>8
<1>4. TreeFollows(r)
  BY <1>1, AppendKeepsTree
<1> QED
  BY <1>1, <1>3, <1>4 DEF Ready

(* A label is in the map when its entry is in the file; when it is not     *)
(* written, something was cut short.                                       *)
LEMMA LabelKeepsReady ==
  ASSUME NEW now, NEW type \in {"label", "unlabel"}, NEW target, NEW cut,
         Appending(now, type, target, {}, cut), LabelsFollow(now), TreeFollows(now),
         target \in IdsOf(now.session.fileEntries),
         NEW r, r = AppendLabelChange(now, target, type, cut)
  PROVE  Ready(r)
<1>1. PICK after : after = AppendSessionEntry(now, type, target, {}, cut)
  OBVIOUS
<1>2. /\ FileGood(after)
      /\ after.session.fileEntries = Append(now.session.fileEntries, NewEntry(now, type, target, {}))
      /\ after.session.leafId = now.counts.next
      /\ after.session.labels = now.session.labels
      /\ after.counts.cuts >= now.counts.cuts
  BY <1>1, AppendKeepsGood
<1>3. /\ now \in NowRecord /\ NowParts(now) /\ after \in NowRecord /\ NowParts(after)
      /\ OlderThanNext(now) /\ (after.ok \/ after.counts.cuts > 0)
  BY <1>2, NowFields DEF Appending, FileGood
<1>4. TreeFollows(after)
  <2>1. PICK e : e = NewEntry(now, type, target, {})
    OBVIOUS
  <2>2. e.type = type
    BY <2>1, NewEntryIs
  <2>3. MayFollow(Path(now.session.fileEntries, now.session.leafId), e)
    BY <2>2, OtherFollows DEF IsCompaction
  <2> QED
    BY <1>2, <2>1, <2>3, AppendKeepsTree
<1>5. CASE ~after.ok
  <2>1. r = after
    BY <1>1, <1>5 DEF AppendLabelChange
  <2>2. after.counts.cuts # 0
    BY <1>3, <1>5 DEF NowParts
  <2> QED
    BY <1>2, <1>4, <2>1, <2>2 DEF Ready, LabelsFollow
<1>6. CASE after.ok
  <2>1. PICK labels : labels = IF type = "label" THEN now.session.labels \cup {target}
                               ELSE now.session.labels \ {target}
    OBVIOUS
  <2>2. r = Relabelled(after, labels)
    BY <1>1, <1>2, <1>6, <2>1 DEF AppendLabelChange, Relabelled
  <2>3. labels \in SUBSET (1..MaxEntries)
    <3>1. target \in 1..MaxEntries
      BY <1>3, SetOfEntries DEF NowParts
    <3> QED
      BY <1>3, <2>1, <3>1 DEF NowParts
  <2>4. /\ r \in NowRecord /\ r.session.labels = labels
        /\ r.session.leafId = after.session.leafId
        /\ r.session.fileEntries = after.session.fileEntries
        /\ r.session.flushed = after.session.flushed
        /\ r.disk = after.disk /\ r.counts = after.counts /\ r.ok = after.ok
    <3>1. after \in NowRecord /\ labels \in SUBSET (1..MaxEntries) /\ r = Relabelled(after, labels)
      BY <1>3, <2>2, <2>3
    <3> QED
      BY ONLY <3>1, RelabelledFields
  <2>5. FileGood(r) /\ TreeFollows(r)
    BY <1>2, <1>4, <2>4, GoodFields
  <2>6. LabelsFollow(r)
    <3> SUFFICES ASSUME r.counts.cuts = 0
                 PROVE  labels = LabelsOf(after.session.fileEntries)
      BY <2>4 DEF LabelsFollow
    <3>1. now.counts.cuts = 0
      BY <1>2, <1>3, <2>4 DEF NowParts
    <3>2. now.session.labels = LabelsOf(now.session.fileEntries)
      BY <3>1 DEF LabelsFollow
    <3>3. PICK e : e = NewEntry(now, type, target, {})
      OBVIOUS
    <3>4. e \in Entry /\ e.id = now.counts.next /\ e.type = type /\ e.ref = target
      BY <3>3, NewEntryIs
    <3>5. PICK s, n : s = now.session.fileEntries /\ n = now.counts.next
      OBVIOUS
    <3>6. s \in Seq(Entry) /\ n \in Nat /\ Older(s, n) /\ e \in Entry /\ e.id = n
      BY <1>3, <3>4, <3>5 DEF NowParts, OlderThanNext
    <3>7. /\ e.type = "label" /\ e.ref \in IdsOf(s) =>
               LabelsOf(Append(s, e)) = LabelsOf(s) \cup {e.ref}
          /\ e.type = "unlabel" => LabelsOf(Append(s, e)) = LabelsOf(s) \ {e.ref}
      BY ONLY <3>6, LabelsAppend
    <3> QED
      BY <1>2, <2>1, <3>2, <3>3, <3>4, <3>5, <3>7
  <2> QED
    BY <2>5, <2>6 DEF Ready
<1> QED
  BY <1>5, <1>6

SessionFileInv == Ready(Now)

LEMMA BecomeReady ==
  ASSUME NEW r, Ready(r), Become(r) PROVE SessionFileInv'
<1>1. r \in NowRecord /\ NowParts(r) /\ FileGood(r) /\ LabelsFollow(r) /\ TreeFollows(r)
  BY NowFields DEF Ready, FileGood
<1>2. PICK n : n = [session |-> r.session, disk |-> r.disk, counts |-> r.counts, ok |-> TRUE]
  OBVIOUS
<1>3. n \in NowRecord
  BY <1>1, <1>2 DEF NowParts, NowRecord
<1>4. n.session = r.session /\ n.disk = r.disk /\ n.counts = r.counts /\ n.ok
  BY ONLY <1>2
<1>5. FileGood(n) /\ LabelsFollow(n) /\ TreeFollows(n)
  BY <1>1, <1>3, <1>4, GoodFields
<1>6. session' = r.session /\ disk' = r.disk /\ counts' = r.counts
  BY DEF Become
<1> QED
  BY <1>2, <1>5, <1>6 DEF SessionFileInv, Ready, Now

LEMMA NowReady ==
  ASSUME SessionFileInv
  PROVE  /\ Now \in NowRecord /\ NowParts(Now) /\ FileGood(Now) /\ LabelsFollow(Now) /\ Now.ok
         /\ TreeFollows(Now)
         /\ Now.session = session /\ Now.disk = disk /\ Now.counts = counts
<1>1. Now.session = session /\ Now.disk = disk /\ Now.counts = counts /\ Now.ok
  BY DEF Now
<1>2. Now \in NowRecord /\ FileGood(Now) /\ LabelsFollow(Now) /\ TreeFollows(Now)
  BY DEF SessionFileInv, Ready, FileGood
<1> QED
  BY <1>1, <1>2, NowFields

LEMMA CutsSound ==
  ASSUME SessionFileInv, NEW type, NEW cut \in Cuts(type)
  PROVE  cut.end \in Ends /\ cut.lines \in Int /\ cut.lines <= Len(session.fileEntries)
<1>1. Len(session.fileEntries) \in Nat
  BY NowReady DEF NowParts
<1>2. CASE cut = Whole
  <2>1. cut.end = "done" /\ cut.lines = 0
    BY <1>2 DEF Whole
  <2> QED
    BY <1>1, <2>1 DEF Ends
<1>3. CASE cut # Whole
  <2>1. cut \in [end : {"none", "torn", "whole"},
                 lines : IF session.flushed THEN {0} ELSE (-1)..Len(session.fileEntries)]
    BY <1>3 DEF Cuts
  <2>2. cut.end \in {"none", "torn", "whole"}
        /\ cut.lines \in (IF session.flushed THEN {0} ELSE (-1)..Len(session.fileEntries))
    BY <2>1
  <2>3. cut.lines = 0 \/ cut.lines \in (-1)..Len(session.fileEntries)
    BY <2>2
  <2> QED
    BY <1>1, <2>2, <2>3 DEF Ends
<1> QED
  BY <1>2, <1>3

LEMMA RoomFor ==
  ASSUME SessionFileInv, NEW n \in Nat, Room(n)
  PROVE  counts.next + n - 1 <= MaxEntries
<1>1. counts.next \in Nat /\ counts.events \in Nat
  BY NowReady DEF NowParts
<1> QED
  BY <1>1, SessionFileAssumption DEF Room

LEMMA AppendingNow ==
  ASSUME SessionFileInv, Room(1), NEW t, NEW cut \in Cuts(t),
         NEW type \in SessionEntryTypes, NEW ref \in 0..MaxEntries, ref < counts.next,
         NEW covers \in SUBSET (1..MaxEntries)
  PROVE  Appending(Now, type, ref, covers, cut) /\ LabelsFollow(Now)
<1>1. counts.next <= MaxEntries
  <2>1. counts.next \in Nat
    BY NowReady DEF NowParts
  <2>2. counts.next + 1 - 1 <= MaxEntries
    BY RoomFor
  <2> QED
    BY <2>1, <2>2, SessionFileAssumption
<1>2. cut.end \in Ends /\ cut.lines \in Int /\ cut.lines <= Len(session.fileEntries)
  BY CutsSound
<1> QED
  BY <1>1, <1>2, NowReady DEF Appending

LEMMA AppendsReady ==
  ASSUME SessionFileInv, Room(1), NEW t, NEW cut \in Cuts(t),
         NEW type \in SessionEntryTypes \ {"label", "unlabel"},
         NEW ref \in 0..MaxEntries, ref < counts.next,
         NEW covers \in SUBSET (1..MaxEntries),
         counts.cuts = 0 => MayFollow(CurrentPath, NewEntry(Now, type, ref, covers)),
         Become(AppendSessionEntry(Now, type, ref, covers, cut))
  PROVE  SessionFileInv'
<1>1. Appending(Now, type, ref, covers, cut) /\ LabelsFollow(Now) /\ TreeFollows(Now)
  BY AppendingNow, NowReady
<1>2. PICK r, now : now = Now /\ r = AppendSessionEntry(now, type, ref, covers, cut)
  OBVIOUS
<1>3. /\ Appending(now, type, ref, covers, cut) /\ LabelsFollow(now) /\ TreeFollows(now)
      /\ type \notin {"label", "unlabel"}
      /\ r = AppendSessionEntry(now, type, ref, covers, cut)
  BY <1>1, <1>2
<1>4. now.counts.cuts = 0 =>
        MayFollow(Path(now.session.fileEntries, now.session.leafId),
                  NewEntry(now, type, ref, covers))
  BY <1>2, NowReady DEF CurrentPath
<1>5. Ready(r)
  BY ONLY <1>3, <1>4, AppendKeepsReady
<1>6. Become(r)
  BY <1>2
<1> QED
  BY <1>5, <1>6, BecomeReady

LEMMA NoRef ==
  ASSUME SessionFileInv
  PROVE  NoId \in 0..MaxEntries /\ NoId < counts.next /\ {} \in SUBSET (1..MaxEntries)
<1>1. counts.next \in Nat /\ counts.next # 0
  BY NowReady DEF NowParts
<1> QED
  BY <1>1, SessionFileAssumption DEF NoId

LEMMA AppendMessageReady ==
  ASSUME SessionFileInv, AppendMessage PROVE SessionFileInv'
<1>1. PICK type \in {"user", "assistant", "toolResult"} :
        /\ Room(1)
        /\ type # "user" => SelectLastInSeq(CurrentPath, IsMessage) # 0
        /\ type = "toolResult" =>
             CurrentPath[SelectLastInSeq(CurrentPath, IsMessage)].type \in {"assistant", "toolResult"}
        /\ \E cut \in Cuts(type) : Become(AppendSessionEntry(Now, type, NoId, {}, cut))
  BY DEF AppendMessage
<1>3. PICK cut \in Cuts(type) : Become(AppendSessionEntry(Now, type, NoId, {}, cut))
  BY <1>1
<1>2. type \in SessionEntryTypes \ {"label", "unlabel"}
  BY DEF SessionEntryTypes, Visible
<1>4. MayFollow(CurrentPath, NewEntry(Now, type, NoId, {}))
  <2>1. PICK p, e, last : /\ p = CurrentPath /\ e = NewEntry(Now, type, NoId, {})
                          /\ last = SelectLastInSeq(p, IsMessage)
    OBVIOUS
  <2>2. p \in Seq(Entry)
    BY <2>1, NowReady, PathType DEF CurrentPath, NowParts
  <2>3. e.type = type /\ ~IsCompaction(e)
    BY <2>1 DEF NewEntry, IsCompaction
  <2>4. e.type = "toolResult" => last # 0 /\ p[last].type \in {"assistant", "toolResult"}
    BY <1>1, <2>1, <2>3
  <2>5. MayFollow(p, e)
    BY <2>1, <2>2, <2>3, <2>4, MessageFollows
  <2> QED
    BY <2>1, <2>5
<1> QED
  BY <1>1, <1>2, <1>3, <1>4, NoRef, AppendsReady

LEMMA AppendInfoReady ==
  ASSUME SessionFileInv, AppendInfo PROVE SessionFileInv'
<1>1. PICK cut \in Cuts("info") :
        Room(1) /\ Become(AppendSessionEntry(Now, "info", NoId, {}, cut))
  BY DEF AppendInfo
<1>2. "info" \in SessionEntryTypes \ {"label", "unlabel"}
  BY DEF SessionEntryTypes, Visible
<1>3. MayFollow(CurrentPath, NewEntry(Now, "info", NoId, {}))
  BY OtherFollows DEF NewEntry, IsCompaction
<1> QED
  BY <1>1, <1>2, <1>3, NoRef, AppendsReady

LEMMA IdsOlder ==
  ASSUME NEW entries \in Seq(Entry), NEW next, Older(entries, next), NEW i \in IdsOf(entries)
  PROVE  i \in 1..MaxEntries /\ i < next
<1>1. PICK e \in ToSet(entries) : e.id = i
  BY DEF IdsOf
<1> QED
  BY <1>1, SetOfEntries DEF Older

LEMMA ChangeLabelReady ==
  ASSUME SessionFileInv, ChangeLabel PROVE SessionFileInv'
<1>1. PICK target \in IdsOf(session.fileEntries), type \in {"label", "unlabel"}, cut \in Cuts("label") :
        Room(1) /\ Become(AppendLabelChange(Event(Now), target, type, cut))
  BY DEF ChangeLabel
<1>2. PICK now, r : now = Event(Now) /\ r = AppendLabelChange(now, target, type, cut)
  OBVIOUS
<1>3. /\ now \in NowRecord /\ now.session = session /\ now.disk = disk /\ now.ok
      /\ now.counts.next = counts.next /\ now.counts.cuts = counts.cuts
      /\ now.counts.acked = counts.acked
  BY <1>2, NowReady, EventFields
<1>4. FileGood(now) /\ LabelsFollow(now) /\ TreeFollows(now)
  BY <1>3, NowReady, GoodFields
<1>5. session.fileEntries \in Seq(Entry) /\ Older(session.fileEntries, counts.next)
  BY NowReady DEF NowParts, FileGood, OlderThanNext
<1>6. target \in 1..MaxEntries /\ target < counts.next
  BY <1>1, <1>5, IdsOlder
<1>7. type \in SessionEntryTypes /\ target \in 0..MaxEntries /\ {} \in SUBSET (1..MaxEntries)
  BY <1>1, <1>6 DEF SessionEntryTypes
<1>8. Appending(Now, type, target, {}, cut)
  BY <1>1, <1>6, <1>7, AppendingNow
<1>9. Appending(now, type, target, {}, cut)
  BY <1>3, <1>4, <1>8, NowReady DEF Appending
<1>10. /\ type \in {"label", "unlabel"}
       /\ Appending(now, type, target, {}, cut) /\ LabelsFollow(now) /\ TreeFollows(now)
       /\ target \in IdsOf(now.session.fileEntries)
       /\ r = AppendLabelChange(now, target, type, cut)
  BY <1>1, <1>2, <1>3, <1>4, <1>9
<1>11. Ready(r)
  BY ONLY <1>10, LabelKeepsReady
<1>12. Become(r)
  BY <1>1, <1>2
<1> QED
  BY <1>11, <1>12, BecomeReady

LEMMA LabelledReady ==
  ASSUME NEW now, Ready(now), NEW label \in BOOLEAN, NEW entry, NEW cut,
         label /\ now.ok => /\ Appending(now, "label", entry, {}, cut)
                            /\ entry \in IdsOf(now.session.fileEntries),
         NEW r, r = IF label /\ now.ok THEN AppendLabelChange(now, entry, "label", cut) ELSE now
  PROVE  Ready(r)
<1>1. CASE label /\ now.ok
  <2>1. PICK type : type = "label"
    OBVIOUS
  <2>2. /\ type \in {"label", "unlabel"} /\ Appending(now, type, entry, {}, cut)
        /\ LabelsFollow(now) /\ TreeFollows(now) /\ entry \in IdsOf(now.session.fileEntries)
        /\ r = AppendLabelChange(now, entry, type, cut)
    BY <1>1, <2>1 DEF Ready
  <2> QED
    BY ONLY <2>2, LabelKeepsReady
<1>2. CASE ~(label /\ now.ok)
  BY <1>2
<1> QED
  BY <1>1, <1>2

LEMMA NavigateTreeReady ==
  ASSUME SessionFileInv, NavigateTree PROVE SessionFileInv'
<1> DEFINE Leaf(target) == NewLeaf(EntryOf(session.fileEntries, target))
           Moved(target) == [Event(Now) EXCEPT !.session.leafId = Leaf(target)]
           Marked(label, now, entry, cut) ==
             IF label /\ now.ok THEN AppendLabelChange(now, entry, "label", cut) ELSE now
<1>1. PICK target \in IdsOf(session.fileEntries), label \in BOOLEAN :
        /\ Room(2) /\ Leaf(target) \in IdsOf(session.fileEntries) \cup {NoId}
        /\ \E labelCut \in (IF label THEN Cuts("label") ELSE {Whole}) :
             \/ Become(Marked(label, Moved(target), target, labelCut))
             \/ \E cut \in Cuts("summary") :
                  Become(Marked(label, AppendSessionEntry(Moved(target), "summary", NoId, {}, cut),
                                counts.next, labelCut))
  BY DEF NavigateTree
<1>2. PICK labelCut \in (IF label THEN Cuts("label") ELSE {Whole}) :
        \/ Become(Marked(label, Moved(target), target, labelCut))
        \/ \E cut \in Cuts("summary") :
             Become(Marked(label, AppendSessionEntry(Moved(target), "summary", NoId, {}, cut),
                           counts.next, labelCut))
  BY <1>1
<1>3. PICK leaf : leaf = Leaf(target)
  OBVIOUS
<1>4. PICK event : event = Event(Now)
  OBVIOUS
<1>5. PICK moved : moved = AtLeaf(event, leaf)
  OBVIOUS
<1>6. moved = Moved(target)
  BY <1>3, <1>4, <1>5 DEF AtLeaf
<1> HIDE DEF Leaf, Moved
<1>7. /\ session.fileEntries \in Seq(Entry) /\ Older(session.fileEntries, counts.next)
      /\ counts.next \in Nat
  BY NowReady DEF NowParts, FileGood, OlderThanNext
<1>8. leaf \in 0..MaxEntries
  <2>1. \A i \in IdsOf(session.fileEntries) : i \in 1..MaxEntries
    BY <1>7, SetOfEntries
  <2> QED
    BY <1>1, <1>3, <2>1, NoRef
<1>9. /\ event \in NowRecord /\ event.session = session /\ event.disk = disk /\ event.ok
      /\ event.counts.next = counts.next /\ event.counts.cuts = counts.cuts
      /\ event.counts.acked = counts.acked
  BY <1>4, NowReady, EventFields
<1>10. /\ moved \in NowRecord /\ moved.session.labels = session.labels
       /\ moved.session.leafId = leaf
       /\ moved.session.fileEntries = session.fileEntries
       /\ moved.session.flushed = session.flushed
       /\ moved.disk = disk /\ moved.counts = event.counts /\ moved.ok
  BY <1>5, <1>8, <1>9, MovedFields
<1>11. FileGood(moved) /\ LabelsFollow(moved) /\ TreeFollows(moved)
  <2>1. FileGood(moved) /\ LabelsFollow(moved)
    BY <1>9, <1>10, NowReady, GoodFields
  <2>2. leaf \in IdsOf(session.fileEntries) \cup {NoId}
    BY <1>1, <1>3
  <2>3. TreeFollows(moved)
    BY <1>9, <1>10, <2>2, NowReady DEF TreeFollows, TreeOf
  <2> QED
    BY <2>1, <2>3
<1>12. target \in 1..MaxEntries /\ target < counts.next
  BY <1>1, <1>7, IdsOlder
<1>13. counts.next + 1 <= MaxEntries /\ counts.next <= MaxEntries
  <2>1. counts.next + 2 - 1 <= MaxEntries
    BY <1>1, RoomFor
  <2> QED
    BY <1>7, <2>1, SessionFileAssumption
<1>14. label => /\ labelCut.end \in Ends /\ labelCut.lines \in Int
                /\ labelCut.lines <= Len(session.fileEntries)
  BY <1>2, CutsSound
<1>15. "label" \in SessionEntryTypes /\ "summary" \in SessionEntryTypes /\ {} \in SUBSET (1..MaxEntries)
  BY DEF SessionEntryTypes, Visible
<1>16. label => Appending(moved, "label", target, {}, labelCut)
  <2> SUFFICES ASSUME label PROVE Appending(moved, "label", target, {}, labelCut)
    OBVIOUS
  <2>1. target \in 0..MaxEntries /\ target < moved.counts.next /\ moved.counts.next <= MaxEntries
    BY <1>9, <1>10, <1>12, <1>13
  <2>2. /\ labelCut.end \in Ends /\ labelCut.lines \in Int
        /\ labelCut.lines <= Len(moved.session.fileEntries)
    BY <1>10, <1>14
  <2> QED
    BY <1>10, <1>11, <1>15, <2>1, <2>2 DEF Appending
<1>17. CASE Become(Marked(label, moved, target, labelCut))
  <2>1. PICK r : r = Marked(label, moved, target, labelCut)
    OBVIOUS
  <2>2. target \in IdsOf(moved.session.fileEntries)
    BY <1>1, <1>10
  <2>3. Ready(r)
    BY <1>11, <1>16, <2>1, <2>2, LabelledReady DEF Ready
  <2> QED
    BY <1>17, <2>1, <2>3, BecomeReady
<1>18. ASSUME NEW cut \in Cuts("summary"),
              Become(Marked(label, AppendSessionEntry(moved, "summary", NoId, {}, cut),
                            counts.next, labelCut))
       PROVE  SessionFileInv'
  <2>1. PICK after : after = AppendSessionEntry(moved, "summary", NoId, {}, cut)
    OBVIOUS
  <2>2. cut.end \in Ends /\ cut.lines \in Int /\ cut.lines <= Len(moved.session.fileEntries)
    BY <1>10, CutsSound
  <2>3. NoId \in 0..MaxEntries /\ NoId < moved.counts.next /\ moved.counts.next <= MaxEntries
    BY <1>9, <1>10, <1>13, NoRef
  <2>4. Appending(moved, "summary", NoId, {}, cut)
    BY <1>10, <1>11, <1>15, <2>2, <2>3 DEF Appending
  <2>5. /\ Ready(after) /\ after.counts.next = moved.counts.next + 1
        /\ after.session.fileEntries
             = Append(moved.session.fileEntries, NewEntry(moved, "summary", NoId, {}))
    <3>1. PICK type, ref, covers : type = "summary" /\ ref = NoId /\ covers = {}
      OBVIOUS
    <3>2. /\ Appending(moved, type, ref, covers, cut) /\ LabelsFollow(moved)
          /\ TreeFollows(moved) /\ type \notin {"label", "unlabel"}
          /\ after = AppendSessionEntry(moved, type, ref, covers, cut)
      BY <1>11, <2>1, <2>4, <3>1
    <3>3. MayFollow(Path(moved.session.fileEntries, moved.session.leafId),
                    NewEntry(moved, type, ref, covers))
      BY <3>1, OtherFollows DEF NewEntry, IsCompaction
    <3>4. /\ Ready(after) /\ after.counts.next = moved.counts.next + 1
          /\ after.session.fileEntries
               = Append(moved.session.fileEntries, NewEntry(moved, type, ref, covers))
      BY ONLY <3>2, <3>3, AppendKeepsReady
    <3> QED
      BY <3>1, <3>4
  <2>6. PICK e, s : e = NewEntry(moved, "summary", NoId, {}) /\ s = session.fileEntries
    OBVIOUS
  <2>7. e \in Entry /\ e.id = counts.next
    <3>1. moved.counts.next = counts.next /\ counts.next \in 1..MaxEntries
      BY <1>9, <1>10, <1>13, <1>7, NowReady DEF NowParts
    <3>2. moved.session.leafId \in 0..MaxEntries
      BY <1>10, NowFields DEF NowParts
    <3> QED
      BY <1>15, <2>3, <2>6, <3>1, <3>2 DEF NewEntry, Entry
  <2>8. s \in Seq(Entry) /\ after.session.fileEntries = Append(s, e)
    BY <1>7, <1>10, <2>5, <2>6
  <2>9. IdsOf(Append(s, e)) = IdsOf(s) \cup {e.id} /\ Len(Append(s, e)) = Len(s) + 1
    BY <2>7, <2>8, SetOfAppended
  <2>10. counts.next \in IdsOf(after.session.fileEntries)
    BY <2>7, <2>8, <2>9
  <2>11. label /\ after.ok => Appending(after, "label", counts.next, {}, labelCut)
    <3> SUFFICES ASSUME label, after.ok PROVE Appending(after, "label", counts.next, {}, labelCut)
      OBVIOUS
    <3>1. /\ counts.next \in 0..MaxEntries /\ counts.next < after.counts.next
          /\ after.counts.next <= MaxEntries
      BY <1>7, <1>9, <1>10, <1>13, <2>5, SessionFileAssumption
    <3>2. Len(session.fileEntries) \in Nat
      BY <1>7
    <3>3. Len(after.session.fileEntries) = Len(session.fileEntries) + 1
      BY <2>6, <2>8, <2>9
    <3>4. /\ labelCut.end \in Ends /\ labelCut.lines \in Int
          /\ labelCut.lines <= Len(after.session.fileEntries)
      BY <1>14, <3>2, <3>3
    <3> QED
      BY <1>15, <2>5, <3>1, <3>4 DEF Appending, Ready
  <2>12. PICK r : r = Marked(label, after, counts.next, labelCut)
    OBVIOUS
  <2>13. PICK entry : entry = counts.next
    OBVIOUS
  <2>14. /\ Ready(after) /\ label \in BOOLEAN
         /\ label /\ after.ok => /\ Appending(after, "label", entry, {}, labelCut)
                                 /\ entry \in IdsOf(after.session.fileEntries)
         /\ r = IF label /\ after.ok THEN AppendLabelChange(after, entry, "label", labelCut)
                ELSE after
    BY <2>5, <2>10, <2>11, <2>12, <2>13
  <2>15. Ready(r)
    BY ONLY <2>14, LabelledReady
  <2>16. Become(r)
    BY <1>18, <2>1, <2>12
  <2> QED
    BY <2>15, <2>16, BecomeReady
<1> QED
  BY <1>2, <1>6, <1>17, <1>18

(* Without a cut the path to the leaf is a branch, or empty.               *)
LEMMA CurrentComplete ==
  ASSUME SessionFileInv
  PROVE  CurrentPath \in Seq(Entry) /\ (counts.cuts = 0 => Complete(CurrentPath))
<1>1. PICK s, leaf, p : s = session.fileEntries /\ leaf = session.leafId /\ p = Path(s, leaf)
  OBVIOUS
<1>2. s \in Seq(Entry)
  BY <1>1, NowReady DEF NowParts
<1>3. p \in Seq(Entry)
  BY <1>1, <1>2, PathType
<1>4. ASSUME counts.cuts = 0 PROVE Complete(p)
  <2>1. OlderParents(s) /\ AllComplete(s) /\ leaf \in IdsOf(s) \cup {NoId}
    BY <1>1, <1>4, NowReady DEF TreeFollows, TreeOf
  <2>2. CASE leaf \in IdsOf(s)
    BY <1>1, <1>2, <2>1, <2>2, PathIsBranch DEF AllComplete
  <2>3. CASE leaf = NoId
    BY <1>1, <1>2, <2>3, PathOfNone, CompleteEmpty
  <2> QED
    BY <2>1, <2>2, <2>3
<1> QED
  BY <1>1, <1>3, <1>4 DEF CurrentPath

LEMMA CompactReady ==
  ASSUME SessionFileInv, Compact PROVE SessionFileInv'
<1> DEFINE path == CurrentPath
           First(cutPoint) == FirstKept(path, cutPoint)
           Covers(first) == {path[k].id : k \in {n \in BoundaryStart(path)..(first - 1) :
                                                   path[n].type \in Visible}}
<1>1. PICK cutPoint \in CutPoints(path), cut \in Cuts("compaction") :
        /\ Room(1)
        /\ Become(AppendSessionEntry(Now, "compaction", path[First(cutPoint)].id,
                                     Covers(First(cutPoint)), cut))
  BY DEF Compact
<1>2. PICK p, first : p = path /\ first = First(cutPoint)
  OBVIOUS
<1>3. PICK covers : covers = Covers(first)
  OBVIOUS
<1>4. /\ session.fileEntries \in Seq(Entry) /\ Older(session.fileEntries, counts.next)
      /\ counts.next \in Nat
  BY NowReady DEF NowParts, FileGood, OlderThanNext
<1>5. p \in Seq(Entry) /\ IdsOf(p) \subseteq IdsOf(session.fileEntries)
  BY <1>2, <1>4, PathType DEF CurrentPath
<1>6. BoundaryStart(p) \in 1..Len(p) /\ first \in 1..Len(p)
  BY <1>2, <1>5, FirstKeptType
<1>7. p[first].id \in 1..MaxEntries /\ p[first].id < counts.next
  <2>1. p[first].id \in IdsOf(p)
    BY <1>5, <1>6, MemberOf
  <2> QED
    BY <1>4, <1>5, <2>1, IdsOlder
<1>8. covers \in SUBSET (1..MaxEntries)
  <2>1. ASSUME NEW k \in BoundaryStart(p)..(first - 1) PROVE p[k].id \in 1..MaxEntries
    <3>1. k \in 1..Len(p)
      BY <1>5, <1>6
    <3>2. p[k] \in Entry
      BY <1>5, <3>1
    <3> QED
      BY <3>2 DEF Entry
  <2> QED
    BY <1>2, <1>3, <2>1
<1>9. "compaction" \in SessionEntryTypes \ {"label", "unlabel"}
  BY DEF SessionEntryTypes, Visible
<1>10. PICK ref, type : ref = p[first].id /\ type = "compaction"
  OBVIOUS
<1>11. Become(AppendSessionEntry(Now, type, ref, covers, cut))
  BY <1>1, <1>2, <1>3, <1>10
<1>12. /\ Room(1) /\ type \in SessionEntryTypes \ {"label", "unlabel"}
       /\ ref \in 0..MaxEntries /\ ref < counts.next
  BY <1>1, <1>7, <1>9, <1>10
<1>13. ASSUME counts.cuts = 0 PROVE MayFollow(CurrentPath, NewEntry(Now, type, ref, covers))
  <2>1. Complete(p)
    BY <1>2, <1>13, CurrentComplete
  <2>2. PICK e : e = NewEntry(Now, type, ref, covers)
    OBVIOUS
  <2>3. /\ IsCompaction(e) /\ e.ref = p[first].id
        /\ e.covers = {p[k].id : k \in {n \in BoundaryStart(p)..(first - 1) :
                                          p[n].type \in Visible}}
    BY <1>2, <1>3, <1>10, <2>2 DEF NewEntry, IsCompaction
  <2>4. cutPoint \in CutPoints(p) /\ first = FirstKept(p, cutPoint)
    BY <1>1, <1>2
  <2>5. MayFollow(p, e)
    BY <1>5, <2>1, <2>3, <2>4, CompactFollows
  <2> QED
    BY <1>2, <2>2, <2>5
<1> QED
  BY <1>1, <1>8, <1>11, <1>12, <1>13, AppendsReady

-----------------------------------------------------------------------------
(* Sessions taken from entries: opened, forked, or new.                    *)

LEMMA SessionOfType ==
  ASSUME NEW entries \in Seq(Entry), NEW flushed \in BOOLEAN,
         NEW s, s = SessionOf(entries, flushed)
  PROVE  /\ s \in SessionRecord
         /\ s.fileEntries = entries /\ s.labels = LabelsOf(entries) /\ s.flushed = flushed
         /\ s.leafId \in IdsOf(entries) \cup {NoId}
<1>1. LabelsOf(entries) \in SUBSET (1..MaxEntries)
  BY SetOfEntries DEF LabelsOf
<1>2. /\ (IF entries = <<>> THEN NoId ELSE Last(entries).id) \in 0..MaxEntries
      /\ (IF entries = <<>> THEN NoId ELSE Last(entries).id) \in IdsOf(entries) \cup {NoId}
  <2>1. CASE entries = <<>>
    BY <2>1, SessionFileAssumption DEF NoId
  <2>2. CASE entries # <<>>
    <3>1. Len(entries) \in 1..Len(entries) /\ Last(entries) = entries[Len(entries)]
      BY <2>2 DEF Last
    <3>2. Last(entries) \in Entry /\ Last(entries).id \in IdsOf(entries)
      BY <3>1, MemberOf
    <3> QED
      BY <2>2, <3>2 DEF Entry
  <2> QED
    BY <2>1, <2>2
<1> QED
  BY <1>1, <1>2 DEF SessionOf, SessionRecord

LEMMA NothingWritten ==
  /\ NoSessionFile \in DiskRecord /\ ~NoSessionFile.exists /\ NoSessionFile.header = "none"
  /\ NoSessionFile.lines = <<>> /\ NoSessionFile.tail = "done"
  /\ IdsOf(<<>>) = {} /\ LabelsOf(<<>>) = {} /\ ~HasAssistant(<<>>)
  /\ EmptySession = SessionOf(<<>>, FALSE)
<1>1. ToSet(<<>>) = {}
  BY DEF ToSet
<1>2. IdsOf(<<>>) = {} /\ ~HasAssistant(<<>>)
  BY <1>1 DEF IdsOf, HasAssistant
<1>3. LabelsOf(<<>>) = {}
  BY <1>2 DEF LabelsOf
<1>4. EmptySession = SessionOf(<<>>, FALSE)
  BY <1>3 DEF EmptySession, SessionOf
<1>5. <<>> \in Seq(Entry)
  OBVIOUS
<1> QED
  BY <1>2, <1>3, <1>4, <1>5 DEF NoSessionFile, DiskRecord, Ends

LEMMA RewrittenType ==
  ASSUME NEW entries \in Seq(Entry), NEW f, f = Rewritten(entries)
  PROVE  f \in DiskRecord /\ f.exists /\ f.header = "ok" /\ f.lines = entries /\ f.tail = "done"
  BY DEF Rewritten, DiskRecord, Ends

(* A session with no file, or with one that holds it.                      *)
LEMMA FreshReady ==
  ASSUME NEW entries \in Seq(Entry), NEW c \in CountRecord, Older(entries, c.next),
         NEW saved, saved = HasAssistant(entries),
         c.acked = IF saved THEN IdsOf(entries) ELSE {},
         c.cuts = 0 => OlderParents(entries) /\ AllComplete(entries),
         NEW now,
         now = [session |-> SessionOf(entries, saved),
                disk |-> IF saved THEN Rewritten(entries) ELSE NoSessionFile,
                counts |-> c, ok |-> TRUE]
  PROVE  Ready(now)
<1>1. PICK s, d : s = SessionOf(entries, saved)
                  /\ d = IF saved THEN Rewritten(entries) ELSE NoSessionFile
  OBVIOUS
<1>2. saved \in BOOLEAN
  BY DEF HasAssistant
<1>3. /\ s \in SessionRecord /\ s.fileEntries = entries /\ s.labels = LabelsOf(entries)
      /\ s.flushed = saved /\ s.leafId \in IdsOf(entries) \cup {NoId}
  BY <1>1, <1>2, SessionOfType
<1>4. /\ d \in DiskRecord /\ d.tail = "done"
      /\ saved => d = Rewritten(entries) /\ d.exists /\ d.header = "ok" /\ d.lines = entries
      /\ ~saved => d = NoSessionFile /\ ~d.exists /\ d.lines = <<>>
  BY <1>1, RewrittenType, NothingWritten
<1>5. now.session = s /\ now.disk = d /\ now.counts = c /\ now.ok
  BY <1>1
<1>6. now \in NowRecord
  BY <1>1, <1>3, <1>4 DEF NowRecord
<1>7. OlderThanNext(now)
  <2>1. ToSet(<<>>) = {}
    BY DEF ToSet
  <2> QED
    BY <1>3, <1>4, <1>5, <2>1 DEF OlderThanNext, Older
<1>8. FileSound(now)
  BY <1>2, <1>3, <1>4, <1>5 DEF FileSound
<1>9. LossBounded(now)
  <2>1. c.acked \ IdsOf(d.lines) = {}
    BY <1>2, <1>4
  <2>2. Cardinality(c.acked \ IdsOf(d.lines)) = 0 /\ AtStake(d.tail) = 0
    BY <1>4, <2>1, FS_EmptySet DEF AtStake
  <2>3. c.cuts \in Nat
    BY DEF CountRecord
  <2>4. Cardinality(c.acked \ IdsOf(d.lines)) + AtStake(d.tail) <= 2 * c.cuts
    BY <2>2, <2>3
  <2> QED
    BY <1>5, <2>4 DEF LossBounded
<1>10. FileFollows(now) /\ LabelsFollow(now)
  BY <1>2, <1>3, <1>4, <1>5 DEF FileFollows, LabelsFollow
<1>11. TreeFollows(now)
  BY <1>3, <1>5 DEF TreeFollows, TreeOf
<1> QED
  BY <1>5, <1>6, <1>7, <1>8, <1>9, <1>10, <1>11 DEF Ready, FileGood

LEMMA NoEntries ==
  ASSUME NEW entries, entries = <<>>, NEW next
  PROVE  /\ entries \in Seq(Entry) /\ Older(entries, next) /\ HasAssistant(entries) = FALSE
         /\ OlderParents(entries) /\ AllComplete(entries)
<1>1. ToSet(entries) = {}
  BY DEF ToSet
<1>2. Older(entries, next) /\ HasAssistant(entries) = FALSE
  BY <1>1 DEF Older, HasAssistant
<1>3. <<>> \in Seq(Entry)
  OBVIOUS
<1>4. OlderParents(entries)
  <2>1. Rising(entries)
    BY DEF Rising
  <2> QED
    BY <1>1, <2>1 DEF OlderParents
<1>5. ASSUME NEW p, IsBranch(entries, p) PROVE FALSE
  <2>1. p \in Seq(Entry) /\ p # <<>> /\ ToSet(p) = {}
    BY <1>1, <1>5 DEF IsBranch
  <2>2. 1 \in 1..Len(p)
    BY <2>1
  <2> QED
    BY <2>1, <2>2, MemberOf
<1> QED
  BY <1>2, <1>3, <1>4, <1>5 DEF AllComplete

LEMMA InitReady ==
  ASSUME SessionFileInit PROVE SessionFileInv
<1> DEFINE c == [next |-> 1, events |-> 0, forks |-> 0, cuts |-> 0, acked |-> {}, forked |-> NoId]
<1>1. PICK n, entries, saved : n = c /\ entries = <<>> /\ saved = FALSE
  OBVIOUS
<1>2. n \in CountRecord /\ n.acked = {} /\ n.next = 1
  <2>1. NoId \in 0..MaxEntries
    BY SessionFileAssumption DEF NoId
  <2> QED
    BY <1>1, <2>1 DEF CountRecord
<1>3. /\ entries \in Seq(Entry) /\ Older(entries, n.next) /\ saved = HasAssistant(entries)
      /\ OlderParents(entries) /\ AllComplete(entries)
  <2>1. entries = <<>> /\ saved = FALSE
    BY <1>1
  <2> QED
    BY ONLY <2>1, NoEntries
<1>4. Now = [session |-> SessionOf(entries, saved),
             disk |-> IF saved THEN Rewritten(entries) ELSE NoSessionFile,
             counts |-> n, ok |-> TRUE]
  BY <1>1, NothingWritten DEF SessionFileInit, Now
<1>5. n.acked = IF saved THEN IdsOf(entries) ELSE {}
  BY <1>1, <1>2
<1> HIDE DEF c
<1>6. PICK now : now = Now
  OBVIOUS
<1>7. Ready(now)
  BY <1>2, <1>3, <1>4, <1>5, <1>6, FreshReady
<1> QED
  BY <1>6, <1>7 DEF SessionFileInv

(* Without a cut a file that is there holds the entries in memory.         *)
LEMMA FileHoldsSession ==
  ASSUME SessionFileInv, counts.cuts = 0, disk.exists
  PROVE  disk.lines = session.fileEntries
<1>1. disk = IF session.flushed THEN Rewritten(session.fileEntries) ELSE NoSessionFile
  BY NowReady DEF FileGood, FileFollows
<1>2. disk = Rewritten(session.fileEntries)
  BY <1>1, NothingWritten
<1> QED
  BY <1>2 DEF Rewritten

LEMMA OpenAgainReady ==
  ASSUME SessionFileInv, OpenAgain PROVE SessionFileInv'
<1>1. /\ Now \in NowRecord /\ NowParts(Now) /\ OlderThanNext(Now) /\ FileSound(Now)
      /\ LossBounded(Now) /\ FileFollows(Now) /\ LabelsFollow(Now) /\ TreeFollows(Now)
      /\ Now.session = session /\ Now.disk = disk /\ Now.counts = counts
  BY NowReady DEF FileGood
<1>2. /\ disk.lines \in Seq(Entry) /\ disk.exists \in BOOLEAN /\ disk \in DiskRecord
      /\ disk.header \in {"none", "torn", "ok"}
      /\ counts.acked \in SUBSET (1..MaxEntries) /\ counts.next \in Nat
      /\ counts.cuts \in Nat
      /\ counts = [next |-> counts.next, events |-> counts.events, forks |-> counts.forks,
                   cuts |-> counts.cuts, acked |-> counts.acked, forked |-> counts.forked]
      /\ counts \in CountRecord
  BY <1>1 DEF NowParts
<1>3. PICK s, d, c : s = Opened(disk) /\ d = OpenedFile(disk)
        /\ c = [counts EXCEPT !.events = @ + 1, !.acked = @ \cup IdsOf(disk.lines)]
  OBVIOUS
<1>4. session' = s /\ disk' = d /\ counts' = c /\ disk.header # "torn"
  BY <1>3 DEF OpenAgain, Refused
<1>5. /\ c \in CountRecord /\ c.next = counts.next /\ c.cuts = counts.cuts
      /\ c.acked = counts.acked \cup IdsOf(disk.lines)
  <2>1. IdsOf(disk.lines) \subseteq 1..MaxEntries /\ counts.events \in Nat
    BY <1>1, <1>2, SetOfEntries DEF NowParts
  <2>2. PICK acked, events : acked = counts.acked \cup IdsOf(disk.lines) /\ events = counts.events + 1
    OBVIOUS
  <2>3. c = [next |-> counts.next, events |-> events, forks |-> counts.forks,
             cuts |-> counts.cuts, acked |-> acked, forked |-> counts.forked]
    BY <1>2, <1>3, <2>2
  <2>4. acked \in SUBSET (1..MaxEntries) /\ events \in Nat
    BY <1>2, <2>1, <2>2
  <2>5. c \in CountRecord
    BY <1>2, <2>3, <2>4 DEF CountRecord
  <2> QED
    BY <2>2, <2>3, <2>5
<1>6. PICK n : n = [session |-> s, disk |-> d, counts |-> c, ok |-> TRUE]
  OBVIOUS
<1>7. n.session = s /\ n.disk = d /\ n.counts = c /\ n.ok
  BY ONLY <1>6
<1>8. SUFFICES Ready(n)
  BY <1>4, <1>6 DEF SessionFileInv, Now
<1>10. CASE disk.exists
  <2>1. s = SessionOf(disk.lines, TRUE)
    BY <1>3, <1>10 DEF Opened
  <2>2. /\ s \in SessionRecord /\ s.fileEntries = disk.lines /\ s.labels = LabelsOf(disk.lines)
        /\ s.flushed = TRUE /\ s.leafId \in IdsOf(disk.lines) \cup {NoId}
    <3>1. PICK lines, flushed : lines = disk.lines /\ flushed = TRUE
      OBVIOUS
    <3>2. lines \in Seq(Entry) /\ flushed \in BOOLEAN /\ s = SessionOf(lines, flushed)
      BY <1>2, <2>1, <3>1
    <3>3. /\ s \in SessionRecord /\ s.fileEntries = lines /\ s.labels = LabelsOf(lines)
          /\ s.flushed = flushed /\ s.leafId \in IdsOf(lines) \cup {NoId}
      BY ONLY <3>2, SessionOfType
    <3> QED
      BY <3>1, <3>3
  <2>3. disk.header = "none" => disk.lines = <<>> /\ disk.tail = "done"
    BY <1>1 DEF FileSound
  <2>4. PICK none \in Seq(Entry) : none = <<>>
    BY NoEntries
  <2>5. PICK blank : blank = Rewritten(none)
    OBVIOUS
  <2>6. blank \in DiskRecord /\ blank.exists /\ blank.header = "ok" /\ blank.lines = none /\ blank.tail = "done"
    BY <2>4, <2>5, RewrittenType
  <2>7. d = IF disk.header = "none" THEN blank ELSE disk
    BY <1>3, <1>10, <2>4, <2>5 DEF OpenedFile
  <2>8. /\ d \in DiskRecord /\ d.exists /\ d.header # "none" /\ d.lines = disk.lines
        /\ d.tail = disk.tail
    BY <1>2, <1>10, <2>3, <2>4, <2>6, <2>7
  <2>9. n \in NowRecord
    BY <1>5, <1>6, <2>2, <2>8 DEF NowRecord
  <2>10. OlderThanNext(n)
    BY <1>1, <1>5, <1>7, <2>2, <2>8 DEF OlderThanNext
  <2>11. FileSound(n)
    BY <1>7, <2>8 DEF FileSound
  <2>12. LossBounded(n)
    <3>1. Cardinality(counts.acked \ IdsOf(disk.lines)) + AtStake(disk.tail) <= 2 * counts.cuts
      BY <1>1, <1>4 DEF LossBounded
    <3>2. c.acked \ IdsOf(d.lines) = counts.acked \ IdsOf(disk.lines)
      BY <1>5, <2>8
    <3> QED
      BY <1>5, <1>7, <2>8, <3>1, <3>2 DEF LossBounded
  <2>13. FileFollows(n)
    <3> SUFFICES ASSUME counts.cuts = 0
                 PROVE  d = Rewritten(s.fileEntries) /\ HasAssistant(s.fileEntries) = TRUE
      BY <1>5, <1>7, <2>2 DEF FileFollows
    <3>1. /\ disk = IF session.flushed THEN Rewritten(session.fileEntries) ELSE NoSessionFile
          /\ session.flushed = HasAssistant(session.fileEntries)
      BY <1>1 DEF FileFollows
    <3>2. session.flushed
      BY <1>10, <3>1, NothingWritten
    <3>3. disk = Rewritten(session.fileEntries)
      BY <3>1, <3>2
    <3>4. disk.lines = session.fileEntries /\ disk.header = "ok"
      BY <3>3 DEF Rewritten
    <3>5. d = disk
      BY <2>7, <3>4
    <3>6. HasAssistant(session.fileEntries) = TRUE
      <4>1. HasAssistant(session.fileEntries)
        BY <3>1, <3>2
      <4> QED
        BY <4>1 DEF HasAssistant
    <3> QED
      BY <2>2, <3>3, <3>4, <3>5, <3>6
  <2>14. LabelsFollow(n)
    BY <1>7, <2>2 DEF LabelsFollow
  <2>15. TreeFollows(n)
    <3> SUFFICES ASSUME counts.cuts = 0 PROVE TreeOf(s)
      BY <1>5, <1>7 DEF TreeFollows
    <3>1. disk.lines = session.fileEntries
      BY <1>1, <1>10, FileHoldsSession
    <3>2. TreeOf(session)
      BY <1>1 DEF TreeFollows
    <3> QED
      BY <2>2, <3>1, <3>2 DEF TreeOf
  <2> QED
    BY <1>7, <2>9, <2>10, <2>11, <2>12, <2>13, <2>14, <2>15 DEF Ready, FileGood
<1>11. CASE ~disk.exists
  <2>1. disk = NoSessionFile /\ counts.acked = {}
    BY <1>1, <1>11 DEF FileSound
  <2>2. c.acked = {}
    BY <1>5, <2>1, NothingWritten
  <2>3. PICK entries, saved : entries = <<>> /\ saved = FALSE
    OBVIOUS
  <2>4. s = SessionOf(entries, saved)
    BY <1>3, <1>11, <2>3, NothingWritten DEF Opened
  <2>5. d = NoSessionFile
    BY <1>3, <1>11, <2>1 DEF OpenedFile
  <2>6. /\ entries \in Seq(Entry) /\ Older(entries, c.next) /\ saved = HasAssistant(entries)
        /\ OlderParents(entries) /\ AllComplete(entries)
    BY ONLY <2>3, NoEntries
  <2>7. n = [session |-> SessionOf(entries, saved),
             disk |-> IF saved THEN Rewritten(entries) ELSE NoSessionFile,
             counts |-> c, ok |-> TRUE]
    BY <1>6, <2>3, <2>4, <2>5
  <2>8. c.acked = IF saved THEN IdsOf(entries) ELSE {}
    BY <2>2, <2>3
  <2> QED
    BY <1>5, <2>6, <2>7, <2>8, FreshReady
<1> QED
  BY <1>10, <1>11

(* createBranchedSession gives its new labels ids nobody had.              *)
LEMMA ForkedNext ==
  ASSUME NEW lines \in Seq(Entry), NEW new \in Seq(Entry), NEW next \in Nat, NEW n \in Nat,
         Older(lines, next),
         IdsOf(new) \subseteq IdsOf(lines) \cup next..(next + n - 1),
         next..(next + n - 1) \subseteq IdsOf(new)
  PROVE  Cardinality(IdsOf(new) \ IdsOf(lines)) = n
<1>1. \A i \in next..(next + n - 1) : i \notin IdsOf(lines)
  <2>1. \A i \in IdsOf(lines) : i < next
    BY IdsOlder
  <2>2. \A i \in next..(next + n - 1) : i \in Int /\ ~(i < next)
    OBVIOUS
  <2> QED
    BY <2>1, <2>2
<1>2. IdsOf(new) \ IdsOf(lines) = next..(next + n - 1)
  BY <1>1
<1>3. Cardinality(next..(next + n - 1)) = IF next > next + n - 1 THEN 0 ELSE next + n - 1 - next + 1
  BY FS_Interval
<1>4. CASE n = 0
  <2>1. next > next + n - 1
    BY <1>4
  <2> QED
    BY ONLY <1>2, <1>3, <1>4, <2>1
<1>5. CASE n # 0
  <2>1. ~(next > next + n - 1) /\ next + n - 1 - next + 1 = n
    BY <1>5
  <2> QED
    BY ONLY <1>2, <1>3, <2>1
<1> QED
  BY <1>4, <1>5

LEMMA ForkReady ==
  ASSUME SessionFileInv, Fork PROVE SessionFileInv'
<1>1. /\ Now \in NowRecord /\ NowParts(Now) /\ OlderThanNext(Now)
      /\ Now.session = session /\ Now.disk = disk /\ Now.counts = counts
  BY NowReady DEF FileGood
<1>2. /\ disk.lines \in Seq(Entry) /\ Older(disk.lines, counts.next)
      /\ counts.next \in Nat /\ counts.next # 0 /\ counts.events \in Nat /\ counts.forks \in Nat
      /\ counts = [next |-> counts.next, events |-> counts.events, forks |-> counts.forks,
                   cuts |-> counts.cuts, acked |-> counts.acked, forked |-> counts.forked]
      /\ counts \in CountRecord /\ counts.cuts \in Nat
  BY <1>1 DEF NowParts, OlderThanNext
<1> DEFINE Target(entry, position) == IF position = "at" THEN entry.id ELSE entry.parent
           New(target) == BranchedEntries(Path(Opened(disk).fileEntries, target),
                                          Opened(disk).labels, counts.next)
           Saved(target) == HasAssistant(New(target))
<1>3. PICK entry \in ToSet(session.fileEntries), position \in {"before", "at"} :
        IF Target(entry, position) = NoId
        THEN /\ session' = EmptySession
             /\ disk' = NoSessionFile
             /\ counts' = [counts EXCEPT !.events = @ + 1, !.forks = @ + 1,
                                         !.acked = {}, !.forked = NoId]
        ELSE /\ disk.exists /\ ~Refused(disk)
             /\ Target(entry, position) \in IdsOf(Opened(disk).fileEntries)
             /\ Room(Cardinality(Opened(disk).labels))
             /\ session' = SessionOf(New(Target(entry, position)), Saved(Target(entry, position)))
             /\ disk' = IF Saved(Target(entry, position)) THEN Rewritten(New(Target(entry, position)))
                        ELSE NoSessionFile
             /\ counts' = [counts EXCEPT
                             !.events = @ + 1, !.forks = @ + 1,
                             !.forked = Target(entry, position),
                             !.next = @ + Cardinality(IdsOf(New(Target(entry, position)))
                                                        \ IdsOf(Opened(disk).fileEntries)),
                             !.acked = IF Saved(Target(entry, position))
                                       THEN IdsOf(New(Target(entry, position))) ELSE {}]
  BY ZenonT(60) DEF Fork
<1>4. PICK target : target = Target(entry, position)
  OBVIOUS
<1>5. PICK new, saved : new = New(target) /\ saved = Saved(target)
  OBVIOUS
<1>6. PICK c : c = counts'
  OBVIOUS
<1>7. saved = HasAssistant(new)
  BY <1>5
<1> HIDE DEF Target, New, Saved
<1>8. CASE target = NoId
  <2>1. PICK events, forks : events = counts.events + 1 /\ forks = counts.forks + 1
    OBVIOUS
  <2>2. PICK none : none = {}
    OBVIOUS
  <2>3. c = [next |-> counts.next, events |-> events, forks |-> forks,
             cuts |-> counts.cuts, acked |-> none, forked |-> NoId]
    BY <1>2, <1>3, <1>4, <1>6, <1>8, <2>1, <2>2
  <2>4. c \in CountRecord /\ c.acked = {}
    <3>1. NoId \in 0..MaxEntries /\ events \in Nat /\ forks \in Nat /\ none \in SUBSET (1..MaxEntries)
      BY <1>2, <2>1, <2>2, SessionFileAssumption DEF NoId
    <3> QED
      BY <1>2, <2>2, <2>3, <3>1 DEF CountRecord
  <2>5. PICK entries, unsaved : entries = <<>> /\ unsaved = FALSE
    OBVIOUS
  <2>6. /\ entries \in Seq(Entry) /\ Older(entries, c.next) /\ unsaved = HasAssistant(entries)
        /\ OlderParents(entries) /\ AllComplete(entries)
    BY ONLY <2>5, NoEntries
  <2>7. PICK n : n = [session |-> SessionOf(entries, unsaved),
                      disk |-> IF unsaved THEN Rewritten(entries) ELSE NoSessionFile,
                      counts |-> c, ok |-> TRUE]
    OBVIOUS
  <2>8. c.acked = IF unsaved THEN IdsOf(entries) ELSE {}
    BY <2>4, <2>5
  <2>9. Ready(n)
    BY <2>4, <2>6, <2>7, <2>8, FreshReady
  <2>10. n = [session |-> session', disk |-> disk', counts |-> counts', ok |-> TRUE]
    BY <1>3, <1>4, <1>6, <1>8, <2>5, <2>7, NothingWritten
  <2> QED
    BY <2>9, <2>10 DEF SessionFileInv, Now
<1>9. CASE target # NoId
  <2>1. PICK labels, lines, path : labels = LabelsOf(disk.lines) /\ lines = disk.lines
                                   /\ path = Path(lines, target)
    OBVIOUS
  <2>2. disk.exists
    BY <1>3, <1>4, <1>9
  <2>3. Opened(disk).fileEntries = lines /\ Opened(disk).labels = labels
    BY <1>2, <2>1, <2>2, SessionOfType DEF Opened
  <2>4. new = BranchedEntries(path, labels, counts.next)
    BY <1>5, <2>1, <2>3 DEF New
  <2>5. lines \in Seq(Entry) /\ Older(lines, counts.next)
    BY <1>2, <2>1
  <2>6. /\ path \in Seq(Entry) /\ ToSet(path) \subseteq ToSet(lines)
        /\ IdsOf(path) \subseteq IdsOf(lines)
    BY <2>1, <2>5, PathType
  <2>7. labels \subseteq IdsOf(lines)
    BY <2>1 DEF LabelsOf
  <2>8. labels \in SUBSET (1..MaxEntries) /\ \A i \in labels : i < counts.next
    BY <2>5, <2>7, IdsOlder
  <2>9. counts.next + Cardinality(labels) - 1 <= MaxEntries
    <3>1. Room(Cardinality(labels))
      BY <1>3, <1>4, <1>9, <2>3
    <3>2. Cardinality(labels) \in Nat
      BY <2>8, FiniteAcked
    <3> QED
      BY <3>1, <3>2, RoomFor
  <2>10. PICK next : next = counts.next
    OBVIOUS
  <2>11. /\ path \in Seq(Entry) /\ labels \in SUBSET (1..MaxEntries)
         /\ next \in Nat \ {0} /\ next + Cardinality(labels) - 1 <= MaxEntries
         /\ \A e \in ToSet(path) : e.id < next /\ e.ref < next
         /\ \A i \in labels : i < next
    BY <1>2, <2>5, <2>6, <2>8, <2>9, <2>10 DEF Older
  <2>12. new = BranchedEntries(path, labels, next)
    BY <2>4, <2>10
  <2>13. PICK n \in Nat :
           /\ new \in Seq(Entry) /\ n <= Cardinality(labels)
           /\ IdsOf(new) \subseteq IdsOf(path) \cup next..(next + n - 1)
           /\ next..(next + n - 1) \subseteq IdsOf(new)
           /\ \A e \in ToSet(new) : e.id < next + n /\ e.ref < next
    BY <2>11, <2>12, BranchedType
  <2>14. PICK added : added = Cardinality(IdsOf(new) \ IdsOf(lines))
    OBVIOUS
  <2>15. added = n
    <3>1. /\ lines \in Seq(Entry) /\ new \in Seq(Entry) /\ next \in Nat /\ n \in Nat
          /\ Older(lines, next)
          /\ IdsOf(new) \subseteq IdsOf(lines) \cup next..(next + n - 1)
          /\ next..(next + n - 1) \subseteq IdsOf(new)
      BY <2>5, <2>6, <2>10, <2>11, <2>13
    <3> QED
      BY ONLY <2>14, <3>1, ForkedNext
  <2>16. PICK events, forks, acked : events = counts.events + 1 /\ forks = counts.forks + 1
                                     /\ acked = IF saved THEN IdsOf(new) ELSE {}
    OBVIOUS
  <2>17. PICK then : then = next + n
    OBVIOUS
  <2>18. c = [next |-> then, events |-> events, forks |-> forks,
              cuts |-> counts.cuts, acked |-> acked, forked |-> target]
    <3>1. c = [counts EXCEPT !.events = events, !.forks = forks, !.forked = target,
                             !.next = then, !.acked = acked]
      BY <1>3, <1>4, <1>5, <1>6, <1>9, <2>3, <2>10, <2>14, <2>15, <2>16, <2>17
    <3> QED
      BY ONLY <1>2, <3>1
  <2>19. c \in CountRecord /\ c.next = then /\ c.acked = acked /\ c.cuts = counts.cuts
    <3>1. target \in 0..MaxEntries
      <4>1. target \in IdsOf(lines)
        BY <1>3, <1>4, <1>9, <2>3
      <4>2. target \in 1..MaxEntries
        BY <2>5, <4>1, SetOfEntries
      <4> QED
        BY <4>2
    <3>2. acked \in SUBSET (1..MaxEntries)
      BY <2>13, <2>16, SetOfEntries
    <3>3. events \in Nat /\ forks \in Nat /\ then \in Nat \ {0}
      BY <1>2, <2>10, <2>13, <2>16, <2>17
    <3> QED
      BY <1>2, <2>18, <3>1, <3>2, <3>3 DEF CountRecord
  <2>20. Older(new, c.next)
    <3>1. ASSUME NEW e \in ToSet(new) PROVE e.id < then /\ e.ref < then
      <4>1. e \in Entry
        BY <2>13, SetOfEntries
      <4>2. e.ref \in Nat
        BY <4>1, SessionFileAssumption DEF Entry
      <4>3. e.id < next + n /\ e.ref < next
        BY <2>13
      <4> QED
        BY <2>11, <2>13, <2>17, <4>2, <4>3
    <3> QED
      BY <2>19, <3>1 DEF Older
  <2>21. PICK now : now = [session |-> SessionOf(new, saved),
                           disk |-> IF saved THEN Rewritten(new) ELSE NoSessionFile,
                           counts |-> c, ok |-> TRUE]
    OBVIOUS
  <2>22. ASSUME c.cuts = 0 PROVE OlderParents(new) /\ AllComplete(new)
    <3>1. counts.cuts = 0 /\ lines = session.fileEntries
      BY <2>1, <2>2, <2>19, <2>22, FileHoldsSession
    <3>2. OlderParents(lines) /\ AllComplete(lines)
      BY <1>1, <3>1, NowReady DEF TreeFollows, TreeOf
    <3>3. target \in IdsOf(lines)
      BY <1>3, <1>4, <1>9, <2>3
    <3>4. Complete(path)
      BY <2>1, <2>5, <3>2, <3>3, PathIsBranch DEF AllComplete
    <3>5. Rising(path) /\ \A i \in IdsOf(path) : i < next
      BY <2>11, <3>4 DEF Complete, IdsOf
    <3>6. PICK m, idx : Thins(new, path, m, idx) /\ Rising(new) /\ IsChain(new)
      BY <2>11, <2>12, <3>5, BranchedThins
    <3> QED
      BY <3>4, <3>6, ChainComplete
  <2>23. Ready(now)
    BY <1>7, <2>13, <2>16, <2>19, <2>20, <2>21, <2>22, FreshReady
  <2>24. now = [session |-> session', disk |-> disk', counts |-> counts', ok |-> TRUE]
    BY <1>3, <1>4, <1>5, <1>6, <1>9, <2>21
  <2> QED
    BY <2>23, <2>24 DEF SessionFileInv, Now
<1> QED
  BY <1>8, <1>9

LEMMA SessionFileInvGives ==
  ASSUME SessionFileInv PROVE SessionFileTypeOK /\ FileIsSession
<1>1. /\ Now \in NowRecord /\ NowParts(Now) /\ LossBounded(Now) /\ FileFollows(Now)
      /\ LabelsFollow(Now)
      /\ Now.session = session /\ Now.disk = disk /\ Now.counts = counts
  BY NowReady DEF FileGood
<1>2. SessionFileTypeOK
  BY <1>1 DEF NowParts, SessionFileTypeOK, SessionRecord, DiskRecord
<1>3. UncutFileIsSession
  BY <1>1 DEF FileFollows, LabelsFollow, UncutFileIsSession
<1>4. CutsLoseLittle
  <2> SUFFICES ASSUME disk.header # "torn"
               PROVE  Cardinality(counts.acked \ IdsOf(disk.lines)) <= 2 * counts.cuts
    BY DEF CutsLoseLittle
  <2>1. Cardinality(counts.acked \ IdsOf(disk.lines)) + AtStake(disk.tail) <= 2 * counts.cuts
    BY <1>1 DEF LossBounded
  <2>2. AtStake(disk.tail) \in Nat
    BY DEF AtStake
  <2>3. Cardinality(counts.acked \ IdsOf(disk.lines)) \in Nat
    <3>1. counts.acked \ IdsOf(disk.lines) \in SUBSET (1..MaxEntries)
      BY <1>1 DEF NowParts
    <3> QED
      BY <3>1, FiniteAcked
  <2>4. counts.cuts \in Nat
    BY <1>1 DEF NowParts
  <2> QED
    BY <2>1, <2>2, <2>3, <2>4
<1> QED
  BY <1>2, <1>3, <1>4 DEF FileIsSession

LEMMA SessionFileInvShows ==
  ASSUME SessionFileInv PROVE ContextComplete
<1>1. PICK path, context : path = CurrentPath /\ context = ContextOf(path)
  OBVIOUS
<1>2. SUFFICES ASSUME counts.cuts = 0,
                      \A e \in {d \in ToSet(path) : d.type = "compaction"} : e.ref \in IdsOf(path)
               PROVE  /\ \A e \in ToSet(path) : e.type \in Visible =>
                           \/ e \in ToSet(context)
                           \/ \E c \in {d \in ToSet(path) : d.type = "compaction"} : e.id \in c.covers
                      /\ \A k \in DOMAIN context : context[k].type = "toolResult" =>
                           \E j \in 1..(k - 1) :
                             /\ context[j].type \in {"assistant", "toolResult"}
                             /\ \A n \in (j + 1)..(k - 1) : ~IsMessage(context[n])
  BY <1>1 DEF ContextComplete
<1>3. path \in Seq(Entry) /\ Complete(path)
  BY <1>1, <1>2, CurrentComplete
<1>4. \A e \in ToSet(path) : IsCompaction(e) => e.ref \in IdsOf(path)
  BY <1>2 DEF IsCompaction
<1>5. ShownOrCovered(path, context) /\ ResultsFollow(context)
  BY <1>1, <1>3, <1>4, CompleteShows
<1> QED
  BY <1>5 DEF ShownOrCovered, ResultsFollow, AnswersCall

LEMMA SessionFileStep ==
  ASSUME SessionFileInv, [SessionFileNext]_sessionFileVars PROVE SessionFileInv'
<1>1. CASE SessionFileNext
  BY <1>1, AppendMessageReady, AppendInfoReady, ChangeLabelReady, NavigateTreeReady,
     CompactReady, OpenAgainReady, ForkReady DEF SessionFileNext
<1>2. CASE UNCHANGED sessionFileVars
  BY <1>2 DEF sessionFileVars, SessionFileInv, Now
<1> QED
  BY <1>1, <1>2

(* The SessionManager, its file and the acknowledged ids keep their types: *)
(* no compaction keeps from, and no fork numbers, an entry there is not.   *)
THEOREM SessionFileTypeCorrect == SessionFileSpec => []SessionFileTypeOK
<1>1. SessionFileInit => SessionFileInv
  BY InitReady
<1>2. SessionFileInv /\ [SessionFileNext]_sessionFileVars => SessionFileInv'
  BY SessionFileStep
<1>3. SessionFileInv => SessionFileTypeOK
  BY SessionFileInvGives
<1> QED
  BY <1>1, <1>2, <1>3, PTL DEF SessionFileSpec

(* The file is the session as long as no write was cut short, and one that *)
(* was costs at most two acknowledged entries, whatever is appended behind *)
(* the line it left, opened again or forked (_persist, _rewriteFile).      *)
THEOREM FileAlwaysIsSession == SessionFileSpec => []FileIsSession
<1>1. SessionFileInit => SessionFileInv
  BY InitReady
<1>2. SessionFileInv /\ [SessionFileNext]_sessionFileVars => SessionFileInv'
  BY SessionFileStep
<1>3. SessionFileInv => FileIsSession
  BY SessionFileInvGives
<1> QED
  BY <1>1, <1>2, <1>3, PTL DEF SessionFileSpec

(* On every branch, whatever was navigated, compacted, labelled, forked or *)
(* opened again, the model is sent each message or a compaction that       *)
(* covers it, and each tool result behind its call (buildContextEntries,   *)
(* findCutPoint, createBranchedSession).                                   *)
THEOREM ContextAlwaysComplete == SessionFileSpec => []ContextComplete
<1>1. SessionFileInit => SessionFileInv
  BY InitReady
<1>2. SessionFileInv /\ [SessionFileNext]_sessionFileVars => SessionFileInv'
  BY SessionFileStep
<1>3. SessionFileInv => ContextComplete
  BY SessionFileInvShows
<1> QED
  BY <1>1, <1>2, <1>3, PTL DEF SessionFileSpec

=============================================================================
