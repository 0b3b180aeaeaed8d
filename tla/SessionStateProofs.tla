------------------------- MODULE SessionStateProofs -------------------------
(***************************************************************************)
(* Lemmas about SessionState: an operation whose checks passed gives a     *)
(* valid mutation, and applying it keeps the state well typed and sound.   *)
(* Induction over numbers is LeastNumber.                                  *)
(***************************************************************************)
EXTENDS SessionState, WellFoundedInduction, TLAPS

USE LanesAssumption, NullAssumption

-----------------------------------------------------------------------------
(* Types.                                                                  *)

LEMMA EmptyStateType == EmptyState \in State /\ Sound(EmptyState)
  BY DEF EmptyState, State, Marks, Sound, TreeSound, IdsSound, OneOpen, Entries

(* The operation of a request decides the kind of its mutation.            *)
LEMMA RequestFields ==
  ASSUME NEW r \in Requests
  PROVE  /\ r.op \in {"appendEntry", "appendRecord", "createLane", "moveLane",
                      "setName", "setLabel"}
         /\ r.id \in Ids \cup {Null} /\ r.lane \in Lanes \cup {Null}
         /\ r.ref \in Ids \cup {Null}
         /\ r.type \in EntryTypes \cup RecordTypes \cup Marks
         /\ r.op = "appendEntry" => r.id \in Ids /\ r.lane \in Lanes
         /\ r.op = "appendRecord" => r.id \in Ids /\ r.lane \in Lanes
         /\ r.op \in {"createLane", "moveLane"} => r.lane \in Lanes
         /\ r.op = "setName" => r.type \in Marks
         /\ r.op = "setLabel" => r.id \in Ids
  BY DEF Requests, AppendEntryRequests, AppendRecordRequests, LaneRequests,
         NameRequests, LabelRequests, EntryTypes, RecordTypes, Marks

LEMMA MutationOfFields ==
  ASSUME NEW s \in State, NEW r \in Requests
  PROVE  LET m == MutationOf(s, r) IN
         /\ m.seq = s.sequence + 1 /\ m.id = r.id /\ m.lane = r.lane
         /\ m.type = r.type
         /\ r.op = "appendEntry" => m.kind = "entry" /\ m.ref = s.lanes[r.lane]
         /\ r.op = "appendRecord" => m.kind = "record" /\ m.ref = r.ref
         /\ r.op \in {"createLane", "moveLane"} => m.kind = "lane" /\ m.ref = r.ref
         /\ r.op = "setName" => m.kind = "name"
         /\ r.op = "setLabel" => m.kind = "label"
  BY DEF MutationOf, KindOf

LEMMA MutationOfType ==
  ASSUME NEW s \in State, NEW r \in Requests, Accepts(s, r)
  PROVE  MutationOf(s, r) \in Mutation
<1>1. r.op = "appendEntry" => s.lanes[r.lane] \in Ids \cup {Null}
  BY RequestFields DEF Accepts, State
<1>2. KindOf(r.op) \in {"entry", "record", "lane", "name", "label"}
  BY RequestFields DEF KindOf
<1> QED
  BY <1>1, <1>2, RequestFields DEF MutationOf, Mutation, State

(* Checks passed before the write are the checks of applyMutation.         *)
LEMMA AcceptedValid ==
  ASSUME NEW s \in State, TreeSound(s), NEW r \in Requests, Accepts(s, r)
  PROVE  Valid(s, MutationOf(s, r))
<1> DEFINE m == MutationOf(s, r)
<1>0. Null \notin Entries(s)
  BY DEF Entries
<1>1. CASE r.op = "appendEntry"
  <2>1. s.lanes[r.lane] # Missing /\ r.id \notin s.usedIds /\ r.lane \in Lanes
    BY <1>1, RequestFields DEF Accepts
  <2>2. s.lanes[r.lane] # Null => s.lanes[r.lane] \in Entries(s)
    BY <2>1 DEF TreeSound
  <2> QED
    BY <1>1, <2>1, <2>2, MutationOfFields DEF Valid, ValidEntry
<1>2. CASE r.op = "appendRecord"
  BY <1>2, MutationOfFields DEF Accepts, AcceptsRecord, Valid, ValidRecord
<1>3. CASE r.op \in {"createLane", "moveLane"}
  BY <1>3, MutationOfFields DEF Accepts, AcceptsLane, ValidTarget, Valid
<1>4. CASE r.op = "setName"
  BY <1>4, MutationOfFields DEF Valid
<1>5. CASE r.op = "setLabel"
  BY <1>5, MutationOfFields, RequestFields DEF Accepts, ValidTarget, Valid
<1> QED
  BY <1>1, <1>2, <1>3, <1>4, <1>5, RequestFields

-----------------------------------------------------------------------------
(* Applying a valid mutation keeps the state well typed and sound.         *)

LEMMA ApplyEntryType ==
  ASSUME NEW s \in State, NEW m, m.seq \in Nat, m.id \in Ids,
         m.lane \in Lanes \cup {Null}, m.ref \in Ids \cup {Null}
  PROVE  ApplyEntry(s, m) \in State
  BY DEF ApplyEntry, State

LEMMA ApplyRecordType ==
  ASSUME NEW s \in State, NEW m, m.seq \in Nat, m.id \in Ids, m.lane \in Lanes
  PROVE  ApplyRecord(s, m) \in State
<1>1. s.open \in [Lanes -> SUBSET Ids]
  BY DEF State
<1>2. s.open[m.lane] \in SUBSET Ids
  BY <1>1
<1>3. OpenAfter(s, m) \in SUBSET Ids
  BY <1>2 DEF OpenAfter
<1>4. [s.open EXCEPT ![m.lane] = OpenAfter(s, m)] \in [Lanes -> SUBSET Ids]
  BY <1>1, <1>3
<1> QED
  BY <1>4 DEF ApplyRecord, State

LEMMA ApplyLaneType ==
  ASSUME NEW s \in State, NEW m, m.seq \in Nat, m.lane \in Lanes,
         m.ref \in Ids \cup {Null}
  PROVE  ApplyLane(s, m) \in State
  BY DEF ApplyLane, State

LEMMA ApplyNameType ==
  ASSUME NEW s \in State, NEW m, m.seq \in Nat, m.type \in Marks
  PROVE  ApplyName(s, m) \in State
  BY DEF ApplyName, State

LEMMA ApplyLabelType ==
  ASSUME NEW s \in State, NEW m, m.seq \in Nat, m.id \in Ids
  PROVE  ApplyLabel(s, m) \in State
  BY DEF ApplyLabel, State

LEMMA ApplyEntrySound ==
  ASSUME NEW s \in State, Sound(s), NEW m, m.seq = s.sequence + 1, m.id \in Ids,
         m.lane \in Lanes \cup {Null}, m.ref \in Ids \cup {Null}, ValidEntry(s, m)
  PROVE  Sound(ApplyEntry(s, m))
<1> DEFINE t == ApplyEntry(s, m)
<1>1. /\ t.sequence = s.sequence + 1 /\ t.usedIds = s.usedIds \cup {m.id}
      /\ t.seqOf = [s.seqOf EXCEPT ![m.id] = m.seq]
      /\ t.parentOf = [s.parentOf EXCEPT ![m.id] = m.ref]
      /\ t.messages \subseteq s.messages \cup {m.id}
      /\ t.labels = s.labels /\ t.open = s.open
      /\ \A l \in Lanes : t.lanes[l] \in {s.lanes[l], m.id}
  BY DEF ApplyEntry, State
<1>2. s.sequence \in Nat /\ s.seqOf \in [Ids -> Nat] /\ s.parentOf \in [Ids -> Ids \cup {Null}]
  BY DEF State
<1>3. Entries(t) = Entries(s) \cup {m.id} /\ m.id \notin Entries(s)
  BY <1>1, <1>2 DEF Entries, ValidEntry, Sound, IdsSound
<1>4. \A i \in Entries(s) : t.seqOf[i] = s.seqOf[i] /\ t.parentOf[i] = s.parentOf[i]
                             /\ s.seqOf[i] <= s.sequence /\ s.seqOf[i] \in Nat
  BY <1>1, <1>2, <1>3 DEF Entries, Sound, TreeSound
<1>5. t.seqOf[m.id] = s.sequence + 1 /\ t.parentOf[m.id] = m.ref
  BY <1>1, <1>2
<1>6. TreeSound(t)
  <2>1. \A l \in Lanes : t.lanes[l] \in Entries(t) \cup {Null, Missing}
    BY <1>1, <1>3 DEF Sound, TreeSound
  <2>2. ASSUME NEW i \in Entries(t), t.parentOf[i] # Null
        PROVE  t.parentOf[i] \in Entries(t) /\ t.seqOf[t.parentOf[i]] < t.seqOf[i]
    <3>1. CASE i = m.id
      <4>1. m.ref \in Entries(s)
        BY <1>5, <2>2, <3>1 DEF ValidEntry
      <4> QED
        BY <1>2, <1>3, <1>4, <1>5, <3>1, <4>1
    <3>2. CASE i \in Entries(s)
      <4>1. s.parentOf[i] \in Entries(s) /\ s.seqOf[s.parentOf[i]] < s.seqOf[i]
        BY <1>4, <2>2, <3>2 DEF Sound, TreeSound
      <4> QED
        BY <1>3, <1>4, <3>2, <4>1
    <3> QED
      BY <1>3, <3>1, <3>2
  <2>3. \A i \in Entries(t) : t.seqOf[i] <= t.sequence
    BY <1>1, <1>2, <1>3, <1>4, <1>5
  <2>4. t.labels \cup t.messages \subseteq Entries(t)
    BY <1>1, <1>3 DEF Sound, TreeSound
  <2> QED
    BY <2>1, <2>2, <2>3, <2>4 DEF TreeSound
<1>7. IdsSound(t)
  <2>1. \A i, j \in Entries(t) : t.seqOf[i] = t.seqOf[j] => i = j
    BY <1>2, <1>3, <1>4, <1>5 DEF Sound, IdsSound
  <2>2. Entries(t) \subseteq t.usedIds
    BY <1>1, <1>3 DEF Sound, IdsSound
  <2>3. \A l \in Lanes : t.open[l] \subseteq t.usedIds \ Entries(t)
    BY <1>1, <1>3 DEF Sound, IdsSound, ValidEntry
  <2> QED
    BY <2>1, <2>2, <2>3 DEF IdsSound
<1>8. OneOpen(t)
  BY <1>1 DEF Sound, OneOpen
<1> QED
  BY <1>6, <1>7, <1>8 DEF Sound

(* A step that leaves the entries and their order alone.                   *)
LEMMA SameTreeSound ==
  ASSUME NEW s \in State, Sound(s), NEW t \in State,
         t.seqOf = s.seqOf, t.parentOf = s.parentOf, t.messages = s.messages,
         t.sequence = s.sequence + 1,
         \A l \in Lanes : t.lanes[l] \in Entries(s) \cup {Null, Missing},
         t.labels \subseteq Entries(s)
  PROVE  TreeSound(t) /\ Entries(t) = Entries(s)
<1>1. Entries(t) = Entries(s)
  BY DEF Entries
<1>2. \A i \in Entries(s) : s.seqOf[i] \in Nat /\ s.seqOf[i] <= s.sequence /\ s.sequence \in Nat
  BY DEF Entries, State, Sound, TreeSound
<1>3. \A i \in Entries(t) : t.seqOf[i] <= t.sequence
  BY <1>1, <1>2
<1> QED
  BY <1>1, <1>3 DEF Sound, TreeSound

LEMMA ApplyRecordSound ==
  ASSUME NEW s \in State, Sound(s), NEW m, m.seq = s.sequence + 1, m.id \in Ids,
         m.lane \in Lanes, ValidRecord(s, m),
         m.type = "operation_started" => s.open[m.lane] = {}
  PROVE  Sound(ApplyRecord(s, m))
<1> DEFINE t == ApplyRecord(s, m)
<1>1. /\ t.sequence = s.sequence + 1 /\ t.usedIds = s.usedIds \cup {m.id}
      /\ t.seqOf = s.seqOf /\ t.parentOf = s.parentOf /\ t.messages = s.messages
      /\ t.lanes = s.lanes /\ t.labels = s.labels
  BY DEF ApplyRecord, State
<1>2. t \in State
  BY ApplyRecordType DEF State
<1>3. \A l \in Lanes : \/ t.open[l] \subseteq s.open[l]
                       \/ (t.open[l] = {m.id} /\ s.open[l] = {})
  <2>1. s.open \in [Lanes -> SUBSET Ids]
    BY DEF State
  <2>2. t.open = [s.open EXCEPT ![m.lane] = OpenAfter(s, m)]
    BY <2>1 DEF ApplyRecord, State
  <2> QED
    BY <2>1, <2>2 DEF OpenAfter
<1>4. TreeSound(t) /\ Entries(t) = Entries(s)
  BY <1>1, <1>2, SameTreeSound DEF Sound, TreeSound
<1>5. m.id \notin Entries(s)
  BY DEF ValidRecord, Sound, IdsSound
<1>6. IdsSound(t)
  BY <1>1, <1>3, <1>4, <1>5 DEF Sound, IdsSound
<1>7. OneOpen(t)
  BY <1>3 DEF Sound, OneOpen
<1> QED
  BY <1>4, <1>6, <1>7 DEF Sound

LEMMA ApplyOtherSound ==
  ASSUME NEW s \in State, Sound(s), NEW t \in State,
         t.seqOf = s.seqOf, t.parentOf = s.parentOf, t.messages = s.messages,
         t.sequence = s.sequence + 1, t.usedIds = s.usedIds, t.open = s.open,
         \A l \in Lanes : t.lanes[l] \in Entries(s) \cup {Null, Missing},
         t.labels \subseteq Entries(s)
  PROVE  Sound(t)
<1>1. TreeSound(t) /\ Entries(t) = Entries(s)
  BY SameTreeSound
<1> QED
  BY <1>1 DEF Sound, IdsSound, OneOpen

(* One accepted operation.                                                 *)
LEMMA PerformedSound ==
  ASSUME NEW s \in State, Sound(s), NEW r \in Requests, Accepts(s, r)
  PROVE  /\ Apply(s, MutationOf(s, r)) \in State
         /\ Sound(Apply(s, MutationOf(s, r)))
<1> DEFINE m == MutationOf(s, r)
           t == Apply(s, m)
<1>1. m.seq = s.sequence + 1 /\ m.seq \in Nat /\ s.sequence \in Nat
  BY MutationOfFields DEF State
<1>2. m \in Mutation /\ Valid(s, m)
  BY MutationOfType, AcceptedValid DEF Sound
<1>3. m.id \in Ids \cup {Null} /\ m.lane \in Lanes \cup {Null} /\ m.ref \in Ids \cup {Null}
  BY <1>2 DEF Mutation
<1>4. CASE r.op = "appendEntry"
  <2>1. m.kind = "entry" /\ m.id \in Ids /\ t = ApplyEntry(s, m)
    BY <1>4, MutationOfFields, RequestFields DEF Apply
  <2>2. ValidEntry(s, m)
    BY <1>2, <2>1 DEF Valid
  <2> QED
    BY <1>1, <1>3, <2>1, <2>2, ApplyEntryType, ApplyEntrySound
<1>5. CASE r.op = "appendRecord"
  <2>1. m.kind = "record" /\ m.id \in Ids /\ m.lane \in Lanes /\ t = ApplyRecord(s, m)
    BY <1>5, MutationOfFields, RequestFields DEF Apply
  <2>2. ValidRecord(s, m)
    BY <1>2, <2>1 DEF Valid
  <2>3. m.type = "operation_started" => s.open[m.lane] = {}
    BY <1>5, MutationOfFields DEF Accepts, AcceptsRecord
  <2> QED
    BY <1>1, <2>1, <2>2, <2>3, ApplyRecordType, ApplyRecordSound
<1>6. CASE r.op \in {"createLane", "moveLane"}
  <2>1. m.kind = "lane" /\ m.lane \in Lanes /\ t = ApplyLane(s, m)
    BY <1>6, MutationOfFields, RequestFields DEF Apply
  <2>2. m.ref \in Entries(s) \cup {Null}
    BY <1>2, <2>1 DEF Valid
  <2>3. t \in State
    BY <1>1, <1>3, <2>1, ApplyLaneType
  <2>4. /\ t.seqOf = s.seqOf /\ t.parentOf = s.parentOf /\ t.messages = s.messages
        /\ t.sequence = s.sequence + 1 /\ t.usedIds = s.usedIds /\ t.open = s.open
        /\ t.labels = s.labels
        /\ \A l \in Lanes : t.lanes[l] \in {s.lanes[l], m.ref}
    BY <1>1, <2>1 DEF ApplyLane, State
  <2> QED
    BY <2>2, <2>3, <2>4, ApplyOtherSound DEF Sound, TreeSound
<1>7. CASE r.op = "setName"
  <2>1. m.kind = "name" /\ m.type \in Marks /\ t = ApplyName(s, m)
    BY <1>7, MutationOfFields, RequestFields DEF Apply
  <2>2. t \in State
    BY <1>1, <2>1, ApplyNameType
  <2>3. /\ t.seqOf = s.seqOf /\ t.parentOf = s.parentOf /\ t.messages = s.messages
        /\ t.sequence = s.sequence + 1 /\ t.usedIds = s.usedIds /\ t.open = s.open
        /\ t.labels = s.labels /\ t.lanes = s.lanes
    BY <1>1, <2>1 DEF ApplyName, State
  <2> QED
    BY <2>2, <2>3, ApplyOtherSound DEF Sound, TreeSound
<1>8. CASE r.op = "setLabel"
  <2>1. m.kind = "label" /\ m.id \in Ids /\ t = ApplyLabel(s, m)
    BY <1>8, MutationOfFields, RequestFields DEF Apply
  <2>2. t \in State
    BY <1>1, <2>1, ApplyLabelType
  <2>3. m.id \in Entries(s)
    BY <1>2, <2>1 DEF Valid
  <2>4. /\ t.seqOf = s.seqOf /\ t.parentOf = s.parentOf /\ t.messages = s.messages
        /\ t.sequence = s.sequence + 1 /\ t.usedIds = s.usedIds /\ t.open = s.open
        /\ t.labels \subseteq s.labels \cup {m.id} /\ t.lanes = s.lanes
    BY <1>1, <2>1 DEF ApplyLabel, State
  <2> QED
    BY <2>2, <2>3, <2>4, ApplyOtherSound DEF Sound, TreeSound
<1> QED
  BY <1>4, <1>5, <1>6, <1>7, <1>8, RequestFields

-----------------------------------------------------------------------------
(* Every set of numbers has a least one.                                   *)
LEMMA LeastNumber ==
  ASSUME NEW T \in SUBSET Nat, T # {}
  PROVE  \E m \in T : \A n \in T : m <= n
<1> DEFINE R == OpToRel(<, Nat)
<1>1. IsWellFoundedOn(R, Nat)
  BY NatLessThanWellFounded
<1>2. \A x, y \in T : y < x => <<y, x>> \in R
  BY DEF OpToRel
<1> HIDE DEF R
<1>3. PICK x \in T : \A y \in T : ~(<<y, x>> \in R)
  BY <1>1, WFMin
<1>4. \A y \in T : ~(y < x)
  BY <1>2, <1>3
<1>5. x \in Int /\ \A y \in T : y \in Int
  OBVIOUS
<1> QED
  BY <1>4, <1>5

=============================================================================
