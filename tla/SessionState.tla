---------------------------- MODULE SessionState ----------------------------
(***************************************************************************)
(* The state every session storage folds from its mutations,               *)
(* packages/agent/src/harness/session/state.ts: a tree of entries, lanes   *)
(* that point into it, the operations open on each lane, and facts.        *)
(*                                                                         *)
(* Payloads, timestamps and usage totals are left out; a name or a label   *)
(* is reduced to being set or not.                                         *)
(***************************************************************************)
EXTENDS Integers, Sequences, FiniteSets

CONSTANTS
  Ids,      \* ids of entries and records, provisioned by the caller
  Lanes,    \* lane names a caller may use
  Main,     \* the lane every session starts with
  Null,     \* null: no parent, no leaf, no lane
  Missing   \* the lane is not in the map

ASSUME LanesAssumption == Main \in Lanes

ASSUME NullAssumption ==
  /\ Null \notin Ids /\ Null \notin Lanes
  /\ Missing \notin Ids /\ Missing # Null

(* "custom" stands for every entry type but messages, "usage" for every    *)
(* record that neither opens nor closes an operation.                      *)
EntryTypes  == {"message", "custom"}
RecordTypes == {"operation_started", "operation_finished", "usage"}
Marks       == {"set", "unset"}

(* seqOf[i] = 0 as long as no entry has id i.                              *)
State ==
  [sequence : Nat,
   usedIds  : SUBSET Ids,
   seqOf    : [Ids -> Nat],
   parentOf : [Ids -> Ids \cup {Null}],
   messages : SUBSET Ids,
   lanes    : [Lanes -> Ids \cup {Null, Missing}],
   open     : [Lanes -> SUBSET Ids],
   name     : Marks,
   labels   : SUBSET Ids]

EmptyState ==
  [sequence |-> 0,
   usedIds  |-> {},
   seqOf    |-> [i \in Ids |-> 0],
   parentOf |-> [i \in Ids |-> Null],
   messages |-> {},
   lanes    |-> [l \in Lanes |-> IF l = Main THEN Null ELSE Missing],
   open     |-> [l \in Lanes |-> {}],
   name     |-> "unset",
   labels   |-> {}]

Entries(s) == {i \in Ids : s.seqOf[i] > 0}

(* A SessionMutation.  ref is the parent of an entry, the run a record     *)
(* finishes, or the leaf of a lane.                                        *)
Mutation ==
  [kind : {"entry", "record", "lane", "name", "label"},
   seq  : Nat,
   id   : Ids \cup {Null},
   lane : Lanes \cup {Null},
   ref  : Ids \cup {Null},
   type : EntryTypes \cup RecordTypes \cup Marks]

-----------------------------------------------------------------------------
(* applyMutation: the checks, then the changes.                            *)

ValidEntry(s, m) ==
  /\ m.id \notin s.usedIds
  /\ m.lane # Null => s.lanes[m.lane] # Missing /\ m.ref = s.lanes[m.lane]
  /\ m.ref # Null => m.ref \in Entries(s)

ValidRecord(s, m) ==
  /\ s.lanes[m.lane] # Missing
  /\ m.id \notin s.usedIds

Valid(s, m) ==
  /\ m.seq = s.sequence + 1
  /\ m.kind = "entry" => ValidEntry(s, m)
  /\ m.kind = "record" => ValidRecord(s, m)
  /\ m.kind = "lane" /\ m.ref # Null => m.ref \in Entries(s)
  /\ m.kind = "label" => m.id \in Entries(s)

ApplyEntry(s, m) ==
  [s EXCEPT !.sequence = m.seq,
            !.usedIds  = @ \cup {m.id},
            !.seqOf    = [@ EXCEPT ![m.id] = m.seq],
            !.parentOf = [@ EXCEPT ![m.id] = m.ref],
            !.messages = IF m.type = "message" THEN @ \cup {m.id} ELSE @,
            !.lanes    = IF m.lane = Null THEN @
                         ELSE [@ EXCEPT ![m.lane] = m.id]]

(* The operations open on the lane of a record once it is applied.         *)
OpenAfter(s, m) ==
  IF m.type = "operation_started" THEN s.open[m.lane] \cup {m.id}
  ELSE IF m.type = "operation_finished" THEN s.open[m.lane] \ {m.ref}
  ELSE s.open[m.lane]

ApplyRecord(s, m) ==
  [s EXCEPT !.sequence = m.seq,
            !.usedIds  = @ \cup {m.id},
            !.open     = [@ EXCEPT ![m.lane] = OpenAfter(s, m)]]

ApplyLane(s, m) ==
  [s EXCEPT !.sequence = m.seq, !.lanes = [@ EXCEPT ![m.lane] = m.ref]]

ApplyName(s, m) == [s EXCEPT !.sequence = m.seq, !.name = m.type]

ApplyLabel(s, m) ==
  [s EXCEPT !.sequence = m.seq,
            !.labels = IF m.type = "set" THEN @ \cup {m.id} ELSE @ \ {m.id}]

Apply(s, m) ==
  CASE m.kind = "entry"  -> ApplyEntry(s, m)
    [] m.kind = "record" -> ApplyRecord(s, m)
    [] m.kind = "lane"   -> ApplyLane(s, m)
    [] m.kind = "name"   -> ApplyName(s, m)
    [] m.kind = "label"  -> ApplyLabel(s, m)

-----------------------------------------------------------------------------
(* The operations of a SessionStorage: what a caller asks for, the checks  *)
(* made before anything is written, and the mutation that is written.      *)

AppendEntryRequests ==
  [op : {"appendEntry"}, id : Ids, lane : Lanes, ref : {Null}, type : EntryTypes]
AppendRecordRequests ==
  [op : {"appendRecord"}, id : Ids, lane : Lanes, ref : {Null},
   type : {"operation_started", "usage"}]
  \cup
  [op : {"appendRecord"}, id : Ids, lane : Lanes, ref : Ids,
   type : {"operation_finished"}]
LaneRequests ==
  [op : {"createLane", "moveLane"}, id : {Null}, lane : Lanes,
   ref : Ids \cup {Null}, type : {"set"}]
NameRequests ==
  [op : {"setName"}, id : {Null}, lane : {Null}, ref : {Null}, type : Marks]
LabelRequests ==
  [op : {"setLabel"}, id : Ids, lane : {Null}, ref : {Null}, type : Marks]

Requests == AppendEntryRequests \cup AppendRecordRequests \cup LaneRequests
              \cup NameRequests \cup LabelRequests

\* Mutant: the target of a lane or a label is not looked up.
ValidTargetAny(s, id) == TRUE

ValidTarget(s, id) == id # Null => id \in Entries(s)

\* Mutant: appendRecord does not look for an open operation.
AcceptsRecordAlways(s, r) ==
  /\ s.lanes[r.lane] # Missing
  /\ r.id \notin s.usedIds

AcceptsRecord(s, r) ==
  /\ s.lanes[r.lane] # Missing
  /\ r.id \notin s.usedIds
  /\ r.type = "operation_started" => s.open[r.lane] = {}

AcceptsLane(s, r) ==
  /\ (r.op = "createLane") <=> (s.lanes[r.lane] = Missing)
  /\ ValidTarget(s, r.ref)

Accepts(s, r) ==
  \/ r.op = "appendEntry" /\ s.lanes[r.lane] # Missing /\ r.id \notin s.usedIds
  \/ r.op = "appendRecord" /\ AcceptsRecord(s, r)
  \/ r.op \in {"createLane", "moveLane"} /\ AcceptsLane(s, r)
  \/ r.op = "setName"
  \/ r.op = "setLabel" /\ ValidTarget(s, r.id)

KindOf(op) ==
  CASE op = "appendEntry"  -> "entry"
    [] op = "appendRecord" -> "record"
    [] op \in {"createLane", "moveLane"} -> "lane"
    [] op = "setName"      -> "name"
    [] op = "setLabel"     -> "label"

(* A new entry chains to the leaf of its lane; seq is the next sequence.   *)
MutationOf(s, r) ==
  [kind |-> KindOf(r.op), seq |-> s.sequence + 1, id |-> r.id, lane |-> r.lane,
   ref |-> IF r.op = "appendEntry" THEN s.lanes[r.lane] ELSE r.ref,
   type |-> r.type]

-----------------------------------------------------------------------------
(* What a state must be for the queries over it to make sense.             *)

(* Lanes and labels point at entries, and a parent is older than its       *)
(* child, so walkToRoot ends at a root and meets neither a missing entry   *)
(* nor a cycle.                                                            *)
TreeSound(s) ==
  /\ \A l \in Lanes : s.lanes[l] \in Entries(s) \cup {Null, Missing}
  /\ \A i \in Entries(s) :
       s.parentOf[i] # Null => /\ s.parentOf[i] \in Entries(s)
                               /\ s.seqOf[s.parentOf[i]] < s.seqOf[i]
  /\ \A i \in Entries(s) : s.seqOf[i] <= s.sequence
  /\ s.labels \cup s.messages \subseteq Entries(s)

(* Ids identify: no two entries, no two records and no entry and record    *)
(* share one.                                                              *)
IdsSound(s) ==
  /\ Entries(s) \subseteq s.usedIds
  /\ \A l \in Lanes : s.open[l] \subseteq s.usedIds \ Entries(s)
  /\ \A i, j \in Entries(s) : s.seqOf[i] = s.seqOf[j] => i = j

OneOpen(s) == \A l \in Lanes : \A i, j \in s.open[l] : i = j

Sound(s) == TreeSound(s) /\ IdsSound(s) /\ OneOpen(s)

=============================================================================
