----------------------------- MODULE SessionFork -----------------------------
(***************************************************************************)
(* Forking a session: createForkMutations of state.ts turns a state into   *)
(* the mutations of a new session, which every storage then applies to an  *)
(* empty state.                                                            *)
(***************************************************************************)
EXTENDS SessionState, SequencesExt

(* One step of walkToRoot, oldest entry first.                             *)
WithParent(s, path) ==
  IF s.parentOf[Head(path)] = Null THEN path ELSE <<s.parentOf[Head(path)]>> \o path

(* walkToRoot: no entry has more parents than the session has mutations.   *)
Branch(s, start) ==
  LET walk[n \in 0..s.sequence] ==
        IF n = 0 THEN <<start>> ELSE WithParent(s, walk[n - 1])
  IN walk[s.sequence]

(* The members of S in the order of their numbers.                         *)
InOrder(S, number) ==
  [n \in 1..Cardinality(S) |->
     CHOOSE i \in S : Cardinality({j \in S : number[j] <= number[i]}) = n]

\* Mutant: findEntries without an order returns the newest entry first.
AllEntriesNewestFirst(s) == Reverse(InOrder(Entries(s), s.seqOf))

(* findEntries({order: "oldestFirst"}).                                    *)
AllEntries(s) == InOrder(Entries(s), s.seqOf)

(* ForkOptions: the tree, or the branch up to an entry (the leaf of main   *)
(* when none is given), including it or stopping before it.                *)
ForkOptions ==
  [scope : {"tree"}, entryId : {Null}, position : {"at"}]
  \cup [scope : {"branch"}, entryId : Ids \cup {Null}, position : {"at", "before"}]

Selected(s, o) == IF o.entryId = Null THEN s.lanes[Main] ELSE o.entryId

(* A selected entry has to be a message, or the fork is refused.           *)
ForkAccepted(s, o) ==
  \/ o.scope = "tree"
  \/ Selected(s, o) = Null
  \/ Selected(s, o) \in s.messages

ForkTarget(s, o) ==
  IF Selected(s, o) = Null \/ o.position = "at" THEN Selected(s, o)
  ELSE s.parentOf[Selected(s, o)]

CopiedEntries(s, o) ==
  IF o.scope = "tree" THEN AllEntries(s)
  ELSE IF ForkTarget(s, o) = Null THEN <<>>
  ELSE Branch(s, ForkTarget(s, o))

ForkLanes(s, o) ==
  IF o.scope = "tree"
  THEN SetToSeq({[lane |-> l, leaf |-> s.lanes[l]] :
                   l \in {k \in Lanes : s.lanes[k] # Missing}})
  ELSE <<[lane |-> Main, leaf |-> ForkTarget(s, o)]>>

(* Entries without a lane, then the lanes, the name and the labels, with   *)
(* consecutive sequence numbers.  Labels follow the order of the copied    *)
(* entries, which is the one of their numbers.                             *)
CreateForkMutations(s, o) ==
  LET copied   == CopiedEntries(s, o)
      lanes    == ForkLanes(s, o)
      labelled == InOrder(ToSet(copied) \cap s.labels, s.seqOf)
      entry(i) == [kind |-> "entry", id |-> i, lane |-> Null,
                   ref |-> s.parentOf[i],
                   type |-> IF i \in s.messages THEN "message" ELSE "custom"]
      lane(p)  == [kind |-> "lane", id |-> Null, lane |-> p.lane,
                   ref |-> p.leaf, type |-> "set"]
      name     == [kind |-> "name", id |-> Null, lane |-> Null, ref |-> Null,
                   type |-> "set"]
      label(i) == [kind |-> "label", id |-> i, lane |-> Null, ref |-> Null,
                   type |-> "set"]
      all == [k \in 1..Len(copied) |-> entry(copied[k])]
               \o [k \in 1..Len(lanes) |-> lane(lanes[k])]
               \o (IF s.name = "set" THEN <<name>> ELSE <<>>)
               \o [k \in 1..Len(labelled) |-> label(labelled[k])]
  IN [k \in 1..Len(all) |->
        [kind |-> all[k].kind, seq |-> k, id |-> all[k].id, lane |-> all[k].lane,
         ref |-> all[k].ref, type |-> all[k].type]]

-----------------------------------------------------------------------------
(* Applying a log to the empty state, stopping at an invalid mutation.     *)

Replayed(acc, m) ==
  IF acc.ok /\ Valid(acc.state, m)
  THEN [ok |-> TRUE, state |-> Apply(acc.state, m)]
  ELSE [ok |-> FALSE, state |-> acc.state]

Replay(log) ==
  LET after[k \in 0..Len(log)] ==
        IF k = 0 THEN [ok |-> TRUE, state |-> EmptyState]
        ELSE Replayed(after[k - 1], log[k])
  IN after[Len(log)]

(* What a fork promises, stated without its mutations: t holds the whole   *)
(* tree, or the least set of entries that has the target and the parents   *)
(* of its members, in the same order and with the same facts, and none of  *)
(* the records.                                                            *)
ClosedUnderParent(s, S) ==
  \A i \in S : s.parentOf[i] # Null => s.parentOf[i] \in S

ForkOf(s, o, t) ==
  LET target == ForkTarget(s, o) IN
  /\ Entries(t) \subseteq Entries(s)
  /\ o.scope = "tree" => Entries(t) = Entries(s) /\ t.lanes = s.lanes
  /\ o.scope = "branch" =>
       /\ t.lanes = [EmptyState.lanes EXCEPT ![Main] = target]
       /\ \A S \in SUBSET Entries(s) :
            (target = Null \/ target \in S) /\ ClosedUnderParent(s, S)
              => Entries(t) \subseteq S
  /\ \A i \in Entries(t) : t.parentOf[i] = s.parentOf[i]
  /\ \A i, j \in Entries(t) : s.seqOf[i] < s.seqOf[j] => t.seqOf[i] < t.seqOf[j]
  /\ t.messages = s.messages \cap Entries(t)
  /\ t.labels = s.labels \cap Entries(t)
  /\ t.name = s.name
  /\ t.open = EmptyState.open

(* Every accepted fork of s replays without an error, to a sound state     *)
(* that is the fork the options ask for.                                   *)
ForkFaithful(s) ==
  \A o \in ForkOptions : ForkAccepted(s, o) =>
    LET fork == Replay(CreateForkMutations(s, o)) IN
    fork.ok /\ Sound(fork.state) /\ ForkOf(s, o, fork.state)

=============================================================================
