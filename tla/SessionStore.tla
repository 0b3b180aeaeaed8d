---------------------------- MODULE SessionStore ----------------------------
(***************************************************************************)
(* A session storage as its callers see it: every operation is checked     *)
(* against the current state and takes effect at once.  This is what       *)
(* InMemorySessionStorage of packages/agent/src/harness/session/memory.ts  *)
(* does, and what the JSONL storage has to look like across crashes.       *)
(***************************************************************************)
EXTENDS SessionState

CONSTANT MaxStoreSequence   \* mutations of one session  (bound)

ASSUME MaxStoreSequenceAssumption == MaxStoreSequence \in Nat

VARIABLE store

StoreInit == store = EmptyState

(* applyMutation repeats the checks; AcceptedIsValid says that they pass.  *)
Perform(requests) ==
  /\ store.sequence < MaxStoreSequence
  /\ \E r \in requests :
       /\ Accepts(store, r)
       /\ store' = Apply(store, MutationOf(store, r))

AppendEntry  == Perform(AppendEntryRequests)
AppendRecord == Perform(AppendRecordRequests)
CreateLane   == Perform({r \in LaneRequests : r.op = "createLane"})
MoveLane     == Perform({r \in LaneRequests : r.op = "moveLane"})
SetName      == Perform(NameRequests)
SetLabel     == Perform(LabelRequests)

StoreNext ==
  \/ AppendEntry
  \/ AppendRecord
  \/ CreateLane
  \/ MoveLane
  \/ SetName
  \/ SetLabel

StoreSpec == StoreInit /\ [][StoreNext]_store

-----------------------------------------------------------------------------
(* Properties.                                                             *)

StoreTypeOK == store \in State

(* An operation whose checks passed is applied without an error.  The      *)
(* JSONL storage writes between the two, so an error there would leave a   *)
(* line in the file that no load accepts.                                  *)
AcceptedIsValid ==
  \A r \in Requests : Accepts(store, r) => Valid(store, MutationOf(store, r))

(* Whatever lanes are created and moved where, every lane and label points *)
(* at an entry, the parents of an entry lead to a root, and ids are not    *)
(* shared; a lane never has two open operations, however started and       *)
(* finished records of several lanes are mixed; and what passes the checks *)
(* of an operation passes those of applyMutation.                          *)
StoreSound == Sound(store) /\ AcceptedIsValid

=============================================================================
