-------------------------- MODULE MCSessionStorage --------------------------
(* Model checking of what keeps a session: SessionStore and the forks of   *)
(* its states, or JsonlStorage across crashes.                             *)
EXTENDS MCJsonlStorage, SessionStore, TLC

VARIABLE subject

mcVars == <<vars, store, subject>>

IdSymmetry == Permutations(Ids)

MCInit ==
  /\ subject \in {"store", "jsonl"}
  /\ StoreInit /\ Init

MCStoreNext ==
  /\ subject = "store" /\ StoreNext
  /\ UNCHANGED <<vars, subject>>
MCJsonlNext ==
  /\ subject = "jsonl" /\ CrashNext
  /\ UNCHANGED <<store, subject>>
MCNext == MCStoreNext \/ MCJsonlNext

MCSpec == MCInit /\ [][MCNext]_mcVars

(* Every fork of every reachable session replays to the session it should  *)
(* be: parents are copied before their children, with consecutive          *)
(* sequence numbers, and records stay behind (createForkMutations).        *)
ForksFaithful == ForkFaithful(store)

=============================================================================
