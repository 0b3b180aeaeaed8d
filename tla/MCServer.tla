------------------------------ MODULE MCServer ------------------------------
(* Model checking of the session server and its client: LiveSessions,      *)
(* ServerSnapshots and ClientLeases, one of them in each behaviour.        *)
EXTENDS LiveSessions, ServerSnapshots, ClientLeases, TLC

VARIABLE subject

mcVars == <<liveVars, snapshotsVars, leaseVars, subject>>

SlotSymmetry == Permutations(Slots)

MCInit ==
  /\ subject \in {"sessions", "snapshots", "leases"}
  /\ LiveInit /\ PublishInit /\ LeaseInit

SessionsNext ==
  /\ subject = "sessions" /\ LiveNext
  /\ UNCHANGED <<snapshotsVars, leaseVars, subject>>
SnapshotsNext ==
  /\ subject = "snapshots" /\ PublishNext
  /\ UNCHANGED <<liveVars, leaseVars, subject>>
LeasesNext ==
  /\ subject = "leases" /\ LeaseNext
  /\ UNCHANGED <<liveVars, snapshotsVars, subject>>

MCNext == SessionsNext \/ SnapshotsNext \/ LeasesNext

MCSafety == MCInit /\ [][MCNext]_mcVars

MCSpec == MCSafety /\ LiveFairness /\ PublishFairness /\ LeaseFairness

(* All three keep the types of their variables.                            *)
ServerTypeOK == LiveTypeOK /\ PublishTypeOK /\ LeaseTypeOK

(* What a client shows of a session it is attached to and of the list of    *)
(* sessions is not older than the last change, once everything is sent.    *)
ClientsUpToDate == ViewsConverge /\ CaughtUpUnlessSkipped

(* The server answers every request, ends when it is closed and publishes   *)
(* its list whatever fails.                                                *)
ServerSettles == CloseCompletes /\ RequestsSettle /\ PublishQueueDrains

=============================================================================
