---------------------------- MODULE ClientLeases ----------------------------
(***************************************************************************)
(* The leases of one session that PiClient of packages/client/src/client.ts *)
(* hands out over its one attachment to the server, and the server as the   *)
(* client meets it (executeCommand of packages/server/src/sessions.ts).    *)
(*                                                                         *)
(* A lease is suspended at the await its pc names.  Pcs in Settled are      *)
(* continuations of settled promises: they run, with whatever calls the     *)
(* client's user makes in between, before the next message.                *)
(***************************************************************************)
EXTENDS Integers, FiniteSets

CONSTANTS
  Leases,          \* leases held or being acquired at once     (bound)
  NoLease,
  MaxDisconnects   \* connections that are lost                 (bound)

ASSUME LeaseAssumption ==
  /\ NoLease \notin Leases /\ {"attach", "reconcile"} \cap Leases = {}
  /\ IsFiniteSet(Leases) /\ MaxDisconnects \in Nat

VARIABLES
  lease,           \* every lease: pc, mode, generation, relinquishOnFailure
  leaseCount,      \* #sessionLeaseCounts of the session
  exclusiveLease,  \* #exclusiveSessionLeases
  generation,      \* #sessionLeaseGenerations
  attached,        \* ClientState.isSessionAttached
  cleanupRequired, \* #sessionCleanupRequired
  detachment,      \* #sessionDetachments: the lease whose detach it is
  attachment,      \* #sessionAttachments
  reconciliation,  \* #sessionReconciliations: under way
  inFlight,        \* requests of the client that are not answered yet
  connected,
  serverAttached,  \* the server has the session in sessionIds of the connection
  strayed          \* history: the server refused what it had carried out

requestVars == <<attachment, reconciliation, inFlight>>
serverVars == <<connected, serverAttached, strayed>>
countingVars == <<leaseCount, exclusiveLease, generation>>
leaseVars == <<lease, leaseCount, exclusiveLease, generation, attached,
               cleanupRequired, detachment, attachment, reconciliation, inFlight,
               connected, serverAttached, strayed>>

Settled == {"detachmentOver", "reconciled", "reconcileFailed", "attachOk",
            "attachFailed", "detachOk", "detachFailed"}
Waiting == {"awaitDetachment", "reconcile", "attach", "detach"}

(* The attach, the detach of a reconciliation, the detach of each lease.   *)
Requests == {"attach", "reconcile"} \cup Leases
Progresses == {"none", "sent", "ok", "error"}

LeaseRecord == [pc : {"none", "active"} \cup Settled \cup Waiting,
                mode : {"exclusive", "shared"},
                generation : 0..MaxDisconnects,
                relinquish : BOOLEAN]

LeaseTypeOK ==
  /\ lease \in [Leases -> LeaseRecord]
  /\ leaseCount \in 0..Cardinality(Leases)
  /\ exclusiveLease \in Leases \cup {NoLease}
  /\ generation \in 0..MaxDisconnects
  /\ attached \in BOOLEAN
  /\ cleanupRequired \in BOOLEAN
  /\ detachment \in Leases \cup {NoLease}
  /\ attachment \in {"none", "pending", "ok", "failed"}
  /\ reconciliation \in BOOLEAN
  /\ inFlight \in [Requests -> Progresses]
  /\ connected \in BOOLEAN
  /\ serverAttached \in BOOLEAN
  /\ strayed \in BOOLEAN

FreeLease == [pc |-> "none", mode |-> "shared", generation |-> 0, relinquish |-> FALSE]

LeaseInit ==
  /\ lease = [l \in Leases |-> FreeLease]
  /\ leaseCount = 0
  /\ exclusiveLease = NoLease
  /\ generation = 0
  /\ attached = FALSE
  /\ cleanupRequired = FALSE
  /\ detachment = NoLease
  /\ attachment = "none"
  /\ reconciliation = FALSE
  /\ inFlight = [r \in Requests |-> "none"]
  /\ connected = TRUE
  /\ serverAttached = FALSE
  /\ strayed = FALSE

AllSettled == \A l \in Leases : lease[l].pc \notin Settled

-----------------------------------------------------------------------------
(* #reserveSessionLease and #releaseSessionLease.                          *)

\* Mutant: an exclusive lease is refused only next to another exclusive one.
ReserveNextToShared(l, mode) ==
  /\ exclusiveLease = NoLease
  /\ leaseCount' = leaseCount + 1
  /\ exclusiveLease' = IF mode = "exclusive" THEN l ELSE exclusiveLease

ReserveSessionLease(l, mode) ==
  /\ IF mode = "exclusive" THEN leaseCount = 0 ELSE exclusiveLease = NoLease
  /\ leaseCount' = leaseCount + 1
  /\ exclusiveLease' = IF mode = "exclusive" THEN l ELSE exclusiveLease

\* Mutant: a count that was reset is decremented below zero.
ReleaseBelowZero(l) ==
  /\ leaseCount' = leaseCount - 1
  /\ exclusiveLease' = IF exclusiveLease = l THEN NoLease ELSE exclusiveLease

ReleaseSessionLease(l) ==
  /\ leaseCount' = IF leaseCount <= 1 THEN 0 ELSE leaseCount - 1
  /\ exclusiveLease' = IF exclusiveLease = l THEN NoLease ELSE exclusiveLease

(* The rest of acquireSession behind the detachment, from lease record new. *)
(* A request of a client that is not connected is refused at once.         *)
Proceed(l, new) ==
  \/ /\ cleanupRequired
     /\ reconciliation' = (reconciliation \/ connected)
     /\ inFlight' = IF reconciliation \/ ~connected THEN inFlight
                    ELSE [inFlight EXCEPT !["reconcile"] = "sent"]
     /\ lease' = [lease EXCEPT ![l] =
          [new EXCEPT !.pc = IF reconciliation \/ connected THEN "reconcile"
                                                           ELSE "reconcileFailed"]]
     /\ UNCHANGED attachment
  \/ /\ ~cleanupRequired /\ attached
     /\ lease' = [lease EXCEPT ![l] = [new EXCEPT !.pc = "active",
                                                  !.generation = generation]]
     /\ UNCHANGED requestVars

(* The attachment every acquisition of the session shares.                 *)
JoinAttachment(l, new) ==
  LET joined == IF attachment # "none" THEN attachment
                ELSE IF connected THEN "pending" ELSE "failed" IN
  /\ attachment' = joined
  /\ inFlight' = IF attachment = "none" /\ connected
                 THEN [inFlight EXCEPT !["attach"] = "sent"] ELSE inFlight
  /\ lease' = [lease EXCEPT ![l] = [new EXCEPT !.pc =
       CASE joined = "pending" -> "attach"
         [] joined = "ok" -> "attachOk"
         [] joined = "failed" -> "attachFailed"]]
  /\ UNCHANGED reconciliation

\* Mutant: acquireSession does not wait for a detachment under way.
AcquireAtOnce(l, mode) ==
  LET new == [FreeLease EXCEPT !.mode = mode] IN
  /\ lease[l].pc = "none"
  /\ ReserveSessionLease(l, mode)
  /\ \/ Proceed(l, new)
     \/ ~cleanupRequired /\ ~attached /\ JoinAttachment(l, new)
  /\ UNCHANGED <<generation, attached, cleanupRequired, detachment, serverVars>>

AcquireSession(l, mode) ==
  LET new == [FreeLease EXCEPT !.mode = mode] IN
  /\ lease[l].pc = "none"
  /\ ReserveSessionLease(l, mode)
  /\ \/ /\ detachment # NoLease
        /\ lease' = [lease EXCEPT ![l] = [new EXCEPT !.pc =
             IF lease[detachment].pc = "detach" THEN "awaitDetachment"
                                                ELSE "detachmentOver"]]
        /\ UNCHANGED requestVars
     \/ detachment = NoLease /\ Proceed(l, new)
     \/ /\ detachment = NoLease /\ ~cleanupRequired /\ ~attached
        /\ JoinAttachment(l, new)
  /\ UNCHANGED <<generation, attached, cleanupRequired, detachment, serverVars>>

(* Its continuations.  The lease whose detach settled goes on before those  *)
(* that waited for it.                                                      *)
DetachmentOver(l) ==
  /\ lease[l].pc = "detachmentOver"
  /\ \A k \in Leases : lease[k].pc \notin {"detachOk", "detachFailed"}
  /\ \/ Proceed(l, lease[l])
     \/ ~cleanupRequired /\ ~attached /\ JoinAttachment(l, lease[l])
  /\ UNCHANGED <<countingVars, attached, cleanupRequired, detachment, serverVars>>

Reconciled(l) ==
  /\ lease[l].pc = "reconciled"
  /\ JoinAttachment(l, lease[l])
  /\ UNCHANGED <<countingVars, attached, cleanupRequired, detachment, serverVars>>

AttachmentOver(l) ==
  /\ lease[l].pc = "attachOk"
  /\ attachment' = IF attachment = "pending" THEN attachment ELSE "none"
  /\ lease' = [lease EXCEPT ![l].pc = "active", ![l].generation = generation]
  /\ UNCHANGED <<countingVars, attached, cleanupRequired, detachment, reconciliation,
                 inFlight, serverVars>>

AcquireFails(l) ==
  /\ lease[l].pc \in {"attachFailed", "reconcileFailed"}
  /\ attachment' = IF lease[l].pc = "attachFailed" /\ attachment # "pending"
                   THEN "none" ELSE attachment
  /\ ReleaseSessionLease(l)
  /\ lease' = [lease EXCEPT ![l] = FreeLease]
  /\ UNCHANGED <<generation, attached, cleanupRequired, detachment, reconciliation,
                 inFlight, serverVars>>

-----------------------------------------------------------------------------
(* release of a handle: detach() keeps the lease when the server refuses,   *)
(* dispose() gives it up.                                                   *)

IsActive(l) == lease[l].pc = "active" /\ lease[l].generation = generation /\ attached

Release(l, relinquishOnFailure) ==
  /\ IsActive(l) /\ connected
  /\ IF leaseCount <= 1
     THEN /\ lease' = [lease EXCEPT ![l].pc = "detach",
                                    ![l].relinquish = relinquishOnFailure]
          /\ detachment' = l
          /\ inFlight' = [inFlight EXCEPT ![l] = "sent"]
          /\ UNCHANGED <<leaseCount, exclusiveLease>>
     ELSE /\ ReleaseSessionLease(l)
          /\ lease' = [lease EXCEPT ![l] = FreeLease]
          /\ UNCHANGED <<detachment, inFlight>>
  /\ UNCHANGED <<generation, attached, cleanupRequired, attachment, reconciliation,
                 serverVars>>

ReleaseOver(l) ==
  /\ lease[l].pc \in {"detachOk", "detachFailed"}
  /\ detachment' = IF detachment = l THEN NoLease ELSE detachment
  /\ \/ /\ lease[l].pc = "detachOk"
        /\ ReleaseSessionLease(l)
        /\ lease' = [lease EXCEPT ![l] = FreeLease]
        /\ UNCHANGED cleanupRequired
     \/ /\ lease[l].pc = "detachFailed" /\ lease[l].generation # generation
        /\ lease' = [lease EXCEPT ![l] = FreeLease]
        /\ UNCHANGED <<leaseCount, exclusiveLease, cleanupRequired>>
     \/ /\ lease[l].pc = "detachFailed" /\ lease[l].generation = generation
        /\ lease[l].relinquish
        /\ ReleaseSessionLease(l)
        /\ lease' = [lease EXCEPT ![l] = FreeLease]
        /\ cleanupRequired' = TRUE
     \/ /\ lease[l].pc = "detachFailed" /\ lease[l].generation = generation
        /\ ~lease[l].relinquish
        /\ lease' = [lease EXCEPT ![l].pc = "active"]
        /\ UNCHANGED <<leaseCount, exclusiveLease, cleanupRequired>>
  /\ UNCHANGED <<generation, attached, requestVars, serverVars>>

(* A handle of an earlier generation: nothing to release.                  *)
Forget(l) ==
  /\ lease[l].pc = "active" /\ lease[l].generation # generation
  /\ lease' = [lease EXCEPT ![l] = FreeLease]
  /\ UNCHANGED <<countingVars, attached, cleanupRequired, detachment, requestVars,
                 serverVars>>

-----------------------------------------------------------------------------
(* The server (modelled in LiveSessions) and the connection.               *)

(* attach may be refused before or after the connection is in the session;  *)
(* what makes detach fail comes after the connection has left it.           *)
ServerHandles(r) ==
  /\ AllSettled /\ inFlight[r] = "sent"
  /\ \/ /\ inFlight' = [inFlight EXCEPT ![r] = "ok"]
        /\ serverAttached' = (r = "attach")
        /\ strayed' = FALSE
     \/ /\ inFlight' = [inFlight EXCEPT ![r] = "error"]
        /\ serverAttached' = (r = "attach")
        /\ strayed' = TRUE
     \/ /\ r = "attach"
        /\ inFlight' = [inFlight EXCEPT ![r] = "error"]
        /\ UNCHANGED <<serverAttached, strayed>>
  /\ UNCHANGED <<lease, countingVars, attached, cleanupRequired, detachment, attachment,
                 reconciliation, connected>>

(* Those whose pc is from go on at to.                                     *)
Resume(from, to) ==
  [l \in Leases |-> IF lease[l].pc \in from THEN [lease[l] EXCEPT !.pc = to] ELSE lease[l]]

(* #handleMessage of the response.                                         *)
ReceiveAttached ==
  /\ AllSettled /\ inFlight["attach"] \in {"ok", "error"}
  /\ LET ok == inFlight["attach"] = "ok" IN
     /\ attached' = (attached \/ ok)
     /\ attachment' = IF ok THEN "ok" ELSE "failed"
     /\ lease' = Resume({"attach"}, IF ok THEN "attachOk" ELSE "attachFailed")
  /\ inFlight' = [inFlight EXCEPT !["attach"] = "none"]
  /\ UNCHANGED <<countingVars, cleanupRequired, detachment, reconciliation, serverVars>>

ReceiveReconciled ==
  /\ AllSettled /\ inFlight["reconcile"] \in {"ok", "error"}
  /\ LET ok == inFlight["reconcile"] = "ok" IN
     /\ attached' = (attached /\ ~ok)
     /\ cleanupRequired' = (cleanupRequired /\ ~ok)
     /\ lease' = Resume({"reconcile"}, IF ok THEN "reconciled" ELSE "reconcileFailed")
  /\ reconciliation' = FALSE
  /\ inFlight' = [inFlight EXCEPT !["reconcile"] = "none"]
  /\ UNCHANGED <<countingVars, detachment, attachment, serverVars>>

\* Mutant: those that wait for the detachment are not told.
ReceiveDetachedAlone(l) ==
  /\ AllSettled /\ inFlight[l] \in {"ok", "error"}
  /\ attached' = (attached /\ inFlight[l] # "ok")
  /\ lease' = [lease EXCEPT ![l].pc =
                 IF inFlight[l] = "ok" THEN "detachOk" ELSE "detachFailed"]
  /\ inFlight' = [inFlight EXCEPT ![l] = "none"]
  /\ UNCHANGED <<countingVars, cleanupRequired, detachment, attachment, reconciliation,
                 serverVars>>

ReceiveDetached(l) ==
  /\ AllSettled /\ inFlight[l] \in {"ok", "error"}
  /\ attached' = (attached /\ inFlight[l] # "ok")
  /\ lease' = [Resume({"awaitDetachment"}, "detachmentOver") EXCEPT ![l] =
       [lease[l] EXCEPT !.pc = IF inFlight[l] = "ok" THEN "detachOk" ELSE "detachFailed"]]
  /\ inFlight' = [inFlight EXCEPT ![l] = "none"]
  /\ UNCHANGED <<countingVars, cleanupRequired, detachment, attachment, reconciliation,
                 serverVars>>

(* A session_snapshot event, which the server sends to what is attached.   *)
ReceiveSnapshot ==
  /\ AllSettled /\ connected /\ serverAttached
  /\ attached' = TRUE
  /\ UNCHANGED <<lease, countingVars, cleanupRequired, detachment, requestVars, serverVars>>

(* #handleConnectionStateChange, and what the server makes of it.  Every    *)
(* pending request is rejected.                                            *)
LoseConnection ==
  LET failed == [reconcile |-> "reconcileFailed", attach |-> "attachFailed",
                 detach |-> "detachFailed", awaitDetachment |-> "detachmentOver"] IN
  /\ AllSettled /\ connected /\ generation < MaxDisconnects
  /\ connected' = FALSE
  /\ serverAttached' = FALSE
  /\ attached' = FALSE
  /\ leaseCount' = 0
  /\ exclusiveLease' = NoLease
  /\ generation' = IF leaseCount > 0 THEN generation + 1 ELSE generation
  /\ cleanupRequired' = FALSE
  /\ attachment' = IF attachment = "pending" THEN "failed" ELSE attachment
  /\ reconciliation' = FALSE
  /\ inFlight' = [r \in Requests |-> "none"]
  /\ lease' = [l \in Leases |-> IF lease[l].pc \in Waiting
                                THEN [lease[l] EXCEPT !.pc = failed[@]] ELSE lease[l]]
  /\ strayed' = FALSE
  /\ UNCHANGED detachment

Reconnect ==
  /\ AllSettled /\ ~connected
  /\ connected' = TRUE
  /\ UNCHANGED <<lease, countingVars, attached, cleanupRequired, detachment, requestVars,
                 serverAttached, strayed>>

-----------------------------------------------------------------------------
Continue(l) ==
  DetachmentOver(l) \/ Reconciled(l) \/ AttachmentOver(l) \/ AcquireFails(l) \/ ReleaseOver(l)

Answer(r) ==
  \/ ServerHandles(r)
  \/ r = "attach" /\ ReceiveAttached
  \/ r = "reconcile" /\ ReceiveReconciled
  \/ r \in Leases /\ ReceiveDetached(r)

LeaseNext ==
  \/ \E l \in Leases :
       \/ \E mode \in {"exclusive", "shared"} : AcquireSession(l, mode)
       \/ \E relinquishOnFailure \in BOOLEAN : Release(l, relinquishOnFailure)
       \/ Forget(l)
       \/ Continue(l)
  \/ \E r \in Requests : Answer(r)
  \/ ReceiveSnapshot \/ LoseConnection \/ Reconnect

(* Continuations run, and a request is answered or its connection lost.    *)
LeaseFairness ==
  /\ \A l \in Leases : WF_leaseVars(Continue(l))
  /\ \A r \in Requests : WF_leaseVars(Answer(r))

LeaseSpec == LeaseInit /\ [][LeaseNext]_leaseVars /\ LeaseFairness

-----------------------------------------------------------------------------
(* Properties.                                                             *)

(* An exclusive lease is alone, also while releases, failed releases and    *)
(* acquisitions of the session overlap.                                     *)
ExclusiveIsAlone ==
  \A l, k \in Leases :
    l # k /\ IsActive(l) /\ IsActive(k) => lease[l].mode = "shared"

(* attach and detach of the session are never under way together: the       *)
(* server handles requests concurrently, so their order would be lost.      *)
NoAttachWhileDetaching ==
  inFlight["attach"] # "none" =>
    \A r \in Requests \ {"attach"} : inFlight[r] = "none"

(* Whoever holds an active lease is attached at the server: no release of   *)
(* another lease takes the attachment away, unless the server refused what  *)
(* it had carried out.                                                      *)
ActiveIsAttached ==
  ~strayed /\ (\E l \in Leases : IsActive(l)) => serverAttached

(* The last release detaches: with nothing under way, a session still       *)
(* attached at the server has a current lease or is marked for cleanup.     *)
NoAttachmentLeaks ==
  connected /\ serverAttached /\ ~strayed
    /\ (\A l \in Leases : lease[l].pc \in {"none", "active"})
    /\ (\A r \in Requests : inFlight[r] = "none")
  => \/ cleanupRequired
     \/ \E l \in Leases : lease[l].pc = "active" /\ lease[l].generation = generation

(* The leases of the client are compatible, and what they say and what the *)
(* server was told agree, however acquisitions, releases, refusals and lost*)
(* connections overlap.                                                    *)
AttachmentsAgree ==
  ExclusiveIsAlone /\ NoAttachWhileDetaching /\ ActiveIsAttached /\ NoAttachmentLeaks

(* An acquisition or a release settles: it is not left behind by a          *)
(* detachment, a reconciliation or a connection that ended.                 *)
LeasesSettle ==
  \A l \in Leases : lease[l].pc \in Waiting ~> lease[l].pc \in {"none", "active"}

=============================================================================
