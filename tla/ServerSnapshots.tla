--------------------------- MODULE ServerSnapshots ---------------------------
(***************************************************************************)
(* The list of sessions that the server of packages/server/src publishes:  *)
(* ServerSnapshotPublisher of snapshots.ts, the handshake of server.ts that *)
(* hands a client its first list, and the list each client keeps           *)
(* (applyServerSnapshot of packages/client/src/state.ts).                  *)
(*                                                                         *)
(* A list is the number of changes it shows.  A change (a session created,  *)
(* attached, detached or disposed of) is announced by a later call of       *)
(* broadcastServerSnapshot.  Each await is a step boundary.                *)
(***************************************************************************)
EXTENDS Integers, FiniteSets

CONSTANTS
  Clients,       \* clients that connect, each once
  MaxChanges,    \* changes of the list of sessions             (bound)
  MaxFailures    \* calls of the service that fail              (bound)

ASSUME PublishAssumption ==
  MaxChanges \in Nat /\ MaxFailures \in Nat /\ IsFiniteSet(Clients)

VARIABLES
  clientStage,   \* ConnectionState.stage; "away" before accept
  handshake,     \* finishHandshake of each client
  handshakeComplete, \* ConnectionState.handshakeComplete, of which clients
  changes,       \* the list of sessions (external)
  unannounced,   \* changes whose broadcastServerSnapshot is still to come
  pubQueue,      \* ServerSnapshotPublisher.broadcastQueue, those not begun
  job,           \* performBroadcast under way
  pubRevision,   \* ServerSnapshotPublisher.revision
  shown,         \* the snapshot each client keeps
  skipped,       \* history: a broadcast reached nobody
  failures       \* calls of the service that failed so far

handshakeVars == <<clientStage, handshake, handshakeComplete>>
publishVars == <<pubQueue, job, pubRevision>>
snapshotsVars == <<clientStage, handshake, handshakeComplete, changes, unannounced,
                   pubQueue, job, pubRevision, shown, skipped, failures>>

Stages == {"away", "awaitingHello", "handshaking", "ready", "closing", "closed"}

(* Changes, and the disconnect of every client, are announced.             *)
MaxRevisions == MaxChanges + Cardinality(Clients)
Lists == 0..MaxChanges

NoHandshake == [pc |-> "none", revision |-> 0, list |-> 0]
NoJob == [pc |-> "idle", revision |-> 0, list |-> 0, targets |-> {}]

Handshake == [pc : {"none", "list", "send", "sent", "catchUp", "catchUpSend"},
              revision : 0..MaxRevisions, list : Lists]
Job == [pc : {"idle", "list", "send"}, revision : 0..MaxRevisions, list : Lists,
        targets : SUBSET Clients]
Snapshot == [revision : -1..MaxRevisions, list : Lists]

PublishTypeOK ==
  /\ clientStage \in [Clients -> Stages]
  /\ handshake \in [Clients -> Handshake]
  /\ handshakeComplete \subseteq Clients
  /\ changes \in Lists
  /\ unannounced \in 0..MaxRevisions
  /\ pubQueue \in 0..MaxRevisions
  /\ job \in Job
  /\ pubRevision \in 0..MaxRevisions
  /\ shown \in [Clients -> Snapshot]
  /\ skipped \in BOOLEAN
  /\ failures \in 0..MaxFailures

PublishInit ==
  /\ clientStage = [c \in Clients |-> "away"]
  /\ handshake = [c \in Clients |-> NoHandshake]
  /\ handshakeComplete = {}
  /\ changes = 0
  /\ unannounced = 0
  /\ pubQueue = 0
  /\ job = NoJob
  /\ pubRevision = 0
  /\ shown = [c \in Clients |-> [revision |-> -1, list |-> 0]]
  /\ skipped = FALSE
  /\ failures = 0

ReadyClients == {c \in Clients : clientStage[c] = "ready"}

(* applyServerSnapshot.                                                    *)
ShowSnapshot(c, rev, list) ==
  shown' = IF rev < shown[c].revision THEN shown
           ELSE [shown EXCEPT ![c] = [revision |-> rev, list |-> list]]

Fail == failures < MaxFailures /\ failures' = failures + 1

-----------------------------------------------------------------------------
(* The handshake.                                                          *)

Accept(c) ==
  /\ clientStage[c] = "away"
  /\ clientStage' = [clientStage EXCEPT ![c] = "awaitingHello"]
  /\ UNCHANGED <<handshake, handshakeComplete, changes, unannounced, publishVars, shown,
                 skipped, failures>>

(* dispatchMessage of hello: get() notes the revision before it awaits.    *)
Hello(c) ==
  /\ clientStage[c] = "awaitingHello"
  /\ clientStage' = [clientStage EXCEPT ![c] = "handshaking"]
  /\ handshake' = [handshake EXCEPT ![c] =
                     [pc |-> "list", revision |-> pubRevision, list |-> 0]]
  /\ UNCHANGED <<handshakeComplete, changes, unannounced, publishVars, shown, skipped,
                 failures>>

(* listSessions reads the list; listModels is still to come.               *)
HandshakeListed(c) ==
  /\ handshake[c].pc \in {"list", "catchUp"}
  /\ handshake' = [handshake EXCEPT
       ![c].pc = IF @ = "list" THEN "send" ELSE "catchUpSend", ![c].list = changes]
  /\ UNCHANGED <<clientStage, handshakeComplete, changes, unannounced, publishVars, shown,
                 skipped, failures>>

(* The server's hello is sent, unless the connection is past handshaking.  *)
HandshakeSend(c) ==
  /\ handshake[c].pc = "send"
  /\ IF clientStage[c] = "handshaking"
     THEN /\ ShowSnapshot(c, handshake[c].revision, handshake[c].list)
          /\ handshake' = [handshake EXCEPT ![c].pc = "sent"]
     ELSE /\ handshake' = [handshake EXCEPT ![c] = NoHandshake]
          /\ UNCHANGED shown
  /\ UNCHANGED <<clientStage, handshakeComplete, changes, unannounced, publishVars,
                 skipped, failures>>

\* Mutant: ready, whatever was broadcast since the snapshot was read.
HandshakeSentReady(c) ==
  /\ handshake[c].pc = "sent"
  /\ handshake' = [handshake EXCEPT ![c] = NoHandshake]
  /\ IF clientStage[c] = "handshaking"
     THEN /\ clientStage' = [clientStage EXCEPT ![c] = "ready"]
          /\ handshakeComplete' = handshakeComplete \cup {c}
     ELSE UNCHANGED <<clientStage, handshakeComplete>>
  /\ UNCHANGED <<changes, unannounced, publishVars, shown, skipped, failures>>

(* The send resolves: ready, and a revision that moved on is caught up.    *)
HandshakeSent(c) ==
  /\ handshake[c].pc = "sent"
  /\ IF clientStage[c] = "handshaking"
     THEN /\ clientStage' = [clientStage EXCEPT ![c] = "ready"]
          /\ handshakeComplete' = handshakeComplete \cup {c}
          /\ handshake' = [handshake EXCEPT ![c] =
               IF handshake[c].revision # pubRevision
               THEN [pc |-> "catchUp", revision |-> pubRevision, list |-> 0]
               ELSE NoHandshake]
     ELSE /\ handshake' = [handshake EXCEPT ![c] = NoHandshake]
          /\ UNCHANGED <<clientStage, handshakeComplete>>
  /\ UNCHANGED <<changes, unannounced, publishVars, shown, skipped, failures>>

CatchUpSend(c) ==
  /\ handshake[c].pc = "catchUpSend"
  /\ IF clientStage[c] = "closed"
     THEN UNCHANGED shown
     ELSE ShowSnapshot(c, handshake[c].revision, handshake[c].list)
  /\ handshake' = [handshake EXCEPT ![c] = NoHandshake]
  /\ UNCHANGED <<clientStage, handshakeComplete, changes, unannounced, publishVars,
                 skipped, failures>>

FailProtocol(c) ==
  clientStage' = [clientStage EXCEPT ![c] =
                    IF @ \in {"closing", "closed"} THEN @ ELSE "closing"]

(* get rejects, for the hello or for the catch-up.                         *)
HandshakeFails(c) ==
  /\ handshake[c].pc \in {"list", "send", "catchUp", "catchUpSend"}
  /\ Fail
  /\ FailProtocol(c)
  /\ handshake' = [handshake EXCEPT ![c] = NoHandshake]
  /\ UNCHANGED <<handshakeComplete, changes, unannounced, publishVars, shown, skipped>>

(* The handshake timer, a version that is not supported, a message out of  *)
(* place.                                                                  *)
ProtocolError(c) ==
  /\ clientStage[c] \in {"awaitingHello", "handshaking"}
  /\ FailProtocol(c)
  /\ UNCHANGED <<handshake, handshakeComplete, changes, unannounced, publishVars, shown,
                 skipped, failures>>

(* disconnect; one whose handshake was complete is announced.              *)
ClientDisconnects(c) ==
  /\ clientStage[c] \notin {"away", "closed"}
  /\ clientStage' = [clientStage EXCEPT ![c] = "closed"]
  /\ unannounced' = unannounced + (IF c \in handshakeComplete THEN 1 ELSE 0)
  /\ UNCHANGED <<handshake, handshakeComplete, changes, publishVars, shown, skipped, failures>>

-----------------------------------------------------------------------------
(* The publisher.                                                          *)

(* By a request of a client that got through, or what it left running.     *)
ListChanges ==
  /\ changes < MaxChanges /\ handshakeComplete # {}
  /\ changes' = changes + 1
  /\ unannounced' = unannounced + 1
  /\ UNCHANGED <<handshakeVars, publishVars, shown, skipped, failures>>

(* broadcast: behind those that were asked for earlier.                    *)
Announce ==
  /\ unannounced > 0
  /\ unannounced' = unannounced - 1
  /\ pubQueue' = pubQueue + 1
  /\ UNCHANGED <<handshakeVars, changes, job, pubRevision, shown, skipped, failures>>

(* performBroadcast up to its first await.                                 *)
PerformBroadcast ==
  /\ pubQueue > 0 /\ job.pc = "idle"
  /\ pubQueue' = pubQueue - 1
  /\ \/ /\ ReadyClients = {}
        /\ skipped' = TRUE
        /\ UNCHANGED <<job, pubRevision>>
     \/ /\ ReadyClients # {}
        /\ pubRevision' = pubRevision + 1
        /\ job' = [pc |-> "list", revision |-> pubRevision + 1, list |-> 0,
                   targets |-> ReadyClients]
        /\ UNCHANGED skipped
  /\ UNCHANGED <<handshakeVars, changes, unannounced, shown, failures>>

BroadcastListed ==
  /\ job.pc = "list"
  /\ job' = [job EXCEPT !.pc = "send", !.list = changes]
  /\ UNCHANGED <<handshakeVars, changes, unannounced, pubQueue, pubRevision, shown,
                 skipped, failures>>

(* The queue goes on behind a broadcast that failed.                       *)
BroadcastFails ==
  /\ job.pc = "list"
  /\ Fail
  /\ job' = NoJob
  /\ skipped' = TRUE
  /\ UNCHANGED <<handshakeVars, changes, unannounced, pubQueue, pubRevision, shown>>

(* sendMessage to one after the other; a disconnected one is passed over.  *)
BroadcastSend(c) ==
  /\ job.pc = "send" /\ c \in job.targets
  /\ job' = IF job.targets = {c} THEN NoJob
            ELSE [job EXCEPT !.targets = @ \ {c}]
  /\ IF clientStage[c] = "closed" THEN UNCHANGED shown
     ELSE ShowSnapshot(c, job.revision, job.list)
  /\ UNCHANGED <<handshakeVars, changes, unannounced, pubQueue, pubRevision, skipped,
                 failures>>

-----------------------------------------------------------------------------
Publishing ==
  \/ Announce \/ PerformBroadcast \/ BroadcastListed \/ BroadcastFails
  \/ \E c \in Clients : BroadcastSend(c)

Handshaking ==
  \E c \in Clients :
    \/ HandshakeListed(c) \/ HandshakeSend(c) \/ HandshakeSent(c)
    \/ CatchUpSend(c) \/ HandshakeFails(c)

PublishNext ==
  \/ Publishing
  \/ Handshaking
  \/ ListChanges
  \/ \E c \in Clients :
       Accept(c) \/ Hello(c) \/ ProtocolError(c) \/ ClientDisconnects(c)

(* The calls a broadcast awaits settle.                                    *)
PublishFairness == WF_snapshotsVars(Publishing)

PublishSpec == PublishInit /\ [][PublishNext]_snapshotsVars /\ PublishFairness

-----------------------------------------------------------------------------
(* Properties.                                                             *)

Published ==
  /\ unannounced = 0 /\ pubQueue = 0 /\ job.pc = "idle"
  /\ \A c \in Clients : handshake[c].pc = "none"

(* A client that became ready while the list changed is caught up: once     *)
(* every broadcast and handshake is through, each ready client shows the    *)
(* list as it is.                                                           *)
ReadyClientsCaughtUp ==
  Published => \A c \in ReadyClients : shown[c].list = changes

(* The same, as long as no broadcast was dropped for want of a ready client *)
(* or failed: hello, catch-up and broadcast may interleave in any order.    *)
CaughtUpUnlessSkipped == skipped \/ ReadyClientsCaughtUp

(* A broadcast that fails does not hold up those behind it.                 *)
PublishQueueDrains == pubQueue > 0 ~> pubQueue = 0

=============================================================================
