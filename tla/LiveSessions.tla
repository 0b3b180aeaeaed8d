---------------------------- MODULE LiveSessions ----------------------------
(***************************************************************************)
(* The live sessions of packages/server/src/sessions.ts: how requests of   *)
(* several connections acquire, share and dispose of session runtimes, and *)
(* how PiServer.close of server.ts takes them down.                        *)
(*                                                                         *)
(* A request is suspended at the await its pc names.  JavaScript runs the  *)
(* continuations of a settled promise before the next event: a request     *)
(* whose pc is in Resumed goes on before anything else happens.            *)
(***************************************************************************)
EXTENDS Integers, FiniteSets

CONSTANTS
  Conns,         \* connections, past their handshake
  Sessions,      \* durable sessions
  Slots,         \* requests that can be under way at once      (bound)
  None,          \* no request
  MaxRuntimes,   \* runtimes the service hands out              (bound)
  MaxRevision,   \* updates of one session                      (bound)
  MaxRequests,   \* requests that arrive                        (bound)
  MaxLost        \* snapshots that fail once a session is live  (bound)

ASSUME LiveAssumption ==
  /\ MaxRuntimes \in Nat
  /\ MaxRevision \in Nat
  /\ MaxRequests \in Nat
  /\ MaxLost \in Nat
  /\ None \notin Slots /\ IsFiniteSet(Slots)
  /\ Conns # {} /\ Sessions # {}

VARIABLES
  stage,           \* ConnectionState.stage
  sessionIds,      \* ConnectionState.sessionIds
  live,            \* runtimes with the LiveSession around each
  liveSessions,    \* LiveSessionManager.liveSessions, 0 where it has none
  openingSessions, \* LiveSessionManager.openingSessions: the request that opens
  requests,        \* requests under way
  revision,        \* revision of each durable session (external)
  broadcasts,      \* broadcastSnapshot calls of runtime events: runtime, revision
  view,            \* revision of the snapshot each client keeps, -1 for none
  closing,         \* progress of PiServer.close
  closeWaits,      \* the openings that LiveSessionManager.close waits for
  closeFinds,      \* the runtimes whose disposal it waits for
  received,        \* requests so far
  lost             \* snapshots that failed so far

connVars == <<stage, sessionIds>>
managerVars == <<liveSessions, openingSessions>>
snapshotVars == <<revision, broadcasts, view>>
closeVars == <<closing, closeWaits, closeFinds>>
countVars == <<received, lost>>
liveVars == <<stage, sessionIds, live, liveSessions, openingSessions, requests,
              revision, broadcasts, view, closing, closeWaits, closeFinds,
              received, lost>>

Runtimes == 1..MaxRuntimes
Revisions == 0..MaxRevision

(* unused: not handed out yet; opening: create() waits for its first       *)
(* snapshot; open: in a LiveSession; discarded: create() failed and        *)
(* disposes of it.                                                         *)
RuntimeStates == {"unused", "opening", "open", "discarded"}
Disposals == {"none", "pending", "resolved", "rejected"}

LiveSession ==
  [state : RuntimeStates, session : Sessions, connections : SUBSET Conns,
   operationCount : 0..Cardinality(Slots), subscribed : BOOLEAN,
   terminal : BOOLEAN, disposing : Disposals, phase : {"idle", "turn"}]

Unused(s) ==
  [state |-> "unused", session |-> s, connections |-> {}, operationCount |-> 0,
   subscribed |-> FALSE, terminal |-> FALSE, disposing |-> "none",
   phase |-> "idle"]

Resumed == {"found", "opened", "joined", "acquire"}
Awaits == {"free", "awaitDisposing", "awaitOpening", "open", "openSnapshot",
           "discard", "operate", "snapshot", "awaitDetach"} \cup Resumed

Request ==
  [pc : Awaits, kind : {"attach", "detach", "operation"}, conn : Conns,
   session : Sessions, live : 0..MaxRuntimes, revision : Revisions]

NoRequest ==
  [pc |-> "free", kind |-> "attach", conn |-> CHOOSE c \in Conns : TRUE,
   session |-> CHOOSE s \in Sessions : TRUE, live |-> 0, revision |-> 0]

CloseStages ==
  {"no", "listeners", "connections", "openings", "sessions", "done", "failed"}
isClosing == closing # "no"

LiveTypeOK ==
  /\ stage \in [Conns -> {"ready", "closing", "closed"}]
  /\ sessionIds \in [Conns -> SUBSET Sessions]
  /\ live \in [Runtimes -> LiveSession]
  /\ liveSessions \in [Sessions -> 0..MaxRuntimes]
  /\ openingSessions \in [Sessions -> Slots \cup {None}]
  /\ requests \in [Slots -> Request]
  /\ revision \in [Sessions -> Revisions]
  /\ broadcasts \subseteq Runtimes \X Revisions
  /\ view \in [Conns -> [Sessions -> -1..MaxRevision]]
  /\ closing \in CloseStages
  /\ closeWaits \subseteq Slots
  /\ closeFinds \subseteq Runtimes
  /\ received \in 0..MaxRequests
  /\ lost \in 0..MaxLost

LiveInit ==
  /\ stage = [c \in Conns |-> "ready"]
  /\ sessionIds = [c \in Conns |-> {}]
  /\ live = [r \in Runtimes |-> Unused(CHOOSE s \in Sessions : TRUE)]
  /\ liveSessions = [s \in Sessions |-> 0]
  /\ openingSessions = [s \in Sessions |-> None]
  /\ requests = [q \in Slots |-> NoRequest]
  /\ revision = [s \in Sessions |-> 0]
  /\ broadcasts = {}
  /\ view = [c \in Conns |-> [s \in Sessions |-> -1]]
  /\ closing = "no"
  /\ closeWaits = {}
  /\ closeFinds = {}
  /\ received = 0
  /\ lost = 0

-----------------------------------------------------------------------------
(* maybeDispose up to its first await.                                     *)

\* Mutant: operations under way are not counted.
CanDisposeBusy(l) ==
  /\ ~isClosing
  /\ l.disposing = "none"
  /\ l.connections = {}
  /\ l.terminal \/ l.phase = "idle"

CanDispose(l) ==
  /\ ~isClosing
  /\ l.disposing = "none"
  /\ l.connections = {}
  /\ l.operationCount = 0
  /\ l.terminal \/ l.phase = "idle"

MaybeDispose(l) ==
  IF CanDispose(l) THEN [l EXCEPT !.subscribed = FALSE, !.disposing = "pending"]
                   ELSE l

At(q, pc) == requests[q].pc = pc

Quiet == \A q \in Slots : requests[q].pc \notin Resumed

(* Messages that arrive in one chunk are dispatched before the             *)
(* continuations of the first of them run.                                 *)
Receive(c) ==
  /\ stage[c] = "ready"
  /\ received < MaxRequests
  /\ received' = received + 1
  /\ UNCHANGED lost
  /\ \A q \in Slots : requests[q].pc \in Resumed =>
       requests[q].pc = "found" /\ requests[q].conn = c

(* What a client keeps of a snapshot it is sent (applySessionSnapshot).    *)
Shown(c, s, rev) == IF rev < view[c][s] THEN view[c][s] ELSE rev

(* broadcastSnapshot after its await: to the connections attached now.  The *)
(* runtime read its state at some time since it was asked at revision asked.*)
Broadcast(l, asked) == \E rev \in asked..revision[l.session] :
  view' = [c \in Conns |->
             IF c \in l.connections /\ stage[c] = "ready"
             THEN [view[c] EXCEPT ![l.session] = Shown(c, l.session, rev)]
             ELSE view[c]]

-----------------------------------------------------------------------------
(* acquire: one round of its loop.                                         *)

Wait(q, c, s, pc, r) ==
  requests' = [requests EXCEPT ![q] = [pc |-> pc, kind |-> "attach", conn |-> c,
                                       session |-> s, live |-> r, revision |-> 0]]

Acquire(q, c, s) ==
  LET r == liveSessions[s] IN
  /\ \/ /\ r # 0 /\ live[r].terminal
        /\ requests' = [requests EXCEPT ![q] = NoRequest]
        /\ UNCHANGED openingSessions
     \/ /\ r # 0 /\ ~live[r].terminal /\ live[r].disposing # "none"
        /\ Wait(q, c, s, "awaitDisposing", r)
        /\ UNCHANGED openingSessions
     \/ /\ r # 0 /\ ~live[r].terminal /\ live[r].disposing = "none"
        /\ Wait(q, c, s, "found", r)
        /\ UNCHANGED openingSessions
     \/ /\ r = 0 /\ openingSessions[s] # None
        /\ Wait(q, c, s, "awaitOpening", 0)
        /\ UNCHANGED openingSessions
     \/ /\ r = 0 /\ openingSessions[s] = None
        /\ Wait(q, c, s, "open", 0)
        /\ openingSessions' = [openingSessions EXCEPT ![s] = q]
  /\ UNCHANGED <<connVars, live, liveSessions, snapshotVars, closeVars>>

(* attach, and create with an id that is not live.                         *)
ReceiveAttach(q, c, s) ==
  /\ Receive(c) /\ At(q, "free")
  /\ Acquire(q, c, s)

Reacquire(q) ==
  /\ At(q, "acquire")
  /\ Acquire(q, requests[q].conn, requests[q].session)
  /\ UNCHANGED countVars

-----------------------------------------------------------------------------
(* create: the request that opens, and those that wait for it.             *)

Opening(q) ==
  [p \in Slots |-> p = q \/ /\ At(p, "awaitOpening")
                            /\ requests[p].session = requests[q].session]

OpenEnds(q) ==
  openingSessions' = [openingSessions EXCEPT ![requests[q].session] = None]

OpenFails(q) ==
  /\ Quiet /\ At(q, "open")
  /\ requests' = [p \in Slots |-> IF Opening(q)[p] THEN NoRequest ELSE requests[p]]
  /\ OpenEnds(q)
  /\ closeWaits' = closeWaits \ {q}
  /\ UNCHANGED <<connVars, live, liveSessions, snapshotVars, closing, closeFinds,
                 countVars>>

\* Mutant: a runtime that comes after close is opened.
OpenRuntimeLate(q) ==
  /\ Quiet /\ At(q, "open")
  /\ \E r \in Runtimes :
       /\ live[r].state = "unused"
       /\ \A k \in 1..(r - 1) : live[k].state # "unused"
       /\ live' = [live EXCEPT ![r] =
            [Unused(requests[q].session) EXCEPT !.state = "opening"]]
       /\ requests' = [requests EXCEPT ![q].pc = "openSnapshot", ![q].live = r]
  /\ UNCHANGED <<connVars, managerVars, snapshotVars, closeVars, countVars>>

(* acquireRuntime resolves; a closing server disposes of what it got.      *)
OpenRuntime(q) ==
  /\ Quiet /\ At(q, "open")
  /\ \E r \in Runtimes :
       /\ live[r].state = "unused"
       /\ \A k \in 1..(r - 1) : live[k].state # "unused"
       /\ live' = [live EXCEPT ![r] =
            [Unused(requests[q].session) EXCEPT
               !.state = IF isClosing THEN "discarded" ELSE "opening",
               !.disposing = IF isClosing THEN "pending" ELSE "none"]]
       /\ requests' = [requests EXCEPT
            ![q].pc = IF isClosing THEN "discard" ELSE "openSnapshot",
            ![q].live = r]
  /\ UNCHANGED <<connVars, managerVars, snapshotVars, closeVars, countVars>>

OpenSnapshot(q) ==
  LET r == requests[q].live IN
  /\ Quiet /\ At(q, "openSnapshot")
  /\ live' = [live EXCEPT ![r].state = "open", ![r].subscribed = TRUE]
  /\ liveSessions' = [liveSessions EXCEPT ![requests[q].session] = r]
  /\ OpenEnds(q)
  /\ requests' = [p \in Slots |->
                    IF Opening(q)[p]
                    THEN [requests[p] EXCEPT !.pc = IF p = q THEN "opened" ELSE "joined",
                                             !.live = r]
                    ELSE requests[p]]
  /\ closeWaits' = closeWaits \ {q}
  /\ UNCHANGED <<connVars, snapshotVars, closing, closeFinds, countVars>>

(* The first snapshot throws, or is of another session.                    *)
OpenSnapshotFails(q) ==
  LET r == requests[q].live IN
  /\ Quiet /\ At(q, "openSnapshot")
  /\ live' = [live EXCEPT ![r].state = "discarded", ![r].disposing = "pending"]
  /\ requests' = [requests EXCEPT ![q].pc = "discard"]
  /\ UNCHANGED <<connVars, managerVars, snapshotVars, closeVars, countVars>>

(* create's own dispose settles and create rejects.                        *)
Discard(q) ==
  LET r == requests[q].live IN
  /\ Quiet /\ At(q, "discard")
  /\ \E outcome \in {"resolved", "rejected"} :
       live' = [live EXCEPT ![r].disposing = outcome]
  /\ requests' = [p \in Slots |-> IF Opening(q)[p] THEN NoRequest ELSE requests[p]]
  /\ OpenEnds(q)
  /\ closeWaits' = closeWaits \ {q}
  /\ UNCHANGED <<connVars, liveSessions, snapshotVars, closing, closeFinds, countVars>>

-----------------------------------------------------------------------------
(* attach.  The request that opened the runtime goes on before those that  *)
(* joined it: it waited first.                                             *)

Attach(q) ==
  LET c == requests[q].conn
      r == requests[q].live
      s == requests[q].session
  IN
  /\ \/ requests[q].pc \in {"found", "opened"}
     \/ At(q, "joined") /\ \A p \in Slots : At(p, "opened") => requests[p].live # r
  /\ IF stage[c] # "ready"
     THEN /\ live' = [live EXCEPT ![r] = MaybeDispose(live[r])]
          /\ requests' = [requests EXCEPT ![q] = NoRequest]
          /\ UNCHANGED sessionIds
     ELSE /\ sessionIds' = [sessionIds EXCEPT ![c] = @ \cup {s}]
          /\ live' = [live EXCEPT ![r].connections = @ \cup {c}]
          /\ requests' = [requests EXCEPT ![q].pc = "snapshot",
                                          ![q].revision = revision[s]]
  /\ UNCHANGED <<stage, managerVars, snapshotVars, closeVars, countVars>>

(* detach: of a session the connection is not attached to, nothing.        *)
ReceiveDetach(q, c, s) ==
  LET r == liveSessions[s]
      left == [live[r] EXCEPT !.connections = @ \ {c}]
      tells == left.connections # {} /\ ~left.terminal /\ left.disposing = "none"
      waits == ~tells /\ MaybeDispose(left).disposing = "pending"
  IN
  /\ Receive(c) /\ At(q, "free")
  /\ s \in sessionIds[c]
  /\ sessionIds' = [sessionIds EXCEPT ![c] = @ \ {s}]
  /\ IF r = 0
     THEN UNCHANGED <<live, requests>>
     ELSE /\ live' = [live EXCEPT ![r] = IF tells THEN left ELSE MaybeDispose(left)]
          /\ requests' =
               IF tells \/ waits
               THEN [requests EXCEPT ![q] =
                       [pc |-> IF tells THEN "snapshot" ELSE "awaitDetach",
                        kind |-> "detach", conn |-> c, session |-> s, live |-> r,
                        revision |-> IF tells THEN revision[s] ELSE 0]]
               ELSE requests
  /\ UNCHANGED <<stage, managerVars, snapshotVars, closeVars>>

(* prompt, steer, abort, set_model and set_thinking: requireAttached, then *)
(* runOperation.                                                           *)
RequireAttached(c, s) ==
  LET r == liveSessions[s] IN
  /\ s \in sessionIds[c]
  /\ r # 0 /\ ~live[r].terminal /\ live[r].disposing = "none"

ReceiveOperation(q, c, s) ==
  LET r == liveSessions[s] IN
  /\ Receive(c) /\ At(q, "free")
  /\ RequireAttached(c, s)
  /\ live' = [live EXCEPT ![r].operationCount = @ + 1]
  /\ requests' = [requests EXCEPT ![q] =
       [pc |-> "operate", kind |-> "operation", conn |-> c, session |-> s,
        live |-> r, revision |-> 0]]
  /\ UNCHANGED <<connVars, managerVars, snapshotVars, closeVars>>

OperationSucceeds(q) ==
  /\ Quiet /\ At(q, "operate")
  /\ requests' = [requests EXCEPT ![q].pc = "snapshot",
                                  ![q].revision = revision[requests[q].session]]
  /\ UNCHANGED <<connVars, live, managerVars, snapshotVars, closeVars, countVars>>

(* What follows the snapshot, also when it fails: the finally of           *)
(* runOperation; maybeDispose of detach unless the snapshot threw.         *)
AfterSnapshot(q, ok) ==
  LET l == live[requests[q].live] IN
  CASE requests[q].kind = "operation" ->
         MaybeDispose([l EXCEPT !.operationCount = @ - 1])
    [] requests[q].kind = "detach" /\ ok -> MaybeDispose(l)
    [] OTHER -> l

OperationFails(q) ==
  /\ Quiet /\ At(q, "operate")
  /\ live' = [live EXCEPT ![requests[q].live] = AfterSnapshot(q, FALSE)]
  /\ requests' = [requests EXCEPT ![q] = NoRequest]
  /\ UNCHANGED <<connVars, managerVars, snapshotVars, closeVars, countVars>>

(* broadcastSnapshot of a request resolves and the request is answered; a  *)
(* detach still waits for a disposal it started or met.                    *)
SnapshotDone(q) ==
  LET r == requests[q].live
      after == AfterSnapshot(q, TRUE)
  IN
  /\ Quiet /\ At(q, "snapshot")
  /\ Broadcast(live[r], requests[q].revision)
  /\ live' = [live EXCEPT ![r] = after]
  /\ requests' = [requests EXCEPT ![q] =
       IF requests[q].kind = "detach" /\ after.disposing = "pending"
       THEN [requests[q] EXCEPT !.pc = "awaitDetach", !.revision = 0]
       ELSE NoRequest]
  /\ UNCHANGED <<connVars, managerVars, revision, broadcasts, closeVars, countVars>>

SnapshotFails(q) ==
  /\ Quiet /\ At(q, "snapshot")
  /\ lost < MaxLost /\ lost' = lost + 1
  /\ live' = [live EXCEPT ![requests[q].live] = AfterSnapshot(q, FALSE)]
  /\ requests' = [requests EXCEPT ![q] = NoRequest]
  /\ UNCHANGED <<connVars, managerVars, snapshotVars, closeVars, received>>

-----------------------------------------------------------------------------
(* The runtime (external): it changes phase, tells its subscriber, fails.  *)

Acquired(r) == live[r].state = "open" /\ live[r].disposing = "none"

(* handleRuntimeEvent of a snapshot event.                                 *)
RuntimeUpdate(r) ==
  LET l == live[r]
      s == l.session
  IN
  /\ Quiet /\ Acquired(r) /\ revision[s] < MaxRevision
  /\ revision' = [revision EXCEPT ![s] = @ + 1]
  /\ \E phase \in {"idle", "turn"} :
       LET updated == [l EXCEPT !.phase = phase] IN
       live' = [live EXCEPT ![r] = IF l.subscribed THEN MaybeDispose(updated)
                                                   ELSE updated]
  /\ broadcasts' = IF l.subscribed THEN broadcasts \cup {<<r, revision[s] + 1>>}
                                   ELSE broadcasts
  /\ UNCHANGED <<connVars, managerVars, requests, view, closeVars, countVars>>

BroadcastDone(b) ==
  /\ Quiet
  /\ broadcasts' = broadcasts \ {b}
  /\ \/ Broadcast(live[b[1]], b[2]) /\ UNCHANGED lost
     \/ lost < MaxLost /\ lost' = lost + 1 /\ UNCHANGED view
  /\ UNCHANGED <<connVars, live, managerVars, requests, revision, closeVars, received>>

(* handleRuntimeEvent of an error event: terminate closes the connections, *)
(* Disconnect follows for each of them.                                    *)
Terminate(r) ==
  /\ Quiet /\ Acquired(r) /\ live[r].subscribed
  /\ live' = [live EXCEPT ![r] =
       MaybeDispose([live[r] EXCEPT !.terminal = TRUE, !.subscribed = FALSE])]
  /\ stage' = [c \in Conns |-> IF c \in live[r].connections /\ stage[c] = "ready"
                               THEN "closing" ELSE stage[c]]
  /\ UNCHANGED <<sessionIds, managerVars, requests, snapshotVars, closeVars, countVars>>

\* Mutant: those that wait are forgotten when the disposal rejects.
DisposeSettlesUnheard(r) ==
  LET s == live[r].session IN
  /\ Quiet /\ live[r].state = "open" /\ live[r].disposing = "pending"
  /\ liveSessions' = [liveSessions EXCEPT ![s] = IF @ = r THEN 0 ELSE @]
  /\ live' = [live EXCEPT ![r].disposing = "rejected"]
  /\ UNCHANGED <<connVars, openingSessions, requests, snapshotVars, closeVars, countVars>>

(* runtime.dispose of maybeDispose settles: those that await it go on or   *)
(* are rejected with it.                                                   *)
DisposeSettles(r) ==
  LET s == live[r].session
      awaits(q, pc) == At(q, pc) /\ requests[q].live = r
  IN
  /\ Quiet /\ live[r].state = "open" /\ live[r].disposing = "pending"
  /\ liveSessions' = [liveSessions EXCEPT ![s] = IF @ = r THEN 0 ELSE @]
  /\ \E outcome \in {"resolved", "rejected"} :
       /\ live' = [live EXCEPT ![r].disposing = outcome]
       /\ requests' = [q \in Slots |->
            CASE awaits(q, "awaitDisposing") /\ outcome = "resolved" ->
                   [requests[q] EXCEPT !.pc = "acquire", !.live = 0]
              [] \/ awaits(q, "awaitDisposing") /\ outcome = "rejected"
                 \/ awaits(q, "awaitDetach") -> NoRequest
              [] OTHER -> requests[q]]
  /\ UNCHANGED <<connVars, openingSessions, snapshotVars, closeVars, countVars>>

-----------------------------------------------------------------------------
(* Connections that end, and PiServer.close.                               *)

(* disconnect: on its own, or after closeConnection.                       *)
Disconnect(c) ==
  LET left == {liveSessions[s] : s \in sessionIds[c]} \ {0} IN
  /\ Quiet /\ stage[c] # "closed"
  /\ stage' = [stage EXCEPT ![c] = "closed"]
  /\ sessionIds' = [sessionIds EXCEPT ![c] = {}]
  /\ live' = [r \in Runtimes |->
                IF r \in left
                THEN MaybeDispose([live[r] EXCEPT !.connections = @ \ {c}])
                ELSE live[r]]
  /\ UNCHANGED <<managerVars, requests, snapshotVars, closeVars, countVars>>

Close ==
  /\ Quiet /\ closing = "no"
  /\ closing' = "listeners"
  /\ UNCHANGED <<connVars, live, managerVars, requests, snapshotVars, closeWaits,
                 closeFinds, countVars>>

CloseConnections ==
  /\ Quiet /\ closing = "listeners"
  /\ closing' = "connections"
  /\ stage' = [c \in Conns |-> IF stage[c] = "ready" THEN "closing" ELSE stage[c]]
  /\ UNCHANGED <<sessionIds, live, managerVars, requests, snapshotVars, closeWaits,
                 closeFinds, countVars>>

(* LiveSessionManager.close waits for the openings it finds.               *)
CloseManager ==
  /\ Quiet /\ closing = "connections"
  /\ \A c \in Conns : stage[c] = "closed"
  /\ closing' = "openings"
  /\ closeWaits' = {openingSessions[s] : s \in Sessions} \ {None}
  /\ UNCHANGED <<connVars, live, managerVars, requests, snapshotVars, closeFinds, countVars>>

CloseSessions ==
  LET found == {liveSessions[s] : s \in Sessions} \ {0} IN
  /\ Quiet /\ closing = "openings" /\ closeWaits = {}
  /\ closing' = "sessions"
  /\ closeFinds' = found
  /\ liveSessions' = [s \in Sessions |-> 0]
  /\ live' = [r \in Runtimes |->
                IF r \in found /\ live[r].disposing = "none"
                THEN [live[r] EXCEPT !.subscribed = FALSE, !.disposing = "pending"]
                ELSE live[r]]
  /\ UNCHANGED <<connVars, openingSessions, requests, snapshotVars, closeWaits, countVars>>

(* All disposals resolve, or one rejects and close with it.                *)
CloseEnds ==
  /\ Quiet /\ closing = "sessions"
  /\ \/ /\ \A r \in closeFinds : live[r].disposing = "resolved"
        /\ closing' = "done"
     \/ /\ \E r \in closeFinds : live[r].disposing = "rejected"
        /\ closing' = "failed"
  /\ UNCHANGED <<connVars, live, managerVars, requests, snapshotVars, closeWaits,
                 closeFinds, countVars>>

-----------------------------------------------------------------------------
Client ==
  \E q \in Slots, c \in Conns, s \in Sessions :
    \/ ReceiveAttach(q, c, s)
    \/ ReceiveDetach(q, c, s)
    \/ ReceiveOperation(q, c, s)

(* Continuations and answers of the service: they come.                    *)
Progress ==
  \/ \E q \in Slots :
       \/ Reacquire(q) \/ Attach(q)
       \/ OpenRuntime(q) \/ OpenFails(q)
       \/ OpenSnapshot(q) \/ OpenSnapshotFails(q) \/ Discard(q)
       \/ OperationSucceeds(q) \/ OperationFails(q)
       \/ SnapshotDone(q) \/ SnapshotFails(q)
  \/ \E r \in Runtimes : DisposeSettles(r)
  \/ \E b \in broadcasts : BroadcastDone(b)
  \/ \E c \in Conns : stage[c] = "closing" /\ Disconnect(c)
  \/ CloseConnections \/ CloseManager \/ CloseSessions \/ CloseEnds

Environment ==
  \/ \E r \in Runtimes : RuntimeUpdate(r) \/ Terminate(r)
  \/ \E c \in Conns : stage[c] = "ready" /\ Disconnect(c)
  \/ Close

LiveNext == Client \/ Progress \/ Environment

(* Promises of the service and the transport settle, and node runs their   *)
(* continuations.                                                          *)
LiveFairness == WF_liveVars(Progress)

LiveSpec == LiveInit /\ [][LiveNext]_liveVars /\ LiveFairness

-----------------------------------------------------------------------------
(* Properties.                                                             *)

Held(r) == live[r].state # "unused" /\ live[r].disposing \in {"none", "pending"}

(* A session is acquired exclusively: whatever attaches, fails and          *)
(* disconnects while runtimes open and dispose, the manager never holds two *)
(* runtimes of one session that are not yet disposed of.                    *)
SingleRuntime ==
  \A r1, r2 \in Runtimes :
    Held(r1) /\ Held(r2) /\ live[r1].session = live[r2].session => r1 = r2

(* runOperation keeps its runtime: no prompt, steer or abort is under way   *)
(* on a runtime that is being disposed of, unless the server closes.        *)
NoDisposeInUse ==
  \A q \in Slots :
    At(q, "operate") => isClosing \/ live[requests[q].live].disposing = "none"

(* Requests that fail, overlap or lose their connection neither open a      *)
(* session twice nor take a runtime away from a request that uses it.      *)
RuntimesExclusive == SingleRuntime /\ NoDisposeInUse

(* A runtime nobody is attached to, that runs nothing and is idle, is given *)
(* back: none is left undisposed once the requests that still have it       *)
(* reached attach.                                                          *)
UnusedIsDisposed ==
  \A r \in Runtimes :
    live[r].state = "open" /\ CanDispose(live[r]) =>
      \E q \in Slots : requests[q].pc \in Resumed /\ requests[q].live = r

Broadcasting(s) ==
  \/ \E b \in broadcasts : live[b[1]].session = s
  \/ \E q \in Slots : requests[q].session = s /\ ~At(q, "free")

(* Snapshots are read and sent in any order; when those of a session are    *)
(* out and none of them failed, every client attached to it shows its last  *)
(* revision.                                                                *)
ViewsConverge ==
  \A s \in Sessions :
    liveSessions[s] # 0 /\ ~Broadcasting(s) /\ lost = 0 =>
      \A c \in live[liveSessions[s]].connections :
        stage[c] = "ready" => view[c][s] = revision[s]

(* After close nothing is left running: every runtime the service handed    *)
(* out was disposed of or is one that a late open gives back at once.       *)
ClosedLeavesNothing ==
  closing = "done" =>
    \A r \in Runtimes : Held(r) => live[r].state = "discarded"

(* Runtimes are given back, by the last detach and by close, also those     *)
(* that open late.                                                         *)
NothingLeftBehind == UnusedIsDisposed /\ ClosedLeavesNothing

(* What an attached client relies on: the session it is attached to is      *)
(* live, and broadcasts to it.                                              *)
AttachedIsLive ==
  \A c \in Conns : \A s \in sessionIds[c] :
    stage[c] = "ready" => RequireAttached(c, s) /\ c \in live[liveSessions[s]].connections

(* PiServer.close ends, whatever is opening, running or being disposed of.  *)
CloseCompletes == isClosing ~> closing \in {"done", "failed"}

(* Every request is answered: none waits for an opening or a disposal that  *)
(* settled without it.                                                      *)
RequestsSettle == \A q \in Slots : ~At(q, "free") ~> At(q, "free")

=============================================================================
