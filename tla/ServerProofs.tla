---------------------------- MODULE ServerProofs ----------------------------
(***************************************************************************)
(* Proofs about the session server and its clients: the leases a client     *)
(* takes on a session agree with what the server was told, the list of      *)
(* sessions reaches every client, and live sessions are acquired, shared    *)
(* and given back as they should, for any number of leases, connections,    *)
(* clients, requests, runtimes, changes and failures.                      *)
(***************************************************************************)
EXTENDS MCServer, FiniteSetTheorems, TLAPS

-----------------------------------------------------------------------------
(* ClientLeases: the leases on one session.                                *)

Pc(l) == lease[l].pc
Current(l) == lease[l].generation = generation

Detaching == {"detach", "detachOk", "detachFailed"}
Acquiring == {"awaitDetachment", "reconcile", "attach", "detachmentOver", "reconciled",
              "reconcileFailed", "attachOk", "attachFailed"}

(* The leases that leaseCount counts.                                      *)
Counted ==
  {l \in Leases : Pc(l) \in Acquiring \/ (Pc(l) \in Detaching \cup {"active"} /\ Current(l))}

LeasesTyped ==
  /\ LeaseTypeOK
  /\ \A l \in Leases : lease[l].generation <= generation

CountSound ==
  /\ leaseCount <= Cardinality(Counted)
  /\ connected => leaseCount = Cardinality(Counted)
  /\ exclusiveLease # NoLease => exclusiveLease \in Counted
  /\ connected =>
       /\ \A l \in Counted : lease[l].mode = "exclusive" => exclusiveLease = l
       /\ exclusiveLease # NoLease => Counted = {exclusiveLease}

(* Nothing of a lost connection is under way any more.                     *)
LostSound ==
  ~connected =>
    /\ ~attached /\ ~serverAttached /\ ~cleanupRequired /\ ~reconciliation
    /\ attachment \in {"none", "failed"}
    /\ \A r \in Requests : inFlight[r] = "none"
    /\ detachment # NoLease => Pc(detachment) = "detachFailed"
    /\ \A l \in Leases :
         /\ Pc(l) \in {"none", "active", "detachmentOver", "reconcileFailed", "attachFailed",
                       "detachFailed"}
         /\ Pc(l) \in {"active", "detachFailed"} => ~Current(l)

(* A request is under way when somebody waits for it.                      *)
RequestsSound ==
  /\ inFlight["attach"] # "none" <=> attachment = "pending"
  /\ attachment = "pending" <=> \E l \in Leases : Pc(l) = "attach"
  /\ attachment = "ok" => \E l \in Leases : Pc(l) = "attachOk"
  /\ attachment = "failed" => \E l \in Leases : Pc(l) = "attachFailed"
  /\ inFlight["reconcile"] # "none" <=> reconciliation
  /\ reconciliation <=> \E l \in Leases : Pc(l) = "reconcile"
  /\ \A l \in Leases : inFlight[l] # "none" <=> Pc(l) = "detach"

(* A detachment is alone: who acquires the session meanwhile waits for it. *)
DetachmentSound ==
  /\ detachment # NoLease => Pc(detachment) \in Detaching
  /\ \A l \in Leases : Pc(l) \in Detaching =>
       /\ detachment = l
       /\ connected => Current(l)
       /\ \A k \in Counted \ {l} :
            Pc(k) = IF Pc(l) = "detach" THEN "awaitDetachment" ELSE "detachmentOver"
  /\ \A l \in Leases : Pc(l) = "awaitDetachment" => detachment # NoLease /\ Pc(detachment) = "detach"

CleanupSound ==
  /\ cleanupRequired => \A l \in Counted : Pc(l) \in {"detachmentOver", "reconcile", "reconcileFailed"}
  /\ \A l \in Leases :
       /\ Pc(l) = "reconcile" => cleanupRequired
       /\ Pc(l) = "reconcileFailed" /\ connected => cleanupRequired
       /\ Pc(l) = "reconciled" => ~attached
       /\ Pc(l) = "attachOk" => attached
       /\ Pc(l) = "detachOk" => ~attached

(* What the server was told, by what is under way and what was answered.   *)
ServerSound ==
  connected =>
    /\ attached /\ ~cleanupRequired /\ detachment = NoLease => serverAttached \/ strayed
    /\ serverAttached /\ ~strayed => attached \/ inFlight["attach"] = "ok"
    /\ inFlight["attach"] \in {"sent", "error"} => ~serverAttached \/ strayed
    /\ \A l \in Leases : Pc(l) = "attachFailed" => ~serverAttached \/ strayed
    /\ inFlight["attach"] = "ok" => serverAttached
    /\ inFlight["reconcile"] = "ok" => ~serverAttached
    /\ \A l \in Leases : inFlight[l] = "ok" \/ Pc(l) = "detachOk" => ~serverAttached
    /\ \A l \in Leases : inFlight[l] = "error" \/ Pc(l) = "detachFailed" => strayed
    /\ serverAttached /\ ~strayed => cleanupRequired \/ Counted # {}

LeasesInv ==
  /\ LeasesTyped /\ CountSound /\ LostSound /\ RequestsSound /\ DetachmentSound
  /\ CleanupSound /\ ServerSound

-----------------------------------------------------------------------------
(* What is counted is finite, so the count is a number.                     *)
LEMMA CountedIsFinite ==
  ASSUME TRUE
  PROVE  /\ Counted \subseteq Leases /\ IsFiniteSet(Counted)
         /\ Cardinality(Counted) \in Nat /\ Cardinality(Leases) \in Nat
         /\ Cardinality(Counted) <= Cardinality(Leases)
         /\ Cardinality(Counted) = 0 <=> Counted = {}
<1>1. Counted \subseteq Leases BY DEF Counted
<1>2. IsFiniteSet(Leases) BY LeaseAssumption
<1>3. IsFiniteSet(Counted) /\ Cardinality(Counted) <= Cardinality(Leases)
  BY <1>1, <1>2, FS_Subset
<1>4. Cardinality(Counted) \in Nat /\ Cardinality(Leases) \in Nat
  BY <1>2, <1>3, FS_CardinalityType
<1>5. Cardinality(Counted) = 0 <=> Counted = {}
  BY <1>3, FS_EmptySet
<1> QED BY <1>1, <1>3, <1>4, <1>5

(* Counting one lease more or one less.                                     *)
LEMMA OneMoreOrLess ==
  ASSUME NEW S \in SUBSET Leases, NEW l \in Leases
  PROVE  /\ l \notin S => Cardinality(S \cup {l}) = Cardinality(S) + 1
         /\ l \in S => /\ Cardinality(S \ {l}) = Cardinality(S) - 1
                       /\ Cardinality(S) = 1 => S = {l}
         /\ Cardinality(S) \in Nat
<1>1. IsFiniteSet(S) BY LeaseAssumption, FS_Subset
<1>2. Cardinality(S) \in Nat BY <1>1, FS_CardinalityType
<1>3. l \notin S => Cardinality(S \cup {l}) = Cardinality(S) + 1
  BY <1>1, FS_AddElement
<1>4. l \in S => Cardinality(S \ {l}) = Cardinality(S) - 1
  BY <1>1, FS_RemoveElement
<1>5. l \in S /\ Cardinality(S) = 1 => S = {l}
  <2> SUFFICES ASSUME l \in S, Cardinality(S) = 1 PROVE S = {l} OBVIOUS
  <2>1. Cardinality(S \ {l}) = 0 BY <1>4
  <2>2. IsFiniteSet(S \ {l}) BY <1>1, FS_Subset
  <2>3. S \ {l} = {} BY <2>1, <2>2, FS_EmptySet
  <2> QED BY <2>3
<1> QED BY <1>2, <1>3, <1>4, <1>5

-----------------------------------------------------------------------------
(* The invariant but for the count of leases.                               *)
Rest == LostSound /\ RequestsSound /\ DetachmentSound /\ CleanupSound /\ ServerSound

(* One lease moves.                                                        *)
Goes(l, p, m, g) ==
  /\ lease' \in [Leases -> LeaseRecord]
  /\ \A k \in Leases : k # l => lease'[k] = lease[k]
  /\ lease'[l].pc = p /\ lease'[l].mode = m /\ lease'[l].generation = g

(* A lease that goes on keeps its mode and its generation.                  *)
LEMMA PcMoves ==
  ASSUME LeasesTyped, NEW l \in Leases,
         NEW p \in {"none", "active"} \cup Settled \cup Waiting
  PROVE  /\ lease' = [lease EXCEPT ![l].pc = p]
              => Goes(l, p, lease[l].mode, lease[l].generation)
         /\ lease' = [lease EXCEPT ![l] = [lease[l] EXCEPT !.pc = p]]
              => Goes(l, p, lease[l].mode, lease[l].generation)
         /\ lease' = [lease EXCEPT ![l].pc = p, ![l].generation = generation]
              => Goes(l, p, lease[l].mode, generation)
         /\ lease' = [lease EXCEPT ![l] = [lease[l] EXCEPT !.pc = p, !.generation = generation]]
              => Goes(l, p, lease[l].mode, generation)
         /\ \A b \in BOOLEAN : lease' = [lease EXCEPT ![l].pc = p, ![l].relinquish = b]
              => Goes(l, p, lease[l].mode, lease[l].generation)
<1> DEFINE Pcs == {"none", "active"} \cup Settled \cup Waiting
<1>1. /\ lease \in [Leases -> LeaseRecord] /\ lease[l] \in LeaseRecord
      /\ generation \in 0..MaxDisconnects /\ p \in Pcs
      /\ LeaseRecord = [pc : Pcs, mode : {"exclusive", "shared"},
                        generation : 0..MaxDisconnects, relinquish : BOOLEAN]
  BY DEF LeasesTyped, LeaseTypeOK, LeaseRecord
<1> HIDE DEF Pcs
<1>2. ASSUME NEW r \in LeaseRecord, lease' = [lease EXCEPT ![l] = r]
      PROVE  Goes(l, r.pc, r.mode, r.generation)
  BY <1>1, <1>2 DEF Goes
<1> DEFINE now == [lease[l] EXCEPT !.pc = p, !.generation = generation]
<1>3. /\ now \in LeaseRecord /\ now.pc = p
      /\ now.mode = lease[l].mode /\ now.generation = generation
  BY <1>1
<1> HIDE DEF now
<1>4. lease' = [lease EXCEPT ![l].pc = p] => Goes(l, p, lease[l].mode, lease[l].generation)
  BY <1>1 DEF Goes
<1>5. lease' = [lease EXCEPT ![l] = [lease[l] EXCEPT !.pc = p]]
        => Goes(l, p, lease[l].mode, lease[l].generation)
  BY <1>1 DEF Goes
<1>6. lease' = [lease EXCEPT ![l].pc = p, ![l].generation = generation]
        => Goes(l, p, lease[l].mode, generation)
  BY <1>1 DEF Goes
<1>7. lease' = [lease EXCEPT ![l] = [lease[l] EXCEPT !.pc = p, !.generation = generation]]
        => Goes(l, p, lease[l].mode, generation)
  <2>1. lease' = [lease EXCEPT ![l] = now] => Goes(l, p, lease[l].mode, generation)
    BY <1>2, <1>3
  <2> QED BY <2>1 DEF now
<1>8. ASSUME NEW b \in BOOLEAN, lease' = [lease EXCEPT ![l].pc = p, ![l].relinquish = b]
      PROVE  Goes(l, p, lease[l].mode, lease[l].generation)
  BY <1>1, <1>8 DEF Goes
<1> QED BY <1>4, <1>5, <1>6, <1>7, <1>8

(* A lease that begins, or is freed, is given its fields.                   *)
LEMMA LeaseMoves ==
  ASSUME LeasesTyped, NEW l \in Leases, NEW m \in {"exclusive", "shared"},
         NEW p \in {"none", "active"} \cup Settled \cup Waiting
  PROVE  /\ lease' = [lease EXCEPT ![l] = FreeLease] => Goes(l, "none", "shared", 0)
         /\ lease' = [lease EXCEPT ![l] = [[FreeLease EXCEPT !.mode = m] EXCEPT !.pc = p]]
              => Goes(l, p, m, 0)
         /\ lease' = [lease EXCEPT ![l] =
                         [[FreeLease EXCEPT !.mode = m] EXCEPT !.pc = p, !.generation = generation]]
              => Goes(l, p, m, generation)
<1> DEFINE Pcs == {"none", "active"} \cup Settled \cup Waiting
<1>1. /\ lease \in [Leases -> LeaseRecord]
      /\ generation \in 0..MaxDisconnects /\ p \in Pcs /\ "none" \in Pcs
      /\ LeaseRecord = [pc : Pcs, mode : {"exclusive", "shared"},
                        generation : 0..MaxDisconnects, relinquish : BOOLEAN]
      /\ 0 \in 0..MaxDisconnects
  BY LeaseAssumption DEF LeasesTyped, LeaseTypeOK, LeaseRecord
<1> HIDE DEF Pcs
<1>2. ASSUME NEW r \in LeaseRecord, lease' = [lease EXCEPT ![l] = r]
      PROVE  Goes(l, r.pc, r.mode, r.generation)
  BY <1>1, <1>2 DEF Goes
<1> DEFINE free == [pc |-> "none", mode |-> "shared", generation |-> 0, relinquish |-> FALSE]
           next == [[free EXCEPT !.mode = m] EXCEPT !.pc = p]
           held == [[free EXCEPT !.mode = m] EXCEPT !.pc = p, !.generation = generation]
<1>3. /\ free \in LeaseRecord /\ free.pc = "none" /\ free.mode = "shared" /\ free.generation = 0
      /\ next \in LeaseRecord /\ next.pc = p /\ next.mode = m /\ next.generation = 0
      /\ held \in LeaseRecord /\ held.pc = p /\ held.mode = m /\ held.generation = generation
  BY <1>1
<1> HIDE DEF free, next, held
<1>4. /\ lease' = [lease EXCEPT ![l] = free] => Goes(l, "none", "shared", 0)
      /\ lease' = [lease EXCEPT ![l] = next] => Goes(l, p, m, 0)
      /\ lease' = [lease EXCEPT ![l] = held] => Goes(l, p, m, generation)
  BY <1>2, <1>3
<1> QED BY <1>4 DEF free, next, held, FreeLease

-----------------------------------------------------------------------------
(* No lease is being detached.                                              *)
NoneDetaching == \A k \in Leases : Pc(k) \notin Detaching

(* Whoever joins or starts an attachment (reconcileThenAttach) keeps all    *)
(* that does not count leases.                                              *)
LEMMA LeaseJoins ==
  ASSUME LeasesInv, NEW l \in Leases, NoneDetaching, ~cleanupRequired, ~attached,
         Pc(l) \in {"none", "detachmentOver", "reconciled"},
         NEW new, JoinAttachment(l, new), NEW m, NEW g, NEW p, Goes(l, p, m, g),
         attachment' = "pending" => p = "attach", attachment' = "failed" => p = "attachFailed",
         UNCHANGED <<generation, attached, cleanupRequired, detachment, serverVars>>
  PROVE  Rest'
<1>1. /\ detachment = NoLease /\ attachment # "ok" /\ NoLease \notin Leases
      /\ \A k \in Leases : /\ Pc(k) \notin Detaching /\ k \in Requests
                           /\ k # "attach" /\ k # "reconcile"
      /\ lease \in [Leases -> LeaseRecord]
      /\ detachment \in Leases \cup {NoLease}
      /\ attachment \in {"none", "pending", "ok", "failed"}
      /\ inFlight \in [Requests -> Progresses]
      /\ connected \in BOOLEAN /\ serverAttached \in BOOLEAN
  BY LeaseAssumption DEF LeasesInv, LeasesTyped, LeaseTypeOK, DetachmentSound, NoneDetaching, Requests,
     RequestsSound, CleanupSound, Pc
<1>2. \A k \in Leases : (Pc(k)' = IF k = l THEN p ELSE Pc(k))
  BY DEF Goes, Pc
<1>3. \A k \in Leases : k # l => (Current(k)' <=> Current(k))
  BY DEF Goes, Current
<1>a. /\ reconciliation' = reconciliation /\ attachment' \in {"pending", "failed"}
      /\ \A r \in Requests : r # "attach" => inFlight'[r] = inFlight[r]
      /\ inFlight'["attach"] = IF attachment = "none" /\ connected THEN "sent"
                               ELSE inFlight["attach"]
      /\ attachment = "pending" => attachment' = "pending" /\ p = "attach"
      /\ attachment = "failed" => attachment' = "failed" /\ p = "attachFailed"
      /\ attachment = "none" /\ connected => attachment' = "pending" /\ p = "attach"
      /\ attachment = "none" /\ ~connected => attachment' = "failed" /\ p = "attachFailed"
  BY <1>1 DEF JoinAttachment, Requests
<1>b. /\ "attach" \in Requests /\ "reconcile" \in Requests
      /\ \A k \in Leases : inFlight'[k] = inFlight[k]
      /\ inFlight'["reconcile"] = inFlight["reconcile"]
  BY <1>1, <1>a DEF Requests
<1>4. LostSound'
  BY <1>1, <1>2, <1>3 DEF LeasesInv, LostSound, JoinAttachment, serverVars, Current
<1>5. RequestsSound'
  <2>1. inFlight'["attach"] # "none" <=> attachment' = "pending"
    BY <1>1, <1>a DEF LeasesInv, RequestsSound
  <2>2. attachment' = "pending" <=> \E k \in Leases : Pc(k)' = "attach"
    BY <1>1, <1>2, <1>a DEF LeasesInv, RequestsSound
  <2>3. attachment' = "failed" => \E k \in Leases : Pc(k)' = "attachFailed"
    BY <1>1, <1>2, <1>a DEF LeasesInv, RequestsSound
  <2>4. /\ inFlight'["reconcile"] # "none" <=> reconciliation'
        /\ reconciliation' <=> \E k \in Leases : Pc(k)' = "reconcile"
    BY <1>1, <1>2, <1>a, <1>b DEF LeasesInv, RequestsSound
  <2>5. \A k \in Leases : inFlight'[k] # "none" <=> Pc(k)' = "detach"
    BY <1>1, <1>2, <1>a, <1>b DEF LeasesInv, RequestsSound
  <2> QED BY <1>a, <2>1, <2>2, <2>3, <2>4, <2>5 DEF RequestsSound
<1>6. DetachmentSound'
  BY <1>1, <1>2, <1>3 DEF LeasesInv, DetachmentSound, JoinAttachment, serverVars, Counted, Detaching
<1>7. CleanupSound'
  BY <1>1, <1>2, <1>3 DEF LeasesInv, CleanupSound, JoinAttachment, serverVars, Counted, Detaching
<1>8. ServerSound'
  <2>1. l \in Counted' BY <1>1, <1>2, <1>a DEF Counted, Acquiring
  <2>2. UNCHANGED serverVars OBVIOUS
  <2> QED BY <1>1, <1>2, <1>a, <1>b, <2>1, <2>2
        DEF LeasesInv, ServerSound, serverVars, RequestsSound
<1> QED BY <1>4, <1>5, <1>6, <1>7, <1>8 DEF Rest

(* Whoever joins or starts a reconciliation keeps all that does not count   *)
(* leases.                                                                  *)
LEMMA Reconciles ==
  ASSUME LeasesInv, NEW l \in Leases, NoneDetaching, cleanupRequired,
         Pc(l) \in {"none", "detachmentOver"}, NEW m, NEW g, NEW p, Goes(l, p, m, g),
         reconciliation' = (reconciliation \/ connected),
         inFlight' = IF reconciliation \/ ~connected THEN inFlight
                     ELSE [inFlight EXCEPT !["reconcile"] = "sent"],
         p = IF reconciliation \/ connected THEN "reconcile" ELSE "reconcileFailed",
         UNCHANGED <<attachment, generation, attached, cleanupRequired, detachment, serverVars>>
  PROVE  Rest'
<1>1. /\ detachment = NoLease /\ connected /\ NoLease \notin Leases /\ p = "reconcile"
      /\ \A k \in Leases : /\ Pc(k) \notin Detaching /\ k \in Requests
                           /\ k # "attach" /\ k # "reconcile"
      /\ lease \in [Leases -> LeaseRecord]
      /\ inFlight \in [Requests -> Progresses]
      /\ connected \in BOOLEAN /\ serverAttached \in BOOLEAN /\ reconciliation \in BOOLEAN
      /\ "attach" \in Requests /\ "reconcile" \in Requests
  BY LeaseAssumption DEF LeasesInv, LeasesTyped, LeaseTypeOK, DetachmentSound, NoneDetaching, Requests,
     LostSound, Pc
<1>2. \A k \in Leases : (Pc(k)' = IF k = l THEN p ELSE Pc(k))
  BY DEF Goes, Pc
<1>3. \A k \in Leases : k # l => (Current(k)' <=> Current(k))
  BY DEF Goes, Current
<1>4. /\ reconciliation' /\ inFlight'["reconcile"] # "none"
      /\ inFlight'["reconcile"] = "ok" => inFlight["reconcile"] = "ok"
      /\ inFlight'["attach"] = inFlight["attach"]
      /\ \A k \in Leases : inFlight'[k] = inFlight[k]
  BY <1>1 DEF LeasesInv, RequestsSound
<1>5. UNCHANGED <<attachment, generation, attached, cleanupRequired, detachment, connected,
                  serverAttached, strayed>>
  BY DEF serverVars
<1>6. LostSound'
  BY <1>1, <1>5 DEF LostSound
<1>7. RequestsSound'
  BY <1>1, <1>2, <1>4, <1>5 DEF LeasesInv, RequestsSound
<1>8. DetachmentSound'
  BY <1>1, <1>2, <1>3, <1>5 DEF LeasesInv, DetachmentSound, Counted, Detaching
<1>9. CleanupSound'
  BY <1>1, <1>2, <1>3, <1>5 DEF LeasesInv, CleanupSound, Counted, Detaching
<1>10. ServerSound'
  BY <1>1, <1>2, <1>4, <1>5 DEF LeasesInv, ServerSound
<1> QED BY <1>6, <1>7, <1>8, <1>9, <1>10 DEF Rest

(* A lease that finds the session attached keeps all that does not count    *)
(* leases.                                                                  *)
LEMMA Enters ==
  ASSUME LeasesInv, NEW l \in Leases, NoneDetaching, ~cleanupRequired, attached,
         Pc(l) \in {"none", "detachmentOver"}, NEW m, Goes(l, "active", m, generation),
         UNCHANGED <<requestVars, generation, attached, cleanupRequired, detachment, serverVars>>
  PROVE  Rest'
<1>1. /\ detachment = NoLease /\ connected /\ NoLease \notin Leases
      /\ \A k \in Leases : Pc(k) \notin Detaching
      /\ lease \in [Leases -> LeaseRecord]
      /\ connected \in BOOLEAN
  BY LeaseAssumption DEF LeasesInv, LeasesTyped, LeaseTypeOK, DetachmentSound, NoneDetaching,
     LostSound, Pc
<1>2. \A k \in Leases : (Pc(k)' = IF k = l THEN "active" ELSE Pc(k))
  BY DEF Goes, Pc
<1>3. \A k \in Leases : k # l => (Current(k)' <=> Current(k))
  BY DEF Goes, Current
<1>5. UNCHANGED <<attachment, reconciliation, inFlight, generation, attached, cleanupRequired,
                  detachment, connected, serverAttached, strayed>>
  BY DEF serverVars, requestVars
<1>a. l \in Counted'
  BY <1>2 DEF Goes, Counted, Current
<1>6. LostSound'
  BY <1>1, <1>5 DEF LostSound
<1>7. RequestsSound'
  BY <1>1, <1>2, <1>5 DEF LeasesInv, RequestsSound
<1>8. DetachmentSound'
  BY <1>1, <1>2, <1>3, <1>5 DEF LeasesInv, DetachmentSound, Counted, Detaching
<1>9. CleanupSound'
  BY <1>1, <1>2, <1>3, <1>5 DEF LeasesInv, CleanupSound, Counted, Detaching
<1>10. ServerSound'
  BY <1>1, <1>2, <1>5, <1>a DEF LeasesInv, ServerSound
<1> QED BY <1>6, <1>7, <1>8, <1>9, <1>10 DEF Rest

-----------------------------------------------------------------------------
(* The types of what counts leases, and of all else.                        *)
CountsTyped ==
  leaseCount \in 0..Cardinality(Leases) /\ exclusiveLease \in Leases \cup {NoLease}

(* The step of a lease may add it to the counted ones or take it away.      *)
LEMMA CountedOf ==
  ASSUME LeasesTyped, NEW l \in Leases, NEW p, NEW m, NEW g, Goes(l, p, m, g),
         UNCHANGED generation
  PROVE  /\ l \notin Counted' => Counted' = Counted \ {l}
         /\ l \in Counted' => Counted' = Counted \cup {l}
<1>1. \A k \in Leases : k # l => (k \in Counted' <=> k \in Counted)
  BY DEF Goes, Counted, Pc, Current
<1>2. Counted \subseteq Leases /\ Counted' \subseteq Leases
  BY DEF Counted
<1> QED BY <1>1, <1>2

(* A lease that stays counted, or stays uncounted, leaves the count right.  *)
LEMMA CountKept ==
  ASSUME LeasesInv, NEW l \in Leases, NEW p, NEW g, Goes(l, p, lease[l].mode, g),
         l \in Counted' <=> l \in Counted,
         UNCHANGED <<leaseCount, exclusiveLease, generation, connected>>
  PROVE  CountSound' /\ CountsTyped'
<1>1. Counted' = Counted
  BY CountedOf DEF LeasesInv
<1>2. Counted \subseteq Leases BY DEF Counted
<1>3. \A k \in Leases : lease'[k].mode = lease[k].mode
  BY DEF Goes
<1>4. CountsTyped BY DEF LeasesInv, LeasesTyped, LeaseTypeOK, CountsTyped
<1>5. CountsTyped' BY <1>4 DEF CountsTyped
<1>6. CountSound' BY <1>1, <1>2, <1>3 DEF LeasesInv, CountSound
<1> QED BY <1>5, <1>6

(* reserveLease counts the lease that is made.                              *)
LEMMA CountsUp ==
  ASSUME LeasesInv, NEW l \in Leases, NEW p, NEW g, NEW m \in {"exclusive", "shared"},
         Goes(l, p, m, g), ReserveSessionLease(l, m), l \notin Counted, l \in Counted',
         UNCHANGED <<generation, connected>>
  PROVE  CountSound' /\ CountsTyped'
<1>1. Counted' = Counted \cup {l}
  BY CountedOf DEF LeasesInv
<1>2. Counted \subseteq Leases /\ Counted' \subseteq Leases BY DEF Counted
<1>3. /\ Cardinality(Counted') = Cardinality(Counted) + 1
      /\ Cardinality(Counted) \in Nat
  BY <1>1, <1>2, OneMoreOrLess
<1>4. /\ Cardinality(Leases) \in Nat
      /\ Cardinality(Counted) = 0 <=> Counted = {}
  BY CountedIsFinite
<1>5. Cardinality(Counted') <= Cardinality(Leases)
  BY <1>2, FS_Subset, LeaseAssumption
<1>6. /\ leaseCount \in Nat /\ leaseCount <= Cardinality(Counted)
      /\ connected => leaseCount = Cardinality(Counted)
      /\ exclusiveLease \in Leases \cup {NoLease} /\ NoLease \notin Leases
  BY LeaseAssumption, <1>4 DEF LeasesInv, LeasesTyped, LeaseTypeOK, CountSound
<1>7. leaseCount' = leaseCount + 1
  BY DEF ReserveSessionLease
<1>8. CountsTyped'
  BY <1>3, <1>4, <1>5, <1>6, <1>7 DEF CountsTyped, ReserveSessionLease
<1>9. leaseCount' <= Cardinality(Counted') /\ (connected' => leaseCount' = Cardinality(Counted'))
  BY <1>3, <1>6, <1>7
<1>10. m = "exclusive" => leaseCount = 0 /\ exclusiveLease' = l
  BY DEF ReserveSessionLease
<1>11. m = "shared" => exclusiveLease = NoLease /\ exclusiveLease' = NoLease
  BY DEF ReserveSessionLease
<1>12. \A k \in Leases : k # l => lease'[k].mode = lease[k].mode
  BY DEF Goes
<1>13. lease'[l].mode = m
  BY DEF Goes
<1>14. connected /\ m = "exclusive" => Counted' = {l}
  BY <1>1, <1>4, <1>6, <1>10
<1>15. exclusiveLease' # NoLease => exclusiveLease' \in Counted'
  BY <1>10, <1>11
<1>16. connected' => \A k \in Counted' : lease'[k].mode = "exclusive" => exclusiveLease' = k
  BY <1>1, <1>2, <1>6, <1>10, <1>11, <1>12, <1>13, <1>14 DEF LeasesInv, CountSound
<1>17. connected' => (exclusiveLease' # NoLease => Counted' = {exclusiveLease'})
  BY <1>10, <1>11, <1>14
<1> QED BY <1>8, <1>9, <1>15, <1>16, <1>17 DEF CountSound

(* releaseSessionLease counts the lease no longer.                          *)
LEMMA CountsDown ==
  ASSUME LeasesInv, NEW l \in Leases, NEW p, NEW g, NEW m, Goes(l, p, m, g),
         ReleaseSessionLease(l), l \in Counted, l \notin Counted',
         UNCHANGED <<generation, connected>>
  PROVE  CountSound' /\ CountsTyped'
<1>1. Counted' = Counted \ {l}
  BY CountedOf DEF LeasesInv
<1>2. Counted \subseteq Leases /\ Counted' \subseteq Leases BY DEF Counted
<1>3. /\ Cardinality(Counted') = Cardinality(Counted) - 1
      /\ Cardinality(Counted) \in Nat /\ Cardinality(Counted') \in Nat
  BY <1>1, <1>2, OneMoreOrLess
<1>4. Cardinality(Leases) \in Nat
  BY CountedIsFinite
<1>6. /\ leaseCount \in 0..Cardinality(Leases) /\ leaseCount <= Cardinality(Counted)
      /\ connected => leaseCount = Cardinality(Counted)
      /\ exclusiveLease \in Leases \cup {NoLease} /\ NoLease \notin Leases
  BY LeaseAssumption, <1>4 DEF LeasesInv, LeasesTyped, LeaseTypeOK, CountSound
<1>7. leaseCount' = IF leaseCount <= 1 THEN 0 ELSE leaseCount - 1
  BY DEF ReleaseSessionLease
<1>8. exclusiveLease' = IF exclusiveLease = l THEN NoLease ELSE exclusiveLease
  BY DEF ReleaseSessionLease
<1>9. CountsTyped'
  BY <1>4, <1>6, <1>7, <1>8 DEF CountsTyped
<1>10. leaseCount' <= Cardinality(Counted') /\ (connected' => leaseCount' = Cardinality(Counted'))
  BY <1>3, <1>4, <1>6, <1>7
<1>11. \A k \in Leases : k # l => lease'[k].mode = lease[k].mode
  BY DEF Goes
<1>12. exclusiveLease' # NoLease => exclusiveLease' \in Counted'
  BY <1>1, <1>8 DEF LeasesInv, CountSound
<1>13. connected' => \A k \in Counted' : lease'[k].mode = "exclusive" => exclusiveLease' = k
  BY <1>1, <1>2, <1>8, <1>11 DEF LeasesInv, CountSound
<1>14. connected' => (exclusiveLease' # NoLease => Counted' = {exclusiveLease'})
  BY <1>1, <1>8 DEF LeasesInv, CountSound
<1> QED BY <1>9, <1>10, <1>12, <1>13, <1>14 DEF CountSound

-----------------------------------------------------------------------------
OthersTyped ==
  /\ attached \in BOOLEAN /\ cleanupRequired \in BOOLEAN
  /\ detachment \in Leases \cup {NoLease}
  /\ attachment \in {"none", "pending", "ok", "failed"}
  /\ reconciliation \in BOOLEAN
  /\ inFlight \in [Requests -> Progresses]
  /\ connected \in BOOLEAN /\ serverAttached \in BOOLEAN /\ strayed \in BOOLEAN

(* The step of one lease keeps the types.                                   *)
LEMMA TypeMoves ==
  ASSUME LeasesTyped, NEW l \in Leases, NEW p, NEW m, NEW g, Goes(l, p, m, g),
         g <= generation, UNCHANGED generation, CountsTyped', OthersTyped'
  PROVE  LeasesTyped'
<1>1. \A k \in Leases : lease'[k].generation <= generation'
  BY DEF Goes, LeasesTyped
<1>2. LeaseTypeOK'
  BY DEF Goes, LeasesTyped, LeaseTypeOK, CountsTyped, OthersTyped
<1> QED BY <1>1, <1>2 DEF LeasesTyped

(* What waits when a lease goes on: the join of an attachment, of a         *)
(* reconciliation, or the lease itself.                                     *)
Target(p) ==
  /\ attachment' = "pending" => p = "attach"
  /\ attachment' = "ok" => p = "attachOk"
  /\ attachment' = "failed" => p = "attachFailed"

(* What a lease waits for once it has joined an attachment.                 *)
LEMMA JoinMoves ==
  ASSUME LeasesTyped, NEW l \in Leases, NEW new, JoinAttachment(l, new),
         NEW m \in {"exclusive", "shared"}, NEW g,
         \/ new = [FreeLease EXCEPT !.mode = m] /\ g = 0
         \/ new = lease[l] /\ m = lease[l].mode /\ g = lease[l].generation
  PROVE  /\ \E p \in {"attach", "attachOk", "attachFailed"} : Goes(l, p, m, g) /\ Target(p)
         /\ attachment' \in {"pending", "ok", "failed"}
         /\ inFlight' \in [Requests -> Progresses]
         /\ UNCHANGED reconciliation
<1> DEFINE Pcs == {"none", "active"} \cup Settled \cup Waiting
<1>1. /\ attachment' \in {"pending", "ok", "failed"}
      /\ inFlight' \in [Requests -> Progresses] /\ UNCHANGED reconciliation
  BY DEF JoinAttachment, LeasesTyped, LeaseTypeOK, Requests, Progresses
<1>2. {"attach", "attachOk", "attachFailed"} \subseteq Pcs
  BY DEF Settled, Waiting
<1>3. PICK p \in {"attach", "attachOk", "attachFailed"} :
        Target(p) /\ lease' = [lease EXCEPT ![l] = [new EXCEPT !.pc = p]]
  <2>1. CASE attachment' = "pending"
    BY <2>1 DEF JoinAttachment, Target
  <2>2. CASE attachment' = "ok"
    BY <2>2 DEF JoinAttachment, Target
  <2>3. CASE attachment' = "failed"
    BY <2>3 DEF JoinAttachment, Target
  <2> QED BY <1>1, <2>1, <2>2, <2>3
<1>4. p \in Pcs BY <1>2
<1> HIDE DEF Pcs
<1>5. CASE new = [FreeLease EXCEPT !.mode = m] /\ g = 0
  BY <1>1, <1>3, <1>4, <1>5, LeaseMoves DEF Pcs
<1>6. CASE new = lease[l] /\ m = lease[l].mode /\ g = lease[l].generation
  BY <1>1, <1>3, <1>4, <1>6, PcMoves DEF Pcs
<1> QED BY <1>5, <1>6

(* What becomes of a lease that goes on: it waits for a reconciliation, or  *)
(* it is active.                                                            *)
LEMMA ProceedMoves ==
  ASSUME LeasesTyped, NEW l \in Leases, NEW new, Proceed(l, new),
         NEW m \in {"exclusive", "shared"}, NEW g,
         \/ new = [FreeLease EXCEPT !.mode = m] /\ g = 0
         \/ new = lease[l] /\ m = lease[l].mode /\ g = lease[l].generation
  PROVE  \/ /\ cleanupRequired
            /\ reconciliation' = (reconciliation \/ connected)
            /\ inFlight' = IF reconciliation \/ ~connected THEN inFlight
                           ELSE [inFlight EXCEPT !["reconcile"] = "sent"]
            /\ Goes(l, IF reconciliation \/ connected THEN "reconcile" ELSE "reconcileFailed",
                    m, g)
            /\ UNCHANGED attachment
         \/ /\ ~cleanupRequired /\ attached /\ Goes(l, "active", m, generation)
            /\ UNCHANGED requestVars
<1> DEFINE Pcs == {"none", "active"} \cup Settled \cup Waiting
           there == IF reconciliation \/ connected THEN "reconcile" ELSE "reconcileFailed"
<1>1. there \in Pcs /\ "active" \in Pcs
  BY DEF Settled, Waiting
<1> HIDE DEF Pcs
<1>2. CASE cleanupRequired /\ lease' = [lease EXCEPT ![l] = [new EXCEPT !.pc = there]]
  <2>1. Goes(l, there, m, g)
    <3> HIDE DEF there
    <3> QED BY <1>1, <1>2, LeaseMoves, PcMoves DEF Pcs
  <2> QED BY <1>2, <2>1 DEF Proceed
<1>3. CASE ~cleanupRequired
  <2>1. /\ attached /\ UNCHANGED requestVars
        /\ lease' = [lease EXCEPT ![l] = [new EXCEPT !.pc = "active", !.generation = generation]]
    BY <1>3 DEF Proceed
  <2>2. Goes(l, "active", m, generation)
    BY <1>1, <2>1, LeaseMoves, PcMoves DEF Pcs
  <2> QED BY <1>3, <2>1, <2>2
<1> QED BY <1>2, <1>3 DEF Proceed

(* The types, as the lemmas below use them.                                 *)
LEMMA InvTyped ==
  ASSUME LeasesInv
  PROVE  /\ LeasesTyped /\ OthersTyped /\ CountsTyped
         /\ NoLease \notin Leases /\ generation \in 0..MaxDisconnects
         /\ lease \in [Leases -> LeaseRecord]
         /\ \A l \in Leases : /\ lease[l].mode \in {"exclusive", "shared"}
                              /\ lease[l].generation \in Nat
                              /\ lease[l].generation <= generation
BY LeaseAssumption
   DEF LeasesInv, LeasesTyped, LeaseTypeOK, OthersTyped, CountsTyped, LeaseRecord

(* No lease detaches while no detachment is noted.                          *)
LEMMA QuietUnlessDetaching ==
  ASSUME LeasesInv, detachment = NoLease
  PROVE  NoneDetaching
BY LeaseAssumption DEF LeasesInv, DetachmentSound, NoneDetaching

(* acquire keeps the invariant.                                             *)
LEMMA AcquireKeeps ==
  ASSUME LeasesInv, NEW l \in Leases, NEW mode \in {"exclusive", "shared"},
         AcquireSession(l, mode)
  PROVE  LeasesInv'
<1> DEFINE new == [FreeLease EXCEPT !.mode = mode]
<1>1. /\ Pc(l) = "none" /\ ReserveSessionLease(l, mode) /\ l \notin Counted
      /\ UNCHANGED <<generation, attached, cleanupRequired, detachment, connected,
                     serverAttached, strayed>>
      /\ UNCHANGED serverVars
  BY DEF AcquireSession, Pc, Counted, Acquiring, Detaching, serverVars
<1>2. /\ LeasesTyped /\ OthersTyped /\ 0 <= generation /\ generation <= generation
      /\ "none" \notin Acquiring
  BY InvTyped DEF Acquiring
<1>3. ASSUME NEW p, NEW g, Goes(l, p, mode, g), g <= generation,
             p \in Acquiring \/ (p = "active" /\ g = generation), OthersTyped', Rest'
      PROVE  LeasesInv'
  <2>1. l \in Counted'
    BY <1>1, <1>3 DEF Goes, Counted, Pc, Current
  <2>2. CountSound' /\ CountsTyped'
    BY <1>1, <1>3, <2>1, CountsUp
  <2>3. LeasesTyped'
    BY <1>1, <1>2, <1>3, <2>2, TypeMoves
  <2> QED BY <1>3, <2>2, <2>3 DEF LeasesInv, Rest
<1>4. CASE detachment # NoLease
  <2> DEFINE p == IF lease[detachment].pc = "detach" THEN "awaitDetachment"
                                                    ELSE "detachmentOver"
  <2>1. lease' = [lease EXCEPT ![l] = [new EXCEPT !.pc = p]] /\ UNCHANGED requestVars
    BY <1>4 DEF AcquireSession
  <2>2. p \in Acquiring /\ p \in Settled \cup Waiting
    BY DEF Acquiring, Settled, Waiting
  <2>3. Goes(l, p, mode, 0)
    <3> HIDE DEF p
    <3> QED BY <1>2, <2>1, <2>2, LeaseMoves
  <2>4. OthersTyped'
    BY <1>1, <1>2, <2>1 DEF OthersTyped, requestVars
  <2>5. Rest'
    <3>1. \A k \in Leases : (Pc(k)' = IF k = l THEN p ELSE Pc(k))
      BY <2>3 DEF Goes, Pc
    <3>2. \A k \in Leases : k # l => (Current(k)' <=> Current(k))
      BY <1>1, <2>3 DEF Goes, Current
    <3>3. UNCHANGED <<generation, attached, cleanupRequired, detachment, connected,
                     serverAttached, strayed, attachment, reconciliation, inFlight>>
      BY <1>1, <2>1 DEF requestVars
    <3>4. detachment \in Leases /\ Pc(detachment) \in Detaching /\ detachment # l
      BY <1>1, <1>2, <1>4 DEF OthersTyped, LeasesInv, DetachmentSound, Detaching
    <3>5. ~connected => p = "detachmentOver"
      BY <3>4, <1>4 DEF LeasesInv, LostSound, Pc
    <3>a. l \in Counted'
      BY <2>2, <3>1 DEF Counted
    <3>b. \A k \in Leases : k # l => (k \in Counted' <=> k \in Counted)
      BY <3>1, <3>2 DEF Counted
    <3>6. LostSound'
      BY <3>1, <3>2, <3>3, <3>4, <3>5 DEF LeasesInv, LostSound
    <3>7. RequestsSound'
      BY <1>1, <3>1, <3>3 DEF LeasesInv, RequestsSound
    <3>c. p = (IF Pc(detachment) = "detach" THEN "awaitDetachment" ELSE "detachmentOver")
      BY DEF Pc
    <3>d. p \notin Detaching /\ Counted \subseteq Leases /\ Counted' \subseteq Leases
      BY DEF Detaching, Counted
    <3>e. cleanupRequired => p = "detachmentOver"
      <4>1. cleanupRequired => connected BY DEF LeasesInv, LostSound
      <4>2. connected => Current(detachment) BY <3>4 DEF LeasesInv, DetachmentSound
      <4>3. cleanupRequired => detachment \in Counted BY <4>1, <4>2, <3>4 DEF Counted
      <4>4. cleanupRequired => Pc(detachment) # "detach" BY <4>3 DEF LeasesInv, CleanupSound
      <4> QED BY <4>4, <3>c
    <3> HIDE DEF p
    <3>8. DetachmentSound'
      <4>1. \A k \in Leases : Pc(k)' \in Detaching <=> Pc(k) \in Detaching
        BY <1>1, <3>1, <3>d DEF Detaching
      <4>2. ASSUME NEW k \in Leases, Pc(k)' \in Detaching
            PROVE  /\ detachment' = k /\ (connected' => Current(k)')
                   /\ \A j \in Counted' \ {k} :
                        Pc(j)' = IF Pc(k)' = "detach" THEN "awaitDetachment" ELSE "detachmentOver"
        <5>1. k # l BY <4>2, <3>1, <3>d
        <5>2. k = detachment /\ Pc(k)' = Pc(k) /\ Pc(k) \in Detaching
          BY <4>1, <4>2, <5>1, <3>1 DEF LeasesInv, DetachmentSound
        <5> QED BY <5>1, <5>2, <3>1, <3>2, <3>3, <3>b, <3>c, <3>d DEF LeasesInv, DetachmentSound
      <4>3. \A k \in Leases : Pc(k)' = "awaitDetachment" =>
              detachment' # NoLease /\ Pc(detachment) = "detach" /\ detachment' = detachment
        BY <1>4, <3>1, <3>3, <3>c DEF LeasesInv, DetachmentSound
      <4>4. \E d \in Leases : d = detachment /\ d = detachment' /\ Pc(d)' = Pc(d)
        BY <3>1, <3>3, <3>4
      <4> QED BY <4>1, <4>2, <4>3, <4>4, <3>4 DEF DetachmentSound
    <3>9. CleanupSound'
      BY <1>1, <3>1, <3>2, <3>3, <3>4, <3>a, <3>b, <3>c, <3>d, <3>e DEF LeasesInv, CleanupSound
    <3>10. ServerSound'
      BY <1>1, <3>1, <3>3, <3>a, <3>b, <3>c, <3>d DEF LeasesInv, ServerSound, Detaching
    <3> QED BY <3>6, <3>7, <3>8, <3>9, <3>10 DEF Rest
  <2> HIDE DEF p
  <2> QED BY <1>2, <1>3, <2>2, <2>3, <2>4, <2>5
<1>5. CASE detachment = NoLease /\ Proceed(l, new)
  <2>1. NoneDetaching BY <1>5, QuietUnlessDetaching
  <2> DEFINE there == IF reconciliation \/ connected THEN "reconcile" ELSE "reconcileFailed"
  <2> HIDE DEF there
  <2>2. CASE /\ cleanupRequired /\ Goes(l, there, mode, 0) /\ UNCHANGED attachment
             /\ reconciliation' = (reconciliation \/ connected)
             /\ inFlight' = IF reconciliation \/ ~connected THEN inFlight
                            ELSE [inFlight EXCEPT !["reconcile"] = "sent"]
    <3>1. OthersTyped'
      BY <1>1, <1>2, <2>2 DEF OthersTyped, Requests, Progresses
    <3>2. Rest'
      BY <1>1, <2>1, <2>2, Reconciles DEF there
    <3>3. there \in Acquiring BY DEF there, Acquiring
    <3> QED BY <1>2, <1>3, <2>2, <3>1, <3>2, <3>3
  <2>3. CASE /\ ~cleanupRequired /\ attached /\ Goes(l, "active", mode, generation)
             /\ UNCHANGED requestVars
    <3>1. OthersTyped'
      BY <1>1, <1>2, <2>3 DEF OthersTyped, requestVars
    <3>2. Rest'
      BY <1>1, <2>1, <2>3, Enters
    <3> QED BY <1>2, <1>3, <2>3, <3>1, <3>2
  <2> QED BY <1>2, <1>5, <2>2, <2>3, ProceedMoves DEF there
<1>6. CASE detachment = NoLease /\ ~cleanupRequired /\ ~attached /\ JoinAttachment(l, new)
  <2>1. NoneDetaching BY <1>6, QuietUnlessDetaching
  <2>2. PICK p \in {"attach", "attachOk", "attachFailed"} : Goes(l, p, mode, 0) /\ Target(p)
    BY <1>2, <1>6, JoinMoves
  <2>3. OthersTyped'
    BY <1>1, <1>2, <1>6, JoinMoves DEF OthersTyped
  <2>4. Rest'
    BY <1>1, <1>6, <2>1, <2>2, LeaseJoins DEF Target
  <2>5. p \in Acquiring BY DEF Acquiring
  <2> QED BY <1>2, <1>3, <2>2, <2>3, <2>4, <2>5
<1> QED BY <1>4, <1>5, <1>6 DEF AcquireSession

(* An acquire that has waited for a detachment goes on.                     *)
LEMMA DetachmentOverKeeps ==
  ASSUME LeasesInv, NEW l \in Leases, DetachmentOver(l)
  PROVE  LeasesInv'
<1> DEFINE m == lease[l].mode
           g == lease[l].generation
<1>1. /\ Pc(l) = "detachmentOver" /\ l \in Counted
      /\ UNCHANGED <<leaseCount, exclusiveLease, generation, attached, cleanupRequired, detachment,
                     connected, serverAttached, strayed>>
      /\ UNCHANGED serverVars
  BY DEF DetachmentOver, Pc, Counted, Acquiring, serverVars, countingVars
<1>2. /\ LeasesTyped /\ OthersTyped /\ CountsTyped /\ g <= generation /\ generation <= generation
      /\ m \in {"exclusive", "shared"}
  BY InvTyped
<1>3. ASSUME NEW p, NEW h, Goes(l, p, m, h), h <= generation,
             p \in Acquiring \/ (p = "active" /\ h = generation), OthersTyped', Rest'
      PROVE  LeasesInv'
  <2>1. l \in Counted'
    BY <1>1, <1>3 DEF Goes, Counted, Pc, Current
  <2>2. CountSound' /\ CountsTyped'
    BY <1>1, <1>3, <2>1, CountKept
  <2>3. LeasesTyped'
    BY <1>1, <1>2, <1>3, <2>2, TypeMoves
  <2> QED BY <1>3, <2>2, <2>3 DEF LeasesInv, Rest
<1>4. NoneDetaching
  <2>1. \A k \in Leases : Pc(k) \notin {"detachOk", "detachFailed"}
    BY DEF DetachmentOver, Pc
  <2>2. \A k \in Leases : Pc(k) # "detach"
    BY <1>1 DEF LeasesInv, DetachmentSound, Detaching
  <2> QED BY <2>1, <2>2 DEF NoneDetaching, Detaching
<1>5. CASE Proceed(l, lease[l])
  <2> DEFINE there == IF reconciliation \/ connected THEN "reconcile" ELSE "reconcileFailed"
  <2> HIDE DEF there
  <2>2. CASE /\ cleanupRequired /\ Goes(l, there, m, g) /\ UNCHANGED attachment
             /\ reconciliation' = (reconciliation \/ connected)
             /\ inFlight' = IF reconciliation \/ ~connected THEN inFlight
                            ELSE [inFlight EXCEPT !["reconcile"] = "sent"]
    <3>1. OthersTyped'
      BY <1>1, <1>2, <2>2 DEF OthersTyped, Requests, Progresses
    <3>2. Rest'
      BY <1>1, <1>4, <2>2, Reconciles DEF there
    <3>3. there \in Acquiring BY DEF there, Acquiring
    <3> QED BY <1>2, <1>3, <2>2, <3>1, <3>2, <3>3
  <2>3. CASE /\ ~cleanupRequired /\ attached /\ Goes(l, "active", m, generation)
             /\ UNCHANGED requestVars
    <3>1. OthersTyped'
      BY <1>1, <1>2, <2>3 DEF OthersTyped, requestVars
    <3>2. Rest'
      BY <1>1, <1>4, <2>3, Enters
    <3> QED BY <1>2, <1>3, <2>3, <3>1, <3>2
  <2> QED BY <1>2, <1>5, <2>2, <2>3, ProceedMoves DEF there
<1>6. CASE ~cleanupRequired /\ ~attached /\ JoinAttachment(l, lease[l])
  <2>2. PICK p \in {"attach", "attachOk", "attachFailed"} : Goes(l, p, m, g) /\ Target(p)
    BY <1>2, <1>6, JoinMoves
  <2>3. OthersTyped'
    BY <1>1, <1>2, <1>6, JoinMoves DEF OthersTyped
  <2>4. Rest'
    BY <1>1, <1>4, <1>6, <2>2, LeaseJoins DEF Target
  <2>5. p \in Acquiring BY DEF Acquiring
  <2> QED BY <1>2, <1>3, <2>2, <2>3, <2>4, <2>5
<1> QED BY <1>5, <1>6 DEF DetachmentOver

(* An acquire whose reconciliation succeeded attaches.                      *)
LEMMA ReconciledKeeps ==
  ASSUME LeasesInv, NEW l \in Leases, Reconciled(l)
  PROVE  LeasesInv'
<1> DEFINE m == lease[l].mode
           g == lease[l].generation
<1>1. /\ Pc(l) = "reconciled" /\ l \in Counted /\ JoinAttachment(l, lease[l])
      /\ UNCHANGED <<leaseCount, exclusiveLease, generation, attached, cleanupRequired, detachment,
                     connected, serverAttached, strayed>>
      /\ UNCHANGED serverVars
  BY DEF Reconciled, Pc, Counted, Acquiring, serverVars, countingVars
<1>2. /\ LeasesTyped /\ OthersTyped /\ CountsTyped /\ g <= generation
      /\ m \in {"exclusive", "shared"}
  BY InvTyped
<1>3. NoneDetaching /\ ~cleanupRequired /\ ~attached
  <2>1. ~cleanupRequired /\ ~attached BY <1>1 DEF LeasesInv, CleanupSound
  <2>2. NoneDetaching BY <1>1 DEF LeasesInv, DetachmentSound, NoneDetaching, Detaching
  <2> QED BY <2>1, <2>2
<1>4. PICK p \in {"attach", "attachOk", "attachFailed"} : Goes(l, p, m, g) /\ Target(p)
  BY <1>1, <1>2, JoinMoves
<1>5. OthersTyped'
  BY <1>1, <1>2, JoinMoves DEF OthersTyped
<1>6. Rest'
  BY <1>1, <1>3, <1>4, LeaseJoins DEF Target
<1>7. l \in Counted'
  BY <1>4 DEF Goes, Counted, Pc, Acquiring
<1>8. CountSound' /\ CountsTyped'
  BY <1>1, <1>4, <1>7, CountKept
<1>9. LeasesTyped'
  BY <1>1, <1>2, <1>4, <1>5, <1>8, TypeMoves
<1> QED BY <1>6, <1>8, <1>9 DEF LeasesInv, Rest

(* While a counted lease does not wait for a detachment there is none.      *)
LEMMA NobodyDetaches ==
  ASSUME LeasesInv, NEW l \in Counted, Pc(l) \notin Detaching,
         Pc(l) \notin {"awaitDetachment", "detachmentOver"}
  PROVE  /\ \A k \in Leases : Pc(k) \notin Detaching /\ Pc(k) # "awaitDetachment"
         /\ detachment = NoLease
<1>1. detachment \in Leases \cup {NoLease}
  BY InvTyped DEF OthersTyped
<1>2. \A k \in Leases : Pc(k) \notin Detaching
  BY DEF LeasesInv, DetachmentSound
<1>3. detachment = NoLease
  BY <1>1, <1>2 DEF LeasesInv, DetachmentSound
<1>4. \A k \in Leases : Pc(k) # "awaitDetachment"
  BY <1>3 DEF LeasesInv, DetachmentSound
<1> QED BY <1>2, <1>3, <1>4

(* An acquire whose attachment is over is active.                           *)
LEMMA AttachmentOverKeeps ==
  ASSUME LeasesInv, NEW l \in Leases, AttachmentOver(l)
  PROVE  LeasesInv'
<1> DEFINE m == lease[l].mode
<1>1. /\ Pc(l) = "attachOk" /\ l \in Counted
      /\ attachment' = IF attachment = "pending" THEN attachment ELSE "none"
      /\ lease' = [lease EXCEPT ![l].pc = "active", ![l].generation = generation]
      /\ UNCHANGED <<leaseCount, exclusiveLease, generation, attached, cleanupRequired, detachment,
                     reconciliation, inFlight, connected, serverAttached, strayed>>
  BY DEF AttachmentOver, Pc, Counted, Acquiring, serverVars, countingVars
<1>2. /\ LeasesTyped /\ OthersTyped /\ CountsTyped /\ generation <= generation
      /\ m \in {"exclusive", "shared"}
  BY InvTyped
<1>3. Goes(l, "active", m, generation)
  BY <1>1, <1>2, PcMoves
<1>4. /\ \A k \in Leases : (Pc(k)' = IF k = l THEN "active" ELSE Pc(k))
      /\ \A k \in Leases : k # l => (Current(k)' <=> Current(k))
      /\ l \in Counted'
  BY <1>1, <1>3 DEF Goes, Pc, Current, Counted
<1>5. OthersTyped'
  BY <1>1, <1>2 DEF OthersTyped
<1>6. CountSound' /\ CountsTyped'
  BY <1>1, <1>3, <1>4, CountKept
<1>7. LeasesTyped'
  BY <1>1, <1>2, <1>3, <1>5, <1>6, TypeMoves
<1>8. /\ connected /\ ~cleanupRequired /\ attached
      /\ \A k \in Leases : Pc(k) \notin Detaching /\ Pc(k) # "awaitDetachment"
      /\ detachment = NoLease
  <2>1. connected /\ ~cleanupRequired /\ attached
    BY <1>1, <1>2 DEF LeasesInv, LostSound, CleanupSound, OthersTyped
  <2>2. /\ \A k \in Leases : Pc(k) \notin Detaching /\ Pc(k) # "awaitDetachment"
        /\ detachment = NoLease
    BY <1>1, NobodyDetaches DEF Detaching
  <2> QED BY <2>1, <2>2
<1>9. LostSound'
  BY <1>1, <1>8 DEF LostSound
<1>10. RequestsSound'
  BY <1>1, <1>2, <1>4 DEF LeasesInv, RequestsSound, OthersTyped
<1>11. DetachmentSound'
  BY <1>1, <1>4, <1>8 DEF LeasesInv, DetachmentSound, Detaching
<1>12. CleanupSound'
  BY <1>1, <1>4, <1>8 DEF LeasesInv, CleanupSound
<1>13. ServerSound'
  BY <1>1, <1>4, <1>8 DEF LeasesInv, ServerSound
<1> QED BY <1>6, <1>7, <1>9, <1>10, <1>11, <1>12, <1>13 DEF LeasesInv

(* A counted lease that is freed leaves the count right.                    *)
LEMMA ReservedLess ==
  ASSUME LeasesInv, NEW l \in Leases, ReleaseSessionLease(l), l \in Counted,
         lease' = [lease EXCEPT ![l] = FreeLease], UNCHANGED <<generation, connected>>,
         OthersTyped'
  PROVE  /\ LeasesTyped' /\ CountSound'
         /\ \A k \in Leases : (Pc(k)' = IF k = l THEN "none" ELSE Pc(k))
         /\ \A k \in Leases : k # l => (Current(k)' <=> Current(k))
         /\ Counted' = Counted \ {l}
<1>1. LeasesTyped /\ 0 <= generation
  BY InvTyped
<1>2. Goes(l, "none", "shared", 0)
  BY <1>1, LeaseMoves DEF Settled, Waiting
<1>3. /\ \A k \in Leases : (Pc(k)' = IF k = l THEN "none" ELSE Pc(k))
      /\ \A k \in Leases : k # l => (Current(k)' <=> Current(k))
      /\ l \notin Counted'
  BY <1>2 DEF Goes, Pc, Current, Counted, Acquiring, Detaching
<1>4. Counted' = Counted \ {l}
  BY <1>1, <1>2, <1>3, CountedOf
<1>5. CountSound' /\ CountsTyped'
  BY <1>2, <1>3, CountsDown
<1>6. LeasesTyped'
  BY <1>1, <1>2, <1>5, TypeMoves
<1> QED BY <1>3, <1>4, <1>5, <1>6

(* An acquire that failed gives back its reservation.                       *)
LEMMA AcquireFailsKeeps ==
  ASSUME LeasesInv, NEW l \in Leases, AcquireFails(l)
  PROVE  LeasesInv'
<1>1. /\ Pc(l) \in {"attachFailed", "reconcileFailed"} /\ l \in Counted
      /\ attachment' = IF Pc(l) = "attachFailed" /\ attachment # "pending"
                        THEN "none" ELSE attachment
      /\ ReleaseSessionLease(l) /\ lease' = [lease EXCEPT ![l] = FreeLease]
      /\ UNCHANGED <<generation, attached, cleanupRequired, detachment,
                     reconciliation, inFlight, connected, serverAttached, strayed>>
  BY DEF AcquireFails, Pc, Counted, Acquiring, serverVars
<1>2. LeasesTyped /\ OthersTyped
  BY InvTyped
<1>3. OthersTyped'
  BY <1>1, <1>2 DEF OthersTyped
<1>4. /\ LeasesTyped' /\ CountSound'
      /\ \A k \in Leases : (Pc(k)' = IF k = l THEN "none" ELSE Pc(k))
      /\ \A k \in Leases : k # l => (Current(k)' <=> Current(k))
      /\ Counted' = Counted \ {l}
  BY <1>1, <1>3, ReservedLess
<1>5. /\ \A k \in Leases : Pc(k) \notin Detaching /\ Pc(k) # "awaitDetachment"
      /\ Counted \subseteq Leases /\ detachment = NoLease
  BY <1>1, NobodyDetaches DEF Detaching, Counted
<1>6. LostSound'
  BY <1>1, <1>2, <1>4 DEF LeasesInv, LostSound, OthersTyped
<1>7. RequestsSound'
  BY <1>1, <1>2, <1>4 DEF LeasesInv, RequestsSound, OthersTyped
<1>8. DetachmentSound'
  BY <1>1, <1>4, <1>5 DEF LeasesInv, DetachmentSound, Detaching
<1>9. CleanupSound'
  BY <1>1, <1>4, <1>5 DEF LeasesInv, CleanupSound
<1>10. ServerSound'
  <2>1. connected /\ serverAttached /\ ~strayed => cleanupRequired \/ Counted \ {l} # {}
    <3> SUFFICES ASSUME connected, serverAttached, ~strayed, ~cleanupRequired
                 PROVE  Counted \ {l} # {}
      OBVIOUS
    <3> QED BY <1>1, <1>5 DEF LeasesInv, ServerSound, CleanupSound
  <2> QED BY <1>1, <1>4, <2>1 DEF LeasesInv, ServerSound
<1> QED BY <1>4, <1>6, <1>7, <1>8, <1>9, <1>10 DEF LeasesInv

(* release of a lease: the last one detaches.                               *)
LEMMA ReleaseKeeps ==
  ASSUME LeasesInv, NEW l \in Leases, NEW relinquishOnFailure \in BOOLEAN,
         Release(l, relinquishOnFailure)
  PROVE  LeasesInv'
<1>1. /\ Pc(l) = "active" /\ Current(l) /\ attached /\ connected /\ l \in Counted
      /\ UNCHANGED <<generation, attached, cleanupRequired, attachment,
                     reconciliation, connected, serverAttached, strayed>>
  BY DEF Release, IsActive, Pc, Current, Counted, serverVars
<1>2. LeasesTyped /\ OthersTyped /\ CountsTyped /\ generation <= generation
  BY InvTyped
<1>3. /\ \A k \in Leases : Pc(k) \notin Detaching /\ Pc(k) # "awaitDetachment"
      /\ detachment = NoLease /\ ~cleanupRequired
      /\ Counted \subseteq Leases
  <2>1. /\ \A k \in Leases : Pc(k) \notin Detaching /\ Pc(k) # "awaitDetachment"
        /\ detachment = NoLease
    BY <1>1, NobodyDetaches DEF Detaching
  <2>2. ~cleanupRequired
    BY <1>1 DEF LeasesInv, CleanupSound
  <2> QED BY <2>1, <2>2 DEF Counted
<1>4. /\ \A k \in Leases : k \in Requests /\ k # "attach" /\ k # "reconcile"
      /\ "attach" \in Requests /\ "reconcile" \in Requests
      /\ NoLease \notin Leases
  BY LeaseAssumption DEF Requests
<1>5. CASE leaseCount <= 1
  <2>1. /\ lease' = [lease EXCEPT ![l].pc = "detach", ![l].relinquish = relinquishOnFailure]
        /\ detachment' = l /\ inFlight' = [inFlight EXCEPT ![l] = "sent"]
        /\ UNCHANGED <<leaseCount, exclusiveLease>>
    BY <1>5 DEF Release
  <2>2. Goes(l, "detach", lease[l].mode, lease[l].generation)
    BY <1>2, <2>1, PcMoves DEF Waiting
  <2>3. /\ \A k \in Leases : (Pc(k)' = IF k = l THEN "detach" ELSE Pc(k))
        /\ \A k \in Leases : Current(k)' <=> Current(k)
        /\ l \in Counted'
    BY <1>1, <2>2 DEF Goes, Pc, Current, Counted, Detaching
  <2>4. Counted = {l} /\ Counted' = {l}
    <3>1. /\ Cardinality(Counted) \in Nat /\ leaseCount = Cardinality(Counted)
          /\ Cardinality(Counted) = 0 <=> Counted = {}
      BY <1>1, CountedIsFinite DEF LeasesInv, CountSound
    <3>2. Cardinality(Counted) = 1
      BY <1>1, <1>5, <3>1
    <3>3. Counted = {l}
      BY <1>1, <1>3, <3>2, OneMoreOrLess
    <3>4. Counted' = Counted \cup {l}
      BY <1>1, <1>2, <2>2, <2>3, CountedOf
    <3> QED BY <3>3, <3>4
  <2>5. OthersTyped'
    BY <1>1, <1>2, <2>1 DEF OthersTyped, Progresses
  <2>6. CountSound' /\ CountsTyped'
    BY <1>1, <2>1, <2>2, <2>3, CountKept
  <2>7. LeasesTyped'
    BY <1>1, <1>2, <2>2, <2>5, <2>6, TypeMoves DEF Current
  <2>8. /\ inFlight'[l] = "sent" /\ \A r \in Requests : r # l => inFlight'[r] = inFlight[r]
        /\ inFlight'["attach"] = inFlight["attach"]
        /\ inFlight'["reconcile"] = inFlight["reconcile"]
    BY <1>2, <1>4, <2>1 DEF OthersTyped
  <2>9. LostSound'
    BY <1>1 DEF LostSound
  <2>10. RequestsSound'
    BY <1>1, <1>3, <1>4, <2>3, <2>8 DEF LeasesInv, RequestsSound, Detaching
  <2>11. DetachmentSound'
    <3>1. \E d \in Leases : d = detachment' /\ Pc(d)' = "detach"
      BY <2>1, <2>3
    <3> QED BY <1>1, <1>3, <2>1, <2>3, <2>4, <3>1 DEF DetachmentSound, Detaching
  <2>12. CleanupSound'
    BY <1>1, <1>3, <2>3, <2>4 DEF LeasesInv, CleanupSound
  <2>13. ServerSound'
    BY <1>1, <1>2, <1>3, <1>4, <2>1, <2>3, <2>4, <2>8 DEF LeasesInv, ServerSound
  <2> QED BY <2>6, <2>7, <2>9, <2>10, <2>11, <2>12, <2>13 DEF LeasesInv
<1>6. CASE ~(leaseCount <= 1)
  <2>1. /\ ReleaseSessionLease(l) /\ lease' = [lease EXCEPT ![l] = FreeLease]
        /\ UNCHANGED <<detachment, inFlight>>
    BY <1>6 DEF Release
  <2>2. OthersTyped'
    BY <1>1, <1>2, <2>1 DEF OthersTyped
  <2>3. /\ LeasesTyped' /\ CountSound'
        /\ \A k \in Leases : (Pc(k)' = IF k = l THEN "none" ELSE Pc(k))
        /\ \A k \in Leases : k # l => (Current(k)' <=> Current(k))
        /\ Counted' = Counted \ {l}
    BY <1>1, <2>1, <2>2, ReservedLess
  <2>4. Counted' # {}
    <3>1. /\ Cardinality(Counted) \in Nat /\ leaseCount = Cardinality(Counted)
      BY <1>1, CountedIsFinite DEF LeasesInv, CountSound
    <3>2. Counted # {l}
      <4>1. Cardinality({l}) = 1 BY FS_Singleton
      <4> QED BY <1>6, <3>1, <4>1
    <3> QED BY <1>1, <2>3, <3>2
  <2>5. LostSound'
    BY <1>1 DEF LostSound
  <2>6. RequestsSound'
    BY <1>1, <1>2, <2>1, <2>3 DEF LeasesInv, RequestsSound, OthersTyped
  <2>7. DetachmentSound'
    BY <1>1, <1>3, <2>1, <2>3 DEF LeasesInv, DetachmentSound, Detaching
  <2>8. CleanupSound'
    BY <1>1, <1>3, <2>1, <2>3 DEF LeasesInv, CleanupSound
  <2>9. ServerSound'
    BY <1>1, <1>3, <2>1, <2>3, <2>4 DEF LeasesInv, ServerSound
  <2> QED BY <2>3, <2>5, <2>6, <2>7, <2>8, <2>9 DEF LeasesInv
<1> QED BY <1>5, <1>6

(* A lease of an older connection is forgotten.                             *)
LEMMA ForgetKeeps ==
  ASSUME LeasesInv, NEW l \in Leases, Forget(l)
  PROVE  LeasesInv'
<1>1. /\ Pc(l) = "active" /\ ~Current(l) /\ l \notin Counted
      /\ lease' = [lease EXCEPT ![l] = FreeLease]
      /\ UNCHANGED <<leaseCount, exclusiveLease, generation, attached, cleanupRequired, detachment,
                     attachment, reconciliation, inFlight, connected, serverAttached, strayed>>
  BY DEF Forget, Pc, Current, Counted, Acquiring, Detaching, countingVars, requestVars, serverVars
<1>2. LeasesTyped /\ OthersTyped /\ CountsTyped /\ 0 <= generation
  BY InvTyped
<1>3. Goes(l, "none", "shared", 0)
  BY <1>1, <1>2, LeaseMoves DEF Settled, Waiting
<1>4. /\ \A k \in Leases : (Pc(k)' = IF k = l THEN "none" ELSE Pc(k))
      /\ \A k \in Leases : k # l => (Current(k)' <=> Current(k)) /\ lease'[k].mode = lease[k].mode
      /\ l \notin Counted' /\ Counted \subseteq Leases
  BY <1>1, <1>3 DEF Goes, Pc, Current, Counted, Acquiring, Detaching
<1>5. Counted' = Counted
  BY <1>1, <1>2, <1>3, <1>4, CountedOf
<1>6. OthersTyped' /\ CountsTyped'
  BY <1>1, <1>2 DEF OthersTyped, CountsTyped
<1>7. LeasesTyped'
  BY <1>1, <1>2, <1>3, <1>6, TypeMoves
<1>8. CountSound'
  BY <1>1, <1>4, <1>5 DEF LeasesInv, CountSound
<1>9. LostSound'
  BY <1>1, <1>2, <1>4 DEF LeasesInv, LostSound, OthersTyped
<1>10. RequestsSound'
  BY <1>1, <1>2, <1>4 DEF LeasesInv, RequestsSound, OthersTyped
<1>11. DetachmentSound'
  <2>1. detachment # NoLease => detachment # l /\ \E d \in Leases : d = detachment /\ Pc(d)' = Pc(d)
    BY <1>1, <1>2, <1>4 DEF LeasesInv, DetachmentSound, Detaching, OthersTyped
  <2> QED BY <1>1, <1>4, <1>5, <2>1 DEF LeasesInv, DetachmentSound, Detaching
<1>12. CleanupSound'
  BY <1>1, <1>4, <1>5 DEF LeasesInv, CleanupSound
<1>13. ServerSound'
  BY <1>1, <1>4, <1>5 DEF LeasesInv, ServerSound
<1> QED BY <1>7, <1>8, <1>9, <1>10, <1>11, <1>12, <1>13 DEF LeasesInv

(* A release whose detachment is over, well or not.                         *)
LEMMA ReleaseOverKeeps ==
  ASSUME LeasesInv, NEW l \in Leases, ReleaseOver(l)
  PROVE  LeasesInv'
<1>1. /\ Pc(l) \in {"detachOk", "detachFailed"} /\ detachment = l /\ detachment' = NoLease
      /\ UNCHANGED <<generation, attached, attachment, reconciliation, inFlight, connected,
                     serverAttached, strayed>>
  <2>1. Pc(l) \in {"detachOk", "detachFailed"}
    BY DEF ReleaseOver, Pc
  <2>2. detachment = l
    BY <2>1 DEF LeasesInv, DetachmentSound, Detaching
  <2> QED BY <2>1, <2>2 DEF ReleaseOver, requestVars, serverVars
<1>2. LeasesTyped /\ OthersTyped /\ CountsTyped /\ 0 <= generation
  BY InvTyped
<1>3. /\ \A k \in Leases : Pc(k) \in Detaching => k = l
      /\ \A k \in Leases : Pc(k) # "awaitDetachment"
      /\ \A k \in Counted \ {l} : Pc(k) = "detachmentOver"
      /\ Current(l) <=> connected
      /\ Current(l) <=> l \in Counted
      /\ connected /\ Pc(l) = "detachFailed" => ~cleanupRequired /\ strayed
      /\ Pc(l) = "detachOk" => connected /\ ~attached /\ ~serverAttached
      /\ Counted \subseteq Leases /\ NoLease \notin Leases
  <2>1. Pc(l) \in Detaching /\ Pc(l) # "detach" /\ Pc(l) \notin Acquiring
    BY <1>1 DEF Detaching, Acquiring
  <2>2. /\ \A k \in Leases : Pc(k) \in Detaching => k = l
        /\ \A k \in Leases : Pc(k) # "awaitDetachment"
        /\ \A k \in Counted \ {l} : Pc(k) = "detachmentOver"
        /\ connected => Current(l)
    BY <1>1, <2>1 DEF LeasesInv, DetachmentSound
  <2>3. ~connected => Pc(l) = "detachFailed" /\ ~Current(l)
    BY <1>1 DEF LeasesInv, LostSound
  <2>4. Current(l) <=> l \in Counted
    BY <2>1 DEF Counted
  <2>5. connected /\ Pc(l) = "detachFailed" => ~cleanupRequired /\ strayed
    BY <2>2, <2>4 DEF LeasesInv, CleanupSound, ServerSound
  <2>6. Pc(l) = "detachOk" => connected /\ ~attached /\ ~serverAttached
    BY <2>3 DEF LeasesInv, CleanupSound, ServerSound
  <2> QED BY <2>2, <2>3, <2>4, <2>5, <2>6, LeaseAssumption DEF Counted
<1>4. cleanupRequired' \in BOOLEAN /\ OthersTyped'
  <2>1. cleanupRequired' \in BOOLEAN
    BY <1>2 DEF ReleaseOver, OthersTyped
  <2> QED BY <1>1, <1>2, <2>1 DEF OthersTyped
<1>5. ASSUME connected, l \in Counted,
             ReleaseSessionLease(l), lease' = [lease EXCEPT ![l] = FreeLease],
             \/ Pc(l) = "detachOk" /\ UNCHANGED cleanupRequired
             \/ Pc(l) = "detachFailed" /\ cleanupRequired' = TRUE
      PROVE  LeasesInv'
  <2>1. /\ LeasesTyped' /\ CountSound'
        /\ \A k \in Leases : (Pc(k)' = IF k = l THEN "none" ELSE Pc(k))
        /\ \A k \in Leases : k # l => (Current(k)' <=> Current(k))
        /\ Counted' = Counted \ {l}
    BY <1>1, <1>4, <1>5, ReservedLess
  <2>2. LostSound'
    BY <1>1, <1>5 DEF LostSound
  <2>3. RequestsSound'
    BY <1>1, <1>2, <2>1 DEF LeasesInv, RequestsSound, OthersTyped
  <2>4. DetachmentSound'
    BY <1>1, <1>3, <2>1 DEF DetachmentSound, Detaching
  <2>5. CleanupSound'
    BY <1>1, <1>3, <1>5, <2>1 DEF LeasesInv, CleanupSound
  <2>6. ServerSound'
    BY <1>1, <1>3, <1>5, <2>1 DEF LeasesInv, ServerSound
  <2> QED BY <2>1, <2>2, <2>3, <2>4, <2>5, <2>6 DEF LeasesInv
<1>6. CASE Pc(l) = "detachOk"
  <2>1. ReleaseSessionLease(l) /\ lease' = [lease EXCEPT ![l] = FreeLease] /\ UNCHANGED cleanupRequired
    BY <1>6 DEF ReleaseOver, Pc
  <2> QED BY <1>3, <1>5, <1>6, <2>1
<1>7. CASE Pc(l) = "detachFailed" /\ Current(l) /\ lease[l].relinquish
  <2>1. ReleaseSessionLease(l) /\ lease' = [lease EXCEPT ![l] = FreeLease] /\ cleanupRequired' = TRUE
    BY <1>7 DEF ReleaseOver, Pc, Current
  <2> QED BY <1>3, <1>5, <1>7, <2>1
<1>8. CASE Pc(l) = "detachFailed" /\ ~Current(l)
  <2>1. /\ lease' = [lease EXCEPT ![l] = FreeLease]
        /\ UNCHANGED <<leaseCount, exclusiveLease, cleanupRequired>>
    BY <1>8 DEF ReleaseOver, Pc, Current
  <2>2. Goes(l, "none", "shared", 0)
    BY <1>2, <2>1, LeaseMoves DEF Settled, Waiting
  <2>3. /\ \A k \in Leases : (Pc(k)' = IF k = l THEN "none" ELSE Pc(k))
        /\ \A k \in Leases : k # l => (Current(k)' <=> Current(k)) /\ lease'[k].mode = lease[k].mode
        /\ l \notin Counted'
    BY <1>1, <2>2 DEF Goes, Pc, Current, Counted, Acquiring, Detaching
  <2>4. Counted' = Counted
    BY <1>1, <1>2, <1>3, <1>8, <2>2, <2>3, CountedOf
  <2>5. ~connected /\ ~connected' BY <1>1, <1>3, <1>8
  <2>6. CountsTyped' BY <1>2, <2>1 DEF CountsTyped
  <2>7. LeasesTyped'
    BY <1>1, <1>2, <1>4, <2>2, <2>6, TypeMoves
  <2>8. CountSound'
    BY <2>1, <2>4, <2>5 DEF LeasesInv, CountSound
  <2>9. LostSound'
    BY <1>1, <2>1, <2>3, <2>5 DEF LeasesInv, LostSound
  <2>10. RequestsSound'
    BY <1>1, <1>2, <2>3 DEF LeasesInv, RequestsSound, OthersTyped
  <2>11. DetachmentSound'
    BY <1>1, <1>3, <2>3 DEF DetachmentSound, Detaching
  <2>12. CleanupSound'
    BY <1>1, <1>3, <2>1, <2>3, <2>4, <2>5 DEF LeasesInv, CleanupSound
  <2>13. ServerSound'
    BY <2>5 DEF ServerSound
  <2> QED BY <2>7, <2>8, <2>9, <2>10, <2>11, <2>12, <2>13 DEF LeasesInv
<1>9. CASE Pc(l) = "detachFailed" /\ Current(l) /\ ~lease[l].relinquish
  <2>1. /\ lease' = [lease EXCEPT ![l].pc = "active"]
        /\ UNCHANGED <<leaseCount, exclusiveLease, cleanupRequired>>
    BY <1>9 DEF ReleaseOver, Pc, Current
  <2>2. Goes(l, "active", lease[l].mode, lease[l].generation)
    BY <1>2, <2>1, PcMoves
  <2>3. /\ \A k \in Leases : (Pc(k)' = IF k = l THEN "active" ELSE Pc(k))
        /\ \A k \in Leases : Current(k)' <=> Current(k)
        /\ l \in Counted'
    BY <1>1, <1>9, <2>2 DEF Goes, Pc, Current, Counted
  <2>4. Counted' = Counted
    BY <1>1, <1>2, <1>3, <1>9, <2>2, <2>3, CountedOf
  <2>5. connected BY <1>3, <1>9
  <2>6. CountSound' /\ CountsTyped'
    BY <1>1, <1>3, <1>9, <2>1, <2>2, <2>3, CountKept
  <2>7. LeasesTyped'
    <3>1. lease[l].generation <= generation BY InvTyped
    <3> QED BY <1>1, <1>2, <1>4, <2>2, <2>6, <3>1, TypeMoves
  <2>8. LostSound'
    BY <1>1, <2>5 DEF LostSound
  <2>9. RequestsSound'
    BY <1>1, <1>2, <2>3 DEF LeasesInv, RequestsSound, OthersTyped
  <2>10. DetachmentSound'
    BY <1>1, <1>3, <2>3 DEF DetachmentSound, Detaching
  <2>11. CleanupSound'
    BY <1>1, <1>3, <1>9, <2>1, <2>3, <2>4, <2>5 DEF LeasesInv, CleanupSound
  <2>12. ServerSound'
    BY <1>1, <1>3, <1>9, <2>1, <2>3, <2>4, <2>5 DEF LeasesInv, ServerSound
  <2> QED BY <2>6, <2>7, <2>8, <2>9, <2>10, <2>11, <2>12 DEF LeasesInv
<1> QED BY <1>1, <1>6, <1>7, <1>8, <1>9

(* One request of the session is under way at a time, and nothing that its  *)
(* answer decides has been decided already.                                 *)
LEMMA OneRequest ==
  ASSUME LeasesInv, NEW r \in Requests, inFlight[r] # "none"
  PROVE  /\ connected
         /\ \A q \in Requests : q # r => inFlight[q] = "none"
         /\ r = "reconcile" <=> cleanupRequired
         /\ r \in Leases => detachment = r /\ Pc(r) = "detach"
         /\ r \notin Leases => /\ detachment = NoLease
                               /\ \A k \in Leases : Pc(k) \notin Detaching
         /\ "attach" \notin Leases /\ "reconcile" \notin Leases
         /\ \E l \in Counted : Pc(l) = CASE r = "attach" -> "attach"
                                       [] r = "reconcile" -> "reconcile"
                                       [] r \in Leases -> "detach"
<1>1. /\ "attach" \in Requests /\ "reconcile" \in Requests
      /\ "attach" \notin Leases /\ "reconcile" \notin Leases
      /\ \A q \in Requests : q = "attach" \/ q = "reconcile" \/ q \in Leases
      /\ \A q \in Leases : q \in Requests
  BY LeaseAssumption DEF Requests
<1>2. connected
  BY DEF LeasesInv, LostSound
<1>3. Counted \subseteq Leases BY DEF Counted
<1>4. CASE r = "attach"
  <2>1. PICK l \in Leases : Pc(l) = "attach"
    BY <1>4 DEF LeasesInv, RequestsSound
  <2>2. l \in Counted
    BY <2>1 DEF Counted, Acquiring
  <2>3. /\ \A k \in Leases : Pc(k) \notin Detaching /\ Pc(k) # "awaitDetachment"
        /\ detachment = NoLease
    BY <2>1, <2>2, NobodyDetaches DEF Detaching
  <2>4. ~cleanupRequired
    BY <2>1, <2>2 DEF LeasesInv, CleanupSound
  <2>5. inFlight["reconcile"] = "none"
    BY <2>4 DEF LeasesInv, CleanupSound, RequestsSound
  <2>6. \A k \in Leases : inFlight[k] = "none"
    BY <2>3 DEF LeasesInv, RequestsSound, Detaching
  <2> QED BY <1>1, <1>2, <1>4, <2>1, <2>2, <2>3, <2>4, <2>5, <2>6
<1>5. CASE r = "reconcile"
  <2>1. PICK l \in Leases : Pc(l) = "reconcile"
    BY <1>5 DEF LeasesInv, RequestsSound
  <2>2. l \in Counted
    BY <2>1 DEF Counted, Acquiring
  <2>3. /\ \A k \in Leases : Pc(k) \notin Detaching /\ Pc(k) # "awaitDetachment"
        /\ detachment = NoLease
    BY <2>1, <2>2, NobodyDetaches DEF Detaching
  <2>4. cleanupRequired
    BY <2>1 DEF LeasesInv, CleanupSound
  <2>5. inFlight["attach"] = "none"
    <3>1. \A k \in Leases : Pc(k) = "attach" => k \in Counted BY DEF Counted, Acquiring
    <3> QED BY <2>4, <3>1 DEF LeasesInv, CleanupSound, RequestsSound
  <2>6. \A k \in Leases : inFlight[k] = "none"
    BY <2>3 DEF LeasesInv, RequestsSound, Detaching
  <2> QED BY <1>1, <1>2, <1>5, <2>1, <2>2, <2>3, <2>4, <2>5, <2>6
<1>6. CASE r \in Leases
  <2>1. Pc(r) = "detach" /\ Pc(r) \in Detaching
    BY <1>6 DEF LeasesInv, RequestsSound, Detaching
  <2>2. detachment = r /\ r \in Counted /\ \A k \in Leases : Pc(k) \in Detaching => k = r
    BY <1>2, <1>6, <2>1 DEF LeasesInv, DetachmentSound, Counted
  <2>3. \A k \in Counted \ {r} : Pc(k) = "awaitDetachment"
    BY <1>6, <2>1 DEF LeasesInv, DetachmentSound
  <2>4. \A k \in Leases : Pc(k) \notin {"attach", "reconcile"}
    BY <2>1, <2>3 DEF Counted, Acquiring
  <2>5. ~cleanupRequired
    BY <2>1, <2>2 DEF LeasesInv, CleanupSound
  <2>6. inFlight["attach"] = "none" /\ inFlight["reconcile"] = "none"
    BY <2>4 DEF LeasesInv, RequestsSound
  <2>7. \A k \in Leases : k # r => inFlight[k] = "none"
    BY <2>2 DEF LeasesInv, RequestsSound, Detaching
  <2> QED BY <1>1, <1>2, <1>6, <2>1, <2>2, <2>5, <2>6, <2>7
<1> QED BY <1>1, <1>4, <1>5, <1>6

(* Answers move leases among those that are counted.                        *)
LEMMA CountStays ==
  ASSUME LeasesInv, UNCHANGED <<generation, leaseCount, exclusiveLease, connected>>, OthersTyped',
         lease' \in [Leases -> LeaseRecord],
         \A k \in Leases : /\ lease'[k].mode = lease[k].mode
                           /\ lease'[k].generation = lease[k].generation
                           /\ Pc(k)' # Pc(k) =>
                                \/ Pc(k) \in Acquiring /\ Pc(k)' \in Acquiring
                                \/ Pc(k) \in Detaching /\ Pc(k)' \in Detaching
  PROVE  /\ LeasesTyped' /\ CountSound' /\ Counted' = Counted
         /\ \A k \in Leases : Current(k)' <=> Current(k)
<1>1. /\ Counted' = Counted /\ Counted \subseteq Leases
      /\ \A k \in Leases : Current(k)' <=> Current(k)
  <2>1. \A k \in Leases : Current(k)' <=> Current(k)
    BY DEF Current
  <2>2. \A k \in Leases : k \in Counted' <=> k \in Counted
    <3> SUFFICES ASSUME NEW k \in Leases PROVE k \in Counted' <=> k \in Counted
      OBVIOUS
    <3>1. /\ k \in Counted <=> Pc(k) \in Acquiring \/ (Pc(k) \in Detaching \cup {"active"} /\ Current(k))
          /\ k \in Counted' <=> Pc(k)' \in Acquiring \/ (Pc(k)' \in Detaching \cup {"active"} /\ Current(k)')
      BY DEF Counted, Acquiring, Detaching
    <3>2. Acquiring \cap (Detaching \cup {"active"}) = {} BY DEF Acquiring, Detaching
    <3> QED BY <2>1, <3>1, <3>2
  <2>3. Counted \subseteq Leases /\ Counted' \subseteq Leases BY DEF Counted
  <2> QED BY <2>1, <2>2, <2>3
<1>2. LeasesTyped /\ CountsTyped BY InvTyped
<1>3. LeasesTyped'
  BY <1>2 DEF LeasesTyped, LeaseTypeOK, OthersTyped
<1>4. CountSound'
  BY <1>1 DEF LeasesInv, CountSound
<1> QED BY <1>1, <1>3, <1>4

(* All that waited for one answer go on together.                           *)
LEMMA JobResumed ==
  ASSUME LeasesTyped, NEW from, NEW to \in {"none", "active"} \cup Settled \cup Waiting,
         lease' = Resume(from, to)
  PROVE  /\ lease' \in [Leases -> LeaseRecord]
         /\ \A k \in Leases : /\ (Pc(k)' = IF Pc(k) \in from THEN to ELSE Pc(k))
                              /\ lease'[k].mode = lease[k].mode
                              /\ lease'[k].generation = lease[k].generation
<1> DEFINE Pcs == {"none", "active"} \cup Settled \cup Waiting
<1>1. /\ lease \in [Leases -> LeaseRecord]
      /\ LeaseRecord = [pc : Pcs, mode : {"exclusive", "shared"},
                        generation : 0..MaxDisconnects, relinquish : BOOLEAN]
  BY DEF LeasesTyped, LeaseTypeOK, LeaseRecord
<1>2. to \in Pcs OBVIOUS
<1> HIDE DEF Pcs
<1>3. ASSUME NEW k \in Leases
      PROVE  /\ lease'[k] \in LeaseRecord
             /\ lease'[k].pc = IF lease[k].pc \in from THEN to ELSE lease[k].pc
             /\ lease'[k].mode = lease[k].mode
             /\ lease'[k].generation = lease[k].generation
  <2>1. lease[k] \in LeaseRecord BY <1>1
  <2>2. lease'[k] = IF lease[k].pc \in from THEN [lease[k] EXCEPT !.pc = to] ELSE lease[k]
    BY DEF Resume
  <2>3. CASE lease[k].pc \in from BY <1>1, <1>2, <2>1, <2>2, <2>3
  <2>4. CASE lease[k].pc \notin from BY <2>1, <2>2, <2>4
  <2> QED BY <2>3, <2>4
<1>4. lease' \in [Leases -> LeaseRecord]
  BY <1>3 DEF Resume
<1> QED BY <1>3, <1>4 DEF Pc

(* The server handles a request.                                            *)
LEMMA ServerHandlesKeeps ==
  ASSUME LeasesInv, NEW r \in Requests, ServerHandles(r)
  PROVE  LeasesInv'
<1>1. /\ inFlight[r] = "sent"
      /\ UNCHANGED <<lease, leaseCount, exclusiveLease, generation, attached, cleanupRequired,
                     detachment, attachment, reconciliation, connected>>
      /\ \A k \in Leases : Pc(k) \notin Settled
      /\ inFlight' = [inFlight EXCEPT ![r] = "ok"] \/ inFlight' = [inFlight EXCEPT ![r] = "error"]
  BY DEF ServerHandles, AllSettled, Pc, countingVars
<1>2. /\ LeasesTyped /\ OthersTyped /\ lease \in [Leases -> LeaseRecord]
      /\ inFlight \in [Requests -> Progresses]
  BY InvTyped DEF OthersTyped
<1>3. OthersTyped'
  BY <1>1, <1>2 DEF OthersTyped, ServerHandles, Progresses
<1>4. /\ \A k \in Leases : Pc(k)' = Pc(k)
      /\ \A k \in Leases : lease'[k].mode = lease[k].mode /\ lease'[k].generation = lease[k].generation
  BY <1>1 DEF Pc
<1>5. /\ LeasesTyped' /\ CountSound' /\ Counted' = Counted
      /\ \A k \in Leases : Current(k)' <=> Current(k)
  BY <1>1, <1>2, <1>3, <1>4, CountStays
<1>6. /\ connected /\ "attach" \in Requests /\ "reconcile" \in Requests
      /\ \A k \in Leases : k \in Requests
      /\ \A q \in Requests : q # r => inFlight[q] = "none"
  BY <1>1, OneRequest DEF Requests
<1>7. /\ \A q \in Requests : inFlight'[q] # "none" <=> inFlight[q] # "none"
      /\ \A q \in Requests : q # r => inFlight'[q] = "none"
  BY <1>1, <1>2, <1>6
<1>8. LostSound' BY <1>1, <1>6 DEF LostSound
<1>9. RequestsSound'
  BY <1>1, <1>4, <1>6, <1>7 DEF LeasesInv, RequestsSound
<1>10. DetachmentSound'
  BY <1>1, <1>5 DEF LeasesInv, DetachmentSound, Pc
<1>11. CleanupSound'
  <2>1. Counted \subseteq Leases BY DEF Counted
  <2> QED BY <1>1, <1>4, <1>5, <2>1 DEF LeasesInv, CleanupSound
<1>12. ServerSound'
  <2>1. \A k \in Leases : Pc(k)' \notin {"detachOk", "detachFailed", "attachFailed"}
    BY <1>1, <1>4 DEF Settled
  <2>2. Counted' # {}
    BY <1>1, <1>5, OneRequest
  <2>3. CASE r = "attach"
    <3>1. /\ detachment = NoLease /\ ~cleanupRequired /\ "attach" \notin Leases
          /\ inFlight'["reconcile"] = "none" /\ \A k \in Leases : inFlight'[k] = "none"
      BY <1>1, <1>6, <1>7, <2>3, OneRequest
    <3>2. CASE serverAttached' = TRUE /\ inFlight'["attach"] = "ok" /\ strayed' = FALSE
      BY <1>1, <2>1, <2>2, <3>1, <3>2 DEF LeasesInv, ServerSound
    <3>3. CASE serverAttached' = TRUE /\ inFlight'["attach"] = "error" /\ strayed' = TRUE
      BY <1>1, <2>1, <2>2, <3>1, <3>3 DEF LeasesInv, ServerSound
    <3>4. CASE UNCHANGED <<serverAttached, strayed>> /\ inFlight'["attach"] = "error"
      BY <1>1, <1>6, <2>1, <2>2, <2>3, <3>1, <3>4 DEF LeasesInv, ServerSound
    <3> QED BY <1>2, <1>6, <2>3, <3>2, <3>3, <3>4 DEF ServerHandles
  <2>4. CASE r # "attach"
    <3>1. serverAttached' = FALSE /\ inFlight'["attach"] = "none"
      BY <1>6, <1>7, <2>4 DEF ServerHandles
    <3>2. inFlight'[r] = "error" => strayed' = TRUE
      BY <1>2, <2>4 DEF ServerHandles
    <3>3. attached /\ ~cleanupRequired /\ detachment = NoLease => FALSE
      BY <1>1, <2>4, LeaseAssumption, OneRequest DEF Requests
    <3>4. \A k \in Leases : inFlight'[k] = "error" => strayed' = TRUE
      BY <1>6, <1>7, <3>2
    <3> QED BY <1>1, <2>1, <3>1, <3>3, <3>4 DEF ServerSound
  <2> QED BY <2>3, <2>4
<1> QED BY <1>5, <1>8, <1>9, <1>10, <1>11, <1>12 DEF LeasesInv

(* The answer to attach arrives.                                            *)
LEMMA ReceiveAttachedKeeps ==
  ASSUME LeasesInv, ReceiveAttached
  PROVE  LeasesInv'
<1> DEFINE ok == inFlight["attach"] = "ok"
           to == IF ok THEN "attachOk" ELSE "attachFailed"
<1>1. /\ inFlight["attach"] \in {"ok", "error"} /\ "attach" \in Requests
      /\ UNCHANGED <<leaseCount, exclusiveLease, generation, cleanupRequired,
                     detachment, reconciliation, connected, serverAttached, strayed>>
      /\ \A k \in Leases : Pc(k) \notin Settled
      /\ attached' = (attached \/ ok) /\ attachment' = IF ok THEN "ok" ELSE "failed"
      /\ lease' = Resume({"attach"}, to)
      /\ inFlight' = [inFlight EXCEPT !["attach"] = "none"]
  BY DEF ReceiveAttached, AllSettled, Pc, countingVars, serverVars, Requests
<1>2. /\ LeasesTyped /\ OthersTyped /\ lease \in [Leases -> LeaseRecord]
      /\ inFlight \in [Requests -> Progresses]
  BY InvTyped DEF OthersTyped
<1>3. OthersTyped'
  BY <1>1, <1>2 DEF OthersTyped, Progresses
<1>4. /\ to \in Acquiring /\ to \in {"none", "active"} \cup Settled \cup Waiting
      /\ to \in {"attachOk", "attachFailed"} /\ (to = "attachOk" <=> ok)
  BY DEF Acquiring, Settled
<1>5. /\ lease' \in [Leases -> LeaseRecord]
      /\ \A k \in Leases : /\ (Pc(k)' = IF Pc(k) = "attach" THEN to ELSE Pc(k))
                           /\ lease'[k].mode = lease[k].mode
                           /\ lease'[k].generation = lease[k].generation
  BY <1>1, <1>2, <1>4, JobResumed
<1>6. /\ LeasesTyped' /\ CountSound' /\ Counted' = Counted
      /\ \A k \in Leases : Current(k)' <=> Current(k)
  <2>1. "attach" \in Acquiring BY DEF Acquiring
  <2> HIDE DEF to
  <2> QED BY <1>1, <1>3, <1>4, <1>5, <2>1, CountStays
<1>7. /\ connected /\ "reconcile" \in Requests /\ \A k \in Leases : k \in Requests
      /\ \A q \in Requests : q # "attach" => inFlight[q] = "none"
      /\ ~cleanupRequired /\ detachment = NoLease /\ "attach" \notin Leases
      /\ \A k \in Leases : Pc(k) \notin Detaching
      /\ \E l \in Leases : Pc(l) = "attach"
  BY <1>1, OneRequest DEF Requests, Counted
<1>8. \A q \in Requests : inFlight'[q] = "none"
  BY <1>1, <1>2, <1>7
<1> HIDE DEF to, ok
<1>9. LostSound' BY <1>1, <1>7 DEF LostSound
<1>10. RequestsSound'
  <2>1. attachment' = "ok" => \E l \in Leases : Pc(l)' = "attachOk"
    BY <1>1, <1>4, <1>5, <1>7
  <2>2. attachment' = "failed" => \E l \in Leases : Pc(l)' = "attachFailed"
    BY <1>1, <1>4, <1>5, <1>7
  <2>3. attachment' # "pending" /\ \A l \in Leases : Pc(l)' # "attach"
    BY <1>1, <1>4, <1>5
  <2>4. \A l \in Leases : Pc(l)' # "detach" /\ (Pc(l)' = "reconcile" <=> Pc(l) = "reconcile")
    BY <1>4, <1>5, <1>7 DEF Detaching
  <2> QED BY <1>1, <1>7, <1>8, <2>1, <2>2, <2>3, <2>4 DEF LeasesInv, RequestsSound
<1>11. DetachmentSound'
  <2>1. \A k \in Leases : Pc(k)' \notin Detaching /\ Pc(k)' # "awaitDetachment"
    BY <1>4, <1>5, <1>7 DEF Detaching, LeasesInv, DetachmentSound
  <2> QED BY <1>1, <1>7, <2>1 DEF DetachmentSound
<1>12. CleanupSound'
  BY <1>1, <1>4, <1>5, <1>7 DEF LeasesInv, CleanupSound, Settled
<1>13. ServerSound'
  <2>1. \A k \in Leases : Pc(k)' \notin {"detachOk", "detachFailed"}
    BY <1>4, <1>5, <1>7 DEF Detaching
  <2>2. \A k \in Leases : Pc(k)' = "attachFailed" => ~ok
    BY <1>1, <1>4, <1>5 DEF Settled
  <2>3. ok => serverAttached
    BY <1>7 DEF ok, LeasesInv, ServerSound
  <2>4. ~ok => ~serverAttached \/ strayed
    BY <1>1, <1>7 DEF ok, LeasesInv, ServerSound
  <2>5. serverAttached /\ ~strayed => Counted # {}
    BY <1>7 DEF LeasesInv, ServerSound
  <2>6. attached /\ ~cleanupRequired /\ detachment = NoLease => serverAttached \/ strayed
    BY <1>7 DEF LeasesInv, ServerSound
  <2> QED BY <1>1, <1>6, <1>7, <1>8, <2>1, <2>2, <2>3, <2>4, <2>5, <2>6 DEF ServerSound
<1> QED BY <1>6, <1>9, <1>10, <1>11, <1>12, <1>13 DEF LeasesInv

(* The answer to the detach of a reconciliation arrives.                    *)
LEMMA ReceiveReconciledKeeps ==
  ASSUME LeasesInv, ReceiveReconciled
  PROVE  LeasesInv'
<1> DEFINE ok == inFlight["reconcile"] = "ok"
           to == IF ok THEN "reconciled" ELSE "reconcileFailed"
<1>1. /\ inFlight["reconcile"] \in {"ok", "error"} /\ "reconcile" \in Requests
      /\ UNCHANGED <<leaseCount, exclusiveLease, generation,
                     detachment, attachment, connected, serverAttached, strayed>>
      /\ \A k \in Leases : Pc(k) \notin Settled
      /\ attached' = (attached /\ ~ok) /\ cleanupRequired' = (cleanupRequired /\ ~ok)
      /\ lease' = Resume({"reconcile"}, to) /\ reconciliation' = FALSE
      /\ inFlight' = [inFlight EXCEPT !["reconcile"] = "none"]
  BY DEF ReceiveReconciled, AllSettled, Pc, countingVars, serverVars, Requests
<1>2. /\ LeasesTyped /\ OthersTyped /\ lease \in [Leases -> LeaseRecord]
      /\ inFlight \in [Requests -> Progresses]
  BY InvTyped DEF OthersTyped
<1>3. OthersTyped'
  BY <1>1, <1>2 DEF OthersTyped, Progresses
<1>4. /\ to \in Acquiring /\ to \in {"none", "active"} \cup Settled \cup Waiting
      /\ to \in {"reconciled", "reconcileFailed"} /\ (to = "reconciled" <=> ok)
  BY DEF Acquiring, Settled
<1>5. /\ lease' \in [Leases -> LeaseRecord]
      /\ \A k \in Leases : /\ (Pc(k)' = IF Pc(k) = "reconcile" THEN to ELSE Pc(k))
                           /\ lease'[k].mode = lease[k].mode
                           /\ lease'[k].generation = lease[k].generation
  BY <1>1, <1>2, <1>4, JobResumed
<1>6. /\ LeasesTyped' /\ CountSound' /\ Counted' = Counted
      /\ \A k \in Leases : Current(k)' <=> Current(k)
  <2>1. "reconcile" \in Acquiring BY DEF Acquiring
  <2> HIDE DEF to
  <2> QED BY <1>1, <1>3, <1>4, <1>5, <2>1, CountStays
<1>7. /\ connected /\ "attach" \in Requests /\ \A k \in Leases : k \in Requests
      /\ \A q \in Requests : q # "reconcile" => inFlight[q] = "none"
      /\ cleanupRequired /\ detachment = NoLease /\ "reconcile" \notin Leases
      /\ \A k \in Leases : Pc(k) \notin Detaching
  BY <1>1, OneRequest DEF Requests
<1>8. \A q \in Requests : inFlight'[q] = "none"
  BY <1>1, <1>2, <1>7
<1> HIDE DEF to, ok
<1>9. LostSound' BY <1>1, <1>7 DEF LostSound
<1>10. RequestsSound'
  <2>1. /\ \A l \in Leases : Pc(l)' # "detach" /\ Pc(l)' # "reconcile"
        /\ \A l \in Leases : Pc(l) \in {"attach", "attachOk", "attachFailed"} => Pc(l)' = Pc(l)
        /\ \A l \in Leases : Pc(l)' = "attach" => Pc(l) = "attach"
    BY <1>4, <1>5, <1>7 DEF Detaching
  <2>2. inFlight["attach"] = "none" BY <1>7
  <2> QED BY <1>1, <1>7, <1>8, <2>1, <2>2 DEF LeasesInv, RequestsSound
<1>11. DetachmentSound'
  <2>1. \A k \in Leases : Pc(k)' \notin Detaching /\ Pc(k)' # "awaitDetachment"
    BY <1>4, <1>5, <1>7 DEF Detaching, LeasesInv, DetachmentSound
  <2> QED BY <1>1, <1>7, <2>1 DEF DetachmentSound
<1>12. CleanupSound'
  <2>1. \A l \in Leases : /\ Pc(l)' \notin {"reconcile", "attachOk", "detachOk"}
                          /\ Pc(l)' = "reconciled" => ok
                          /\ Pc(l)' = "reconcileFailed" => ~ok
    BY <1>1, <1>4, <1>5 DEF Settled
  <2>2. Counted \subseteq Leases BY DEF Counted
  <2>3. ~ok => \A l \in Counted : Pc(l)' \in {"detachmentOver", "reconcile", "reconcileFailed"}
    BY <1>4, <1>5, <1>7, <2>2 DEF LeasesInv, CleanupSound
  <2>4. /\ cleanupRequired' <=> ~ok
        /\ ok => ~attached'
    BY <1>1, <1>7
  <2>5. cleanupRequired' => \A l \in Counted' : Pc(l)' \in {"detachmentOver", "reconcile", "reconcileFailed"}
    BY <1>6, <2>3, <2>4
  <2>6. \A l \in Leases : /\ Pc(l)' # "reconcile" /\ Pc(l)' # "attachOk" /\ Pc(l)' # "detachOk"
                          /\ Pc(l)' = "reconciled" => ~attached'
                          /\ Pc(l)' = "reconcileFailed" => cleanupRequired'
    BY <2>1, <2>4
  <2>7. cleanupRequired' \in BOOLEAN /\ attached' \in BOOLEAN
    BY <1>3 DEF OthersTyped
  <2> QED BY <2>5, <2>6, <2>7 DEF CleanupSound
<1>13. ServerSound'
  <2>1. \A k \in Leases : Pc(k)' \notin {"detachOk", "detachFailed", "attachFailed"}
    BY <1>1, <1>4, <1>5 DEF Settled
  <2>2. ok => ~serverAttached
    BY <1>7 DEF ok, LeasesInv, ServerSound
  <2>3. serverAttached /\ ~strayed => attached
    BY <1>7 DEF LeasesInv, ServerSound
  <2> QED BY <1>1, <1>7, <1>8, <2>1, <2>2, <2>3 DEF ServerSound
<1> QED BY <1>6, <1>9, <1>10, <1>11, <1>12, <1>13 DEF LeasesInv

(* The answer to detach arrives.                                            *)
LEMMA ReceiveDetachedKeeps ==
  ASSUME LeasesInv, NEW l \in Leases, ReceiveDetached(l)
  PROVE  LeasesInv'
<1> DEFINE ok == inFlight[l] = "ok"
           to == IF ok THEN "detachOk" ELSE "detachFailed"
<1>1. /\ inFlight[l] \in {"ok", "error"} /\ l \in Requests
      /\ UNCHANGED <<leaseCount, exclusiveLease, generation, cleanupRequired, reconciliation,
                     detachment, attachment, connected, serverAttached, strayed>>
      /\ \A k \in Leases : Pc(k) \notin Settled
      /\ attached' = (attached /\ ~ok)
      /\ lease' = [Resume({"awaitDetachment"}, "detachmentOver") EXCEPT ![l] =
                     [lease[l] EXCEPT !.pc = to]]
      /\ inFlight' = [inFlight EXCEPT ![l] = "none"]
  BY DEF ReceiveDetached, AllSettled, Pc, countingVars, serverVars, Requests
<1>2. /\ LeasesTyped /\ OthersTyped /\ lease \in [Leases -> LeaseRecord]
      /\ inFlight \in [Requests -> Progresses]
  BY InvTyped DEF OthersTyped
<1>3. OthersTyped'
  BY <1>1, <1>2 DEF OthersTyped, Progresses
<1>4. /\ to \in Detaching /\ to \in {"none", "active"} \cup Settled \cup Waiting
      /\ to \in {"detachOk", "detachFailed"} /\ (to = "detachOk" <=> ok)
      /\ to \notin Acquiring
  BY DEF Acquiring, Detaching, Settled
<1> HIDE DEF to, ok
<1>5. /\ lease' \in [Leases -> LeaseRecord]
      /\ \A k \in Leases : /\ (Pc(k)' = IF k = l THEN to
                                         ELSE IF Pc(k) = "awaitDetachment" THEN "detachmentOver"
                                                                          ELSE Pc(k))
                           /\ lease'[k].mode = lease[k].mode
                           /\ lease'[k].generation = lease[k].generation
  <2> DEFINE Pcs == {"none", "active"} \cup Settled \cup Waiting
             others == Resume({"awaitDetachment"}, "detachmentOver")
  <2>1. /\ LeaseRecord = [pc : Pcs, mode : {"exclusive", "shared"},
                          generation : 0..MaxDisconnects, relinquish : BOOLEAN]
        /\ to \in Pcs /\ "detachmentOver" \in Pcs
    BY <1>4 DEF LeaseRecord, Settled
  <2> HIDE DEF Pcs
  <2>2. ASSUME NEW k \in Leases
        PROVE  /\ others[k] = IF lease[k].pc \in {"awaitDetachment"}
                              THEN [lease[k] EXCEPT !.pc = "detachmentOver"] ELSE lease[k]
               /\ others[k] \in LeaseRecord
               /\ others[k].pc = IF lease[k].pc = "awaitDetachment" THEN "detachmentOver"
                                                                   ELSE lease[k].pc
               /\ others[k].mode = lease[k].mode
               /\ others[k].generation = lease[k].generation
    <3>1. others[k] = IF lease[k].pc \in {"awaitDetachment"}
                      THEN [lease[k] EXCEPT !.pc = "detachmentOver"] ELSE lease[k]
      BY DEF Resume
    <3>2. lease[k] \in LeaseRecord BY <1>2
    <3> HIDE DEF others
    <3>3. CASE lease[k].pc = "awaitDetachment" BY <2>1, <3>1, <3>2, <3>3
    <3>4. CASE lease[k].pc # "awaitDetachment" BY <2>1, <3>1, <3>2, <3>4
    <3> QED BY <3>1, <3>3, <3>4
  <2>3. others \in [Leases -> LeaseRecord]
    BY <2>2 DEF Resume
  <2>4. lease' = [others EXCEPT ![l] = [lease[l] EXCEPT !.pc = to]]
    BY <1>1
  <2>5. lease[l] \in LeaseRecord BY <1>2
  <2> HIDE DEF others
  <2>6. /\ lease' \in [Leases -> LeaseRecord]
        /\ lease'[l].pc = to /\ lease'[l].mode = lease[l].mode
        /\ lease'[l].generation = lease[l].generation
        /\ \A k \in Leases : k # l => lease'[k] = others[k]
    BY <2>1, <2>3, <2>4, <2>5
  <2> QED BY <2>2, <2>6 DEF Pc
<1>6. /\ connected /\ "attach" \in Requests /\ "reconcile" \in Requests
      /\ \A k \in Leases : k \in Requests
      /\ \A q \in Requests : q # l => inFlight[q] = "none"
      /\ ~cleanupRequired /\ detachment = l /\ Pc(l) = "detach"
      /\ "attach" \notin Leases /\ "reconcile" \notin Leases
  BY <1>1, OneRequest DEF Requests
<1>7. /\ LeasesTyped' /\ CountSound' /\ Counted' = Counted
      /\ \A k \in Leases : Current(k)' <=> Current(k)
  <2>1. {"awaitDetachment", "detachmentOver"} \subseteq Acquiring /\ "detach" \in Detaching
    BY DEF Acquiring, Detaching
  <2> QED BY <1>1, <1>3, <1>4, <1>5, <1>6, <2>1, CountStays
<1>8. \A q \in Requests : inFlight'[q] = "none"
  BY <1>1, <1>2, <1>6
<1>9. LostSound' BY <1>1, <1>6 DEF LostSound
<1>10. RequestsSound'
  <2>1. /\ \A k \in Leases : Pc(k) \in Detaching => k = l
        /\ inFlight["attach"] = "none" /\ inFlight["reconcile"] = "none"
    BY <1>6 DEF LeasesInv, DetachmentSound
  <2>2. /\ \A k \in Leases : Pc(k)' # "detach"
        /\ \A k \in Leases : \A p \in {"attach", "attachOk", "attachFailed", "reconcile"} :
             Pc(k)' = p <=> Pc(k) = p
    BY <1>4, <1>5, <1>6, <2>1 DEF Detaching
  <2> QED BY <1>1, <1>6, <1>8, <2>1, <2>2 DEF LeasesInv, RequestsSound
<1>11. DetachmentSound'
  <2>1. /\ \A k \in Leases : Pc(k)' \in Detaching => k = l
        /\ \A k \in Leases : Pc(k)' # "awaitDetachment"
    BY <1>4, <1>5, <1>6 DEF LeasesInv, DetachmentSound, Detaching
  <2>2. \A k \in Counted \ {l} : Pc(k)' = "detachmentOver"
    BY <1>5, <1>6 DEF LeasesInv, DetachmentSound, Detaching, Counted
  <2>3. Current(l) BY <1>6 DEF LeasesInv, DetachmentSound, Detaching
  <2>4. Pc(l)' = to BY <1>5
  <2>5. \E d \in Leases : d = detachment' /\ d = l
    BY <1>1, <1>6
  <2> QED BY <1>1, <1>4, <1>6, <1>7, <2>1, <2>2, <2>3, <2>4, <2>5 DEF DetachmentSound
<1>12. CleanupSound'
  BY <1>1, <1>4, <1>5, <1>6 DEF LeasesInv, CleanupSound, Settled
<1>13. ServerSound'
  <2>1. /\ \A k \in Leases : Pc(k)' # "attachFailed"
        /\ \A k \in Leases : Pc(k)' = "detachOk" => ok
        /\ \A k \in Leases : Pc(k)' = "detachFailed" => ~ok
    BY <1>1, <1>4, <1>5 DEF Settled
  <2>2. ok => ~serverAttached
    BY <1>6 DEF ok, LeasesInv, ServerSound
  <2>3. ~ok => strayed
    BY <1>1, <1>6 DEF ok, LeasesInv, ServerSound
  <2>4. /\ serverAttached /\ ~strayed => Counted # {} /\ attached
    BY <1>6 DEF LeasesInv, ServerSound
  <2> QED BY <1>1, <1>6, <1>7, <1>8, <2>1, <2>2, <2>3, <2>4, LeaseAssumption DEF ServerSound
<1> QED BY <1>7, <1>9, <1>10, <1>11, <1>12, <1>13 DEF LeasesInv

(* A snapshot of the session arrives.                                       *)
LEMMA ReceiveSnapshotKeeps ==
  ASSUME LeasesInv, ReceiveSnapshot
  PROVE  LeasesInv'
<1>1. /\ connected /\ serverAttached /\ attached' = TRUE
      /\ UNCHANGED <<lease, leaseCount, exclusiveLease, generation, cleanupRequired, reconciliation,
                     detachment, attachment, inFlight, connected, serverAttached, strayed>>
      /\ \A k \in Leases : Pc(k) \notin Settled
  BY DEF ReceiveSnapshot, AllSettled, Pc, countingVars, requestVars, serverVars
<1>2. /\ LeasesTyped /\ OthersTyped /\ lease \in [Leases -> LeaseRecord]
  BY InvTyped
<1>3. OthersTyped'
  BY <1>1, <1>2 DEF OthersTyped
<1>4. \A k \in Leases : /\ Pc(k)' = Pc(k)
                        /\ lease'[k].mode = lease[k].mode
                        /\ lease'[k].generation = lease[k].generation
  BY <1>1 DEF Pc
<1>5. /\ LeasesTyped' /\ CountSound' /\ Counted' = Counted
      /\ \A k \in Leases : Current(k)' <=> Current(k)
  BY <1>1, <1>2, <1>3, <1>4, CountStays
<1>6. LostSound' BY <1>1 DEF LostSound
<1>7. RequestsSound'
  BY <1>1, <1>4 DEF LeasesInv, RequestsSound
<1>8. DetachmentSound'
  BY <1>1, <1>5 DEF LeasesInv, DetachmentSound, Pc
<1>9. CleanupSound'
  <2>1. Counted \subseteq Leases BY DEF Counted
  <2> QED BY <1>1, <1>4, <1>5, <2>1 DEF LeasesInv, CleanupSound, Settled
<1>10. ServerSound'
  BY <1>1, <1>4, <1>5 DEF LeasesInv, ServerSound
<1> QED BY <1>5, <1>6, <1>7, <1>8, <1>9, <1>10 DEF LeasesInv

(* A new connection begins with nothing attached.                           *)
LEMMA ReconnectKeeps ==
  ASSUME LeasesInv, Reconnect
  PROVE  LeasesInv'
<1>1. /\ ~connected /\ connected' = TRUE
      /\ UNCHANGED <<lease, leaseCount, exclusiveLease, generation, attached, cleanupRequired,
                     reconciliation, detachment, attachment, inFlight, serverAttached, strayed>>
      /\ \A k \in Leases : Pc(k) \notin Settled
  BY DEF Reconnect, AllSettled, Pc, countingVars, requestVars
<1>2. /\ LeasesTyped /\ OthersTyped /\ CountsTyped /\ lease \in [Leases -> LeaseRecord]
  BY InvTyped
<1>3. /\ ~attached /\ ~serverAttached /\ ~cleanupRequired /\ detachment = NoLease
      /\ \A r \in Requests : inFlight[r] = "none"
      /\ \A k \in Leases : /\ Pc(k) \in {"none", "active"}
                           /\ Pc(k) = "active" => ~Current(k)
  <2>1. /\ ~attached /\ ~serverAttached /\ ~cleanupRequired
        /\ \A r \in Requests : inFlight[r] = "none"
        /\ detachment # NoLease => Pc(detachment) = "detachFailed"
        /\ \A k \in Leases : /\ Pc(k) \in {"none", "active"}
                             /\ Pc(k) = "active" => ~Current(k)
    BY <1>1 DEF LeasesInv, LostSound, Settled
  <2>2. detachment = NoLease
    BY <1>2, <2>1 DEF OthersTyped
  <2> QED BY <2>1, <2>2
<1>4. Counted = {} /\ Counted' = {}
  BY <1>1, <1>3 DEF Counted, Acquiring, Detaching, Pc, Current
<1>5. OthersTyped' /\ LeasesTyped'
  BY <1>1, <1>2 DEF OthersTyped, LeasesTyped, LeaseTypeOK
<1>6. CountSound'
  <2>1. leaseCount = 0
    BY <1>2, <1>4, CountedIsFinite DEF LeasesInv, CountSound, CountsTyped
  <2>2. exclusiveLease = NoLease
    BY <1>4 DEF LeasesInv, CountSound
  <2> QED BY <1>1, <1>4, <2>1, <2>2, CountedIsFinite DEF CountSound
<1>7. \A k \in Leases : Pc(k)' = Pc(k)
  BY <1>1 DEF Pc
<1>8. LostSound' BY <1>1 DEF LostSound
<1>9. RequestsSound'
  BY <1>1, <1>7 DEF LeasesInv, RequestsSound
<1>10. DetachmentSound'
  BY <1>1, <1>3, <1>7 DEF DetachmentSound, Detaching
<1>11. CleanupSound'
  BY <1>1, <1>3, <1>4, <1>7 DEF CleanupSound
<1>12. ServerSound'
  <2>1. \A r \in Leases \cup {"attach", "reconcile"} : inFlight'[r] = "none"
    BY <1>1, <1>3 DEF Requests
  <2> QED BY <1>1, <1>3, <1>4, <1>7, <2>1 DEF ServerSound
<1> QED BY <1>5, <1>6, <1>8, <1>9, <1>10, <1>11, <1>12 DEF LeasesInv

(* With the connection all that is under way fails.                         *)
LEMMA LoseConnectionKeeps ==
  ASSUME LeasesInv, LoseConnection
  PROVE  LeasesInv'
<1>1. /\ connected /\ generation < MaxDisconnects /\ ~connected' /\ connected' = FALSE
      /\ serverAttached' = FALSE /\ attached' = FALSE /\ leaseCount' = 0
      /\ exclusiveLease' = NoLease /\ cleanupRequired' = FALSE /\ strayed' = FALSE
      /\ generation' = IF leaseCount > 0 THEN generation + 1 ELSE generation
      /\ attachment' = IF attachment = "pending" THEN "failed" ELSE attachment
      /\ reconciliation' = FALSE /\ inFlight' = [r \in Requests |-> "none"]
      /\ detachment' = detachment
      /\ \A k \in Leases : Pc(k) \notin Settled
  BY DEF LoseConnection, AllSettled, Pc
<1>2. /\ LeasesTyped /\ OthersTyped /\ CountsTyped /\ lease \in [Leases -> LeaseRecord]
      /\ generation \in 0..MaxDisconnects
  BY InvTyped
<1> DEFINE Pcs == {"none", "active"} \cup Settled \cup Waiting
           failed == [reconcile |-> "reconcileFailed", attach |-> "attachFailed",
                      detach |-> "detachFailed", awaitDetachment |-> "detachmentOver"]
<1>3. /\ failed["reconcile"] = "reconcileFailed" /\ failed["attach"] = "attachFailed"
      /\ failed["detach"] = "detachFailed" /\ failed["awaitDetachment"] = "detachmentOver"
  OBVIOUS
<1>4. lease' = [k \in Leases |-> IF lease[k].pc \in Waiting
                                THEN [lease[k] EXCEPT !.pc = failed[lease[k].pc]] ELSE lease[k]]
  BY DEF LoseConnection
<1> HIDE DEF failed
<1>5. ASSUME NEW k \in Leases
      PROVE  /\ lease'[k] \in LeaseRecord /\ lease'[k].mode = lease[k].mode
             /\ lease'[k].generation = lease[k].generation
             /\ Pc(k) \in Waiting => Pc(k)' = failed[Pc(k)]
             /\ Pc(k) \notin Waiting => Pc(k)' = Pc(k)
  <2>1. LeaseRecord = [pc : Pcs, mode : {"exclusive", "shared"},
                       generation : 0..MaxDisconnects, relinquish : BOOLEAN]
    BY DEF LeaseRecord
  <2>2. lease[k] \in LeaseRecord BY <1>2
  <2>3. CASE lease[k].pc \in Waiting
    <3>1. failed[lease[k].pc] \in Pcs
      BY <1>3, <2>3 DEF Waiting, Settled
    <3>2. lease'[k] = [lease[k] EXCEPT !.pc = failed[lease[k].pc]]
      BY <1>4, <2>3
    <3> HIDE DEF Pcs
    <3> QED BY <2>1, <2>2, <2>3, <3>1, <3>2 DEF Pc
  <2>4. CASE lease[k].pc \notin Waiting
    BY <1>4, <2>2, <2>4 DEF Pc
  <2> QED BY <2>3, <2>4
<1>6. \A k \in Leases :
        /\ Pc(k) = "reconcile" => Pc(k)' = "reconcileFailed"
        /\ Pc(k) = "attach" => Pc(k)' = "attachFailed"
        /\ Pc(k) = "detach" => Pc(k)' = "detachFailed"
        /\ Pc(k) = "awaitDetachment" => Pc(k)' = "detachmentOver"
        /\ Pc(k) \in {"none", "active"} => Pc(k)' = Pc(k)
        /\ Pc(k) \in Waiting \cup {"none", "active"}
  <2>1. \A k \in Leases : Pc(k) \in Pcs
    BY <1>2 DEF Pc, LeaseRecord
  <2> QED BY <1>1, <1>3, <1>5, <2>1 DEF Waiting
<1>7. \A k \in Leases : Pc(k) \in {"active", "detach"} => ~Current(k)'
  <2> SUFFICES ASSUME NEW k \in Leases, Pc(k) \in {"active", "detach"} PROVE ~Current(k)'
    OBVIOUS
  <2>1. lease[k].generation \in 0..MaxDisconnects /\ lease[k].generation <= generation
    BY <1>2 DEF LeasesTyped, LeaseTypeOK, LeaseRecord
  <2>2. CASE Current(k)
    <3>1. k \in Counted
      BY <2>2 DEF Counted, Detaching
    <3>2. leaseCount > 0
      BY <1>1, <1>2, <3>1, CountedIsFinite DEF LeasesInv, CountSound, CountsTyped
    <3> QED BY <1>1, <1>2, <1>5, <2>1, <3>2 DEF Current
  <2>3. CASE ~Current(k)
    BY <1>1, <1>2, <1>5, <2>1, <2>3 DEF Current
  <2> QED BY <2>2, <2>3
<1>8. OthersTyped'
  BY <1>1, <1>2 DEF OthersTyped, Progresses
<1>9. LeasesTyped'
  <2>1. generation' \in 0..MaxDisconnects /\ generation <= generation'
    BY <1>1, <1>2, LeaseAssumption
  <2>2. leaseCount' \in 0..Cardinality(Leases) /\ exclusiveLease' \in Leases \cup {NoLease}
    BY <1>1, CountedIsFinite
  <2>3. lease' \in [Leases -> LeaseRecord]
    BY <1>4, <1>5
  <2>4. \A k \in Leases : lease'[k].generation <= generation'
    BY <1>2, <1>5, <2>1 DEF LeasesTyped, LeaseTypeOK, LeaseRecord
  <2> QED BY <1>8, <2>1, <2>2, <2>3, <2>4 DEF LeasesTyped, LeaseTypeOK, OthersTyped
<1>10. CountSound'
  <2>1. Cardinality(Counted') \in Nat
    BY OneMoreOrLess, CountedIsFinite DEF Counted
  <2> QED BY <1>1, <2>1 DEF CountSound
<1>11. detachment' # NoLease => Pc(detachment) = "detach" /\ detachment \in Leases
  BY <1>1, <1>2, <1>6 DEF LeasesInv, DetachmentSound, Detaching, OthersTyped, Settled
<1>12. LostSound'
  <2>1. attachment' \in {"none", "failed"}
    BY <1>1, <1>2 DEF LeasesInv, RequestsSound, OthersTyped, Settled
  <2>2. detachment' # NoLease => \E d \in Leases : d = detachment' /\ Pc(d)' = "detachFailed"
    BY <1>1, <1>6, <1>11
  <2>3. \A k \in Leases :
          /\ Pc(k)' \in {"none", "active", "detachmentOver", "reconcileFailed", "attachFailed",
                         "detachFailed"}
          /\ Pc(k)' \in {"active", "detachFailed"} => ~Current(k)'
    BY <1>6, <1>7 DEF Waiting
  <2> QED BY <1>1, <2>1, <2>2, <2>3 DEF LostSound
<1>13. RequestsSound'
  <2>1. \A k \in Leases : Pc(k)' \notin {"attach", "reconcile", "detach", "attachOk"}
    BY <1>6 DEF Waiting
  <2>2. attachment' # "pending" /\ attachment' # "ok"
    BY <1>1, <1>2 DEF LeasesInv, RequestsSound, OthersTyped, Settled
  <2>3. attachment' = "failed" => \E k \in Leases : Pc(k)' = "attachFailed"
    BY <1>1, <1>2, <1>6 DEF LeasesInv, RequestsSound, OthersTyped, Settled
  <2>4. \A r \in Leases \cup {"attach", "reconcile"} : inFlight'[r] = "none"
    BY <1>1 DEF Requests
  <2> QED BY <1>1, <2>1, <2>2, <2>3, <2>4 DEF RequestsSound
<1>14. DetachmentSound'
  <2>1. \A k \in Leases : /\ Pc(k)' \in Detaching => Pc(k) = "detach" /\ Pc(k)' = "detachFailed"
                          /\ Pc(k)' # "awaitDetachment"
    BY <1>6 DEF Detaching, Waiting
  <2>2. ASSUME NEW k \in Leases, Pc(k) = "detach"
        PROVE  /\ detachment' = k
               /\ \A j \in Counted' \ {k} : Pc(j)' = "detachmentOver"
    <3>1. /\ detachment = k
          /\ \A j \in Counted \ {k} : Pc(j) = "awaitDetachment"
      BY <2>2 DEF LeasesInv, DetachmentSound, Detaching
    <3>2. \A j \in Leases : j \in Counted' => Pc(j)' \in Acquiring /\ Pc(j) \in Acquiring
      BY <1>6, <1>7, <2>1 DEF Counted, Acquiring, Waiting, Detaching
    <3>3. \A j \in Counted' : j \in Leases /\ j \in Counted
      BY <3>2 DEF Counted
    <3> QED BY <1>1, <1>6, <3>1, <3>3
  <2>3. detachment' # NoLease => \E d \in Leases : d = detachment' /\ Pc(d)' \in Detaching
    BY <1>1, <1>6, <1>11 DEF Detaching
  <2> QED BY <1>1, <2>1, <2>2, <2>3 DEF DetachmentSound
<1>15. CleanupSound'
  <2>1. \A k \in Leases : Pc(k)' \notin {"reconcile", "attachOk"}
    BY <1>6 DEF Waiting
  <2> QED BY <1>1, <2>1 DEF CleanupSound
<1>16. ServerSound' BY <1>1 DEF ServerSound
<1> QED BY <1>9, <1>10, <1>12, <1>13, <1>14, <1>15, <1>16 DEF LeasesInv

-----------------------------------------------------------------------------
(* No lease, no connection: the invariant holds.                            *)
LEMMA LeasesStart ==
  ASSUME LeaseInit
  PROVE  LeasesInv
<1>1. /\ \A l \in Leases : Pc(l) = "none" /\ lease[l].generation = 0
      /\ lease \in [Leases -> LeaseRecord]
  BY LeaseAssumption DEF LeaseInit, FreeLease, LeaseRecord, Pc
<1>2. Counted = {}
  BY <1>1 DEF Counted, Acquiring, Detaching
<1>3. LeasesTyped
  <2>1. OthersTyped
    BY DEF LeaseInit, OthersTyped, Progresses
  <2>2. leaseCount \in 0..Cardinality(Leases) /\ exclusiveLease \in Leases \cup {NoLease}
    BY CountedIsFinite DEF LeaseInit
  <2>3. generation = 0 /\ generation \in 0..MaxDisconnects
    BY LeaseAssumption DEF LeaseInit
  <2> QED BY <1>1, <2>1, <2>2, <2>3 DEF OthersTyped, LeasesTyped, LeaseTypeOK
<1>4. CountSound
  BY <1>2, CountedIsFinite DEF LeaseInit, CountSound
<1>5. LostSound BY DEF LeaseInit, LostSound
<1>6. RequestsSound
  BY <1>1 DEF LeaseInit, RequestsSound, Requests
<1>7. DetachmentSound /\ CleanupSound
  BY <1>1, <1>2 DEF LeaseInit, DetachmentSound, CleanupSound, Detaching
<1>8. ServerSound
  BY <1>1 DEF LeaseInit, ServerSound, Requests
<1> QED BY <1>3, <1>4, <1>5, <1>6, <1>7, <1>8 DEF LeasesInv

(* Every step of the leases keeps the invariant.                            *)
LEMMA LeasesStep ==
  ASSUME LeasesInv, [LeaseNext]_leaseVars
  PROVE  LeasesInv'
<1>1. CASE UNCHANGED leaseVars
  <2>1. UNCHANGED <<lease, leaseCount, exclusiveLease, generation, attached, cleanupRequired,
                    detachment, attachment, reconciliation, inFlight, connected,
                    serverAttached, strayed>>
    BY <1>1 DEF leaseVars
  <2>2. LeasesTyped' /\ Counted' = Counted
    BY <2>1 DEF LeasesInv, LeasesTyped, LeaseTypeOK, Counted, Pc, Current
  <2>3. CountSound' BY <2>1, <2>2 DEF LeasesInv, CountSound
  <2>4. LostSound' BY <2>1 DEF LeasesInv, LostSound, Pc, Current
  <2>5. RequestsSound' BY <2>1 DEF LeasesInv, RequestsSound, Pc
  <2>6. DetachmentSound' BY <2>1, <2>2 DEF LeasesInv, DetachmentSound, Pc, Current
  <2>7. CleanupSound' BY <2>1, <2>2 DEF LeasesInv, CleanupSound, Pc
  <2>8. ServerSound' BY <2>1, <2>2 DEF LeasesInv, ServerSound, Pc
  <2> QED BY <2>2, <2>3, <2>4, <2>5, <2>6, <2>7, <2>8 DEF LeasesInv
<1>2. CASE \E l \in Leases : \E mode \in {"exclusive", "shared"} : AcquireSession(l, mode)
  BY <1>2, AcquireKeeps
<1>3. CASE \E l \in Leases : \E relinquishOnFailure \in BOOLEAN : Release(l, relinquishOnFailure)
  BY <1>3, ReleaseKeeps
<1>4. CASE \E l \in Leases : Forget(l)
  BY <1>4, ForgetKeeps
<1>5. CASE \E l \in Leases : Continue(l)
  BY <1>5, DetachmentOverKeeps, ReconciledKeeps, AttachmentOverKeeps, AcquireFailsKeeps,
     ReleaseOverKeeps DEF Continue
<1>6. CASE \E r \in Requests : Answer(r)
  BY <1>6, ServerHandlesKeeps, ReceiveAttachedKeeps, ReceiveReconciledKeeps,
     ReceiveDetachedKeeps DEF Answer
<1>7. CASE ReceiveSnapshot \/ LoseConnection \/ Reconnect
  BY <1>7, ReceiveSnapshotKeeps, LoseConnectionKeeps, ReconnectKeeps
<1> QED BY <1>1, <1>2, <1>3, <1>4, <1>5, <1>6, <1>7 DEF LeaseNext

(* The count, the requests under way and what the server was told always    *)
(* agree (acquire, release and reconnect of packages/client).               *)
THEOREM LeasesInvariant == LeaseSpec => []LeasesInv
<1>1. LeaseInit => LeasesInv BY LeasesStart
<1>2. LeasesInv /\ [LeaseNext]_leaseVars => LeasesInv' BY LeasesStep
<1> QED BY <1>1, <1>2, PTL DEF LeaseSpec

(* Leases, requests and the connection keep their types (ClientLeases).     *)
THEOREM LeaseTypeCorrect == LeaseSpec => []LeaseTypeOK
<1>1. LeasesInv => LeaseTypeOK BY DEF LeasesInv, LeasesTyped
<1> QED BY <1>1, LeasesInvariant, PTL

(* However acquires, releases, answers and lost connections of any number of*)
(* leases of a session interleave: an exclusive lease is alone, the session *)
(* is not attached while it is being detached, an active lease is attached  *)
(* at the server, and no attachment is left without a lease (session leases *)
(* of packages/client/src/connection.ts).                                   *)
THEOREM AttachmentsAlwaysAgree == LeaseSpec => []AttachmentsAgree
<1>1. LeasesInv => AttachmentsAgree
  <2> SUFFICES ASSUME LeasesInv PROVE AttachmentsAgree OBVIOUS
  <2>1. ASSUME NEW l \in Leases, IsActive(l)
        PROVE  connected /\ attached /\ l \in Counted /\ Pc(l) = "active"
    <3>1. attached /\ Pc(l) = "active" /\ Current(l)
      BY <2>1 DEF IsActive, Pc, Current
    <3>2. connected BY <3>1 DEF LeasesInv, LostSound
    <3> QED BY <3>1, <3>2 DEF Counted
  <2>2. ExclusiveIsAlone
    <3> SUFFICES ASSUME NEW l \in Leases, NEW k \in Leases, l # k, IsActive(l), IsActive(k)
                 PROVE  lease[l].mode # "exclusive"
      BY InvTyped DEF ExclusiveIsAlone
    <3>1. connected /\ l \in Counted /\ k \in Counted BY <2>1
    <3> QED BY <3>1, LeaseAssumption DEF LeasesInv, CountSound
  <2>3. NoAttachWhileDetaching
    BY OneRequest DEF NoAttachWhileDetaching, Requests
  <2>4. ActiveIsAttached
    <3> SUFFICES ASSUME NEW l \in Leases, IsActive(l), ~strayed PROVE serverAttached
      BY DEF ActiveIsAttached
    <3>1. connected /\ attached /\ l \in Counted /\ Pc(l) = "active" BY <2>1
    <3>2. ~cleanupRequired BY <3>1 DEF LeasesInv, CleanupSound
    <3>3. detachment = NoLease BY <3>1, NobodyDetaches DEF Detaching
    <3> QED BY <3>1, <3>2, <3>3 DEF LeasesInv, ServerSound
  <2>5. NoAttachmentLeaks
    <3> SUFFICES ASSUME connected, serverAttached, ~strayed, ~cleanupRequired,
                        \A l \in Leases : lease[l].pc \in {"none", "active"}
                 PROVE  \E l \in Leases : lease[l].pc = "active" /\ lease[l].generation = generation
      BY DEF NoAttachmentLeaks
    <3>1. Counted # {} BY DEF LeasesInv, ServerSound
    <3> QED BY <3>1 DEF Counted, Acquiring, Detaching, Pc, Current
  <2> QED BY <2>2, <2>3, <2>4, <2>5 DEF AttachmentsAgree
<1> QED BY <1>1, LeasesInvariant, PTL

-----------------------------------------------------------------------------
(* ServerSnapshots: the list of sessions.                                  *)

Stage(c) == clientStage[c]
Early(c) == Stage(c) \in {"away", "awaitingHello", "handshaking"}

(* Disconnects that were announced.                                        *)
Gone == {c \in handshakeComplete : Stage(c) = "closed"}

(* Each revision answers a change or a disconnect of its own.              *)
RevisionsCounted ==
  pubRevision + pubQueue + unannounced <= changes + Cardinality(Gone)

RevisionsBounded ==
  /\ \A c \in Clients : handshake[c].revision <= pubRevision /\ shown[c].revision <= pubRevision
  /\ job.pc # "idle" => job.revision = pubRevision

(* A client that is not ready yet was told its hello at most.              *)
EarlySound ==
  \A c \in Clients :
    /\ c \in handshakeComplete => ~Early(c)
    /\ Stage(c) \in {"away", "awaitingHello"} => handshake[c].pc = "none"
    /\ Early(c) => /\ job.pc = "idle" \/ c \notin job.targets
                   /\ handshake[c].pc \notin {"catchUp", "catchUpSend"}
                   /\ handshake[c].pc # "sent" => shown[c].revision = -1
    /\ handshake[c].pc = "sent" /\ Early(c) => shown[c].revision = handshake[c].revision

(* With every change announced and broadcast, what is read or shown under   *)
(* the last revision is the list as it is.                                 *)
LastRevisionFresh ==
  ~skipped /\ unannounced = 0 /\ pubQueue = 0 =>
    /\ job.pc = "send" => job.list = changes
    /\ \A c \in Clients :
         /\ handshake[c].pc \in {"send", "sent", "catchUpSend"} /\ handshake[c].revision = pubRevision
              => handshake[c].list = changes
         /\ shown[c].revision = pubRevision => shown[c].list = changes

(* The last revision reaches every ready client.                           *)
LastRevisionArrives ==
  ~skipped =>
    \A c \in ReadyClients :
      \/ shown[c].revision = pubRevision
      \/ job.pc # "idle" /\ c \in job.targets
      \/ handshake[c].pc \in {"catchUp", "catchUpSend"} /\ handshake[c].revision = pubRevision

SnapshotsInv ==
  /\ PublishTypeOK /\ RevisionsCounted /\ RevisionsBounded /\ EarlySound
  /\ LastRevisionFresh /\ LastRevisionArrives

-----------------------------------------------------------------------------
(* What the types say of the counters: Gone has at most as many members as  *)
(* there are clients.                                                       *)
LEMMA Numbers ==
  ASSUME PublishTypeOK
  PROVE  /\ MaxChanges \in Nat /\ MaxFailures \in Nat /\ MaxRevisions \in Nat
         /\ Gone \subseteq Clients /\ IsFiniteSet(Gone) /\ Cardinality(Gone) \in Nat
         /\ changes + Cardinality(Gone) <= MaxRevisions
         /\ changes \in Nat /\ unannounced \in Nat /\ pubQueue \in Nat /\ pubRevision \in Nat
         /\ \A c \in Clients :
              /\ handshake[c] \in Handshake /\ handshake[c].revision \in Nat
              /\ shown[c] \in Snapshot /\ shown[c].revision \in Int
              /\ Stage(c) \in Stages
<1>1. /\ MaxChanges \in Nat /\ MaxFailures \in Nat /\ Cardinality(Clients) \in Nat
      /\ MaxRevisions \in Nat /\ MaxRevisions = MaxChanges + Cardinality(Clients)
  BY PublishAssumption, FS_CardinalityType DEF MaxRevisions
<1>2. Gone \subseteq Clients
  BY DEF Gone, PublishTypeOK
<1>3. IsFiniteSet(Gone) /\ Cardinality(Gone) <= Cardinality(Clients)
  BY <1>2, PublishAssumption, FS_Subset
<1>4. Cardinality(Gone) \in Nat
  BY <1>3, FS_CardinalityType
<1>5. changes \in 0..MaxChanges /\ unannounced \in Nat /\ pubQueue \in Nat /\ pubRevision \in Nat
  BY <1>1 DEF PublishTypeOK, Lists
<1>6. changes \in Nat /\ changes + Cardinality(Gone) <= MaxRevisions
  BY <1>1, <1>3, <1>4, <1>5
<1>7. ASSUME NEW c \in Clients
      PROVE  /\ handshake[c] \in Handshake /\ handshake[c].revision \in Nat
             /\ shown[c] \in Snapshot /\ shown[c].revision \in Int
             /\ Stage(c) \in Stages
  BY <1>1 DEF PublishTypeOK, Handshake, Snapshot, Stage
<1> QED BY <1>1, <1>2, <1>3, <1>4, <1>5, <1>6, <1>7

(* A step that keeps the counters natural and RevisionsCounted keeps their  *)
(* bounds.                                                                  *)
LEMMA RevisionsFit ==
  ASSUME PublishTypeOK, RevisionsCounted', changes' \in Lists, clientStage' \in [Clients -> Stages],
         handshakeComplete' \subseteq Clients, unannounced' \in Nat, pubQueue' \in Nat, pubRevision' \in Nat
  PROVE  /\ unannounced' \in 0..MaxRevisions /\ pubQueue' \in 0..MaxRevisions
         /\ pubRevision' \in 0..MaxRevisions
<1>1. /\ MaxChanges \in Nat /\ Cardinality(Clients) \in Nat
      /\ MaxRevisions = MaxChanges + Cardinality(Clients)
  BY PublishAssumption, FS_CardinalityType DEF MaxRevisions
<1>2. Gone' \subseteq Clients
  BY DEF Gone
<1>3. IsFiniteSet(Gone') /\ Cardinality(Gone') <= Cardinality(Clients)
  BY <1>2, PublishAssumption, FS_Subset
<1>4. Cardinality(Gone') \in Nat
  BY <1>3, FS_CardinalityType
<1>5. pubRevision' + pubQueue' + unannounced' <= changes' + Cardinality(Gone')
  BY DEF RevisionsCounted
<1>6. changes' \in 0..MaxChanges
  BY DEF Lists
<1> QED BY <1>1, <1>3, <1>4, <1>5, <1>6

(* applyServerSnapshot keeps what is shown unless the snapshot is as new.   *)
LEMMA Shows ==
  ASSUME PublishTypeOK, NEW c \in Clients, NEW rev \in 0..MaxRevisions, NEW list \in Lists,
         ShowSnapshot(c, rev, list)
  PROVE  /\ shown' \in [Clients -> Snapshot]
         /\ \A d \in Clients : d # c => shown'[d] = shown[d]
         /\ rev < shown[c].revision => shown'[c] = shown[c]
         /\ ~(rev < shown[c].revision) => shown'[c].revision = rev /\ shown'[c].list = list
<1>1. /\ shown \in [Clients -> Snapshot]
      /\ [revision |-> rev, list |-> list] \in Snapshot
  BY Numbers DEF PublishTypeOK, Snapshot
<1> QED BY <1>1 DEF ShowSnapshot

(* The step of a handshake changes that of its client alone.                *)
LEMMA HandshakeMoves ==
  ASSUME PublishTypeOK, NEW c \in Clients,
         NEW pc \in {"none", "list", "send", "sent", "catchUp", "catchUpSend"}
  PROVE  /\ \A rev \in 0..MaxRevisions :
              handshake' = [handshake EXCEPT ![c] = [pc |-> pc, revision |-> rev, list |-> 0]]
                => /\ handshake' \in [Clients -> Handshake]
                   /\ \A d \in Clients : d # c => handshake'[d] = handshake[d]
                   /\ handshake'[c].pc = pc /\ handshake'[c].revision = rev
         /\ handshake' = [handshake EXCEPT ![c] = NoHandshake]
              => /\ handshake' \in [Clients -> Handshake]
                 /\ \A d \in Clients : d # c => handshake'[d] = handshake[d]
                 /\ handshake'[c].pc = "none" /\ handshake'[c].revision = 0
         /\ handshake' = [handshake EXCEPT ![c].pc = pc]
              => /\ handshake' \in [Clients -> Handshake]
                 /\ \A d \in Clients : d # c => handshake'[d] = handshake[d]
                 /\ handshake'[c].pc = pc /\ handshake'[c].revision = handshake[c].revision
                 /\ handshake'[c].list = handshake[c].list
         /\ handshake' = [handshake EXCEPT ![c].pc = pc, ![c].list = changes]
              => /\ handshake' \in [Clients -> Handshake]
                 /\ \A d \in Clients : d # c => handshake'[d] = handshake[d]
                 /\ handshake'[c].pc = pc /\ handshake'[c].revision = handshake[c].revision
                 /\ handshake'[c].list = changes
<1> DEFINE Pcs == {"none", "list", "send", "sent", "catchUp", "catchUpSend"}
<1>1. /\ handshake \in [Clients -> Handshake] /\ handshake[c] \in Handshake
      /\ changes \in Lists /\ 0 \in Lists /\ 0 \in 0..MaxRevisions
      /\ Handshake = [pc : Pcs, revision : 0..MaxRevisions, list : Lists]
      /\ pc \in Pcs /\ "none" \in Pcs
  BY Numbers DEF PublishTypeOK, Handshake, Lists
<1> HIDE DEF Pcs
<1>2. ASSUME NEW rev \in 0..MaxRevisions,
             handshake' = [handshake EXCEPT ![c] = [pc |-> pc, revision |-> rev, list |-> 0]]
      PROVE  /\ handshake' \in [Clients -> Handshake]
             /\ \A d \in Clients : d # c => handshake'[d] = handshake[d]
             /\ handshake'[c].pc = pc /\ handshake'[c].revision = rev
  <2>1. [pc |-> pc, revision |-> rev, list |-> 0] \in Handshake BY <1>1
  <2> QED BY <1>1, <1>2, <2>1
<1>3. ASSUME handshake' = [handshake EXCEPT ![c] = NoHandshake]
      PROVE  /\ handshake' \in [Clients -> Handshake]
             /\ \A d \in Clients : d # c => handshake'[d] = handshake[d]
             /\ handshake'[c].pc = "none" /\ handshake'[c].revision = 0
  <2>1. NoHandshake \in Handshake /\ NoHandshake.pc = "none" /\ NoHandshake.revision = 0
    BY <1>1 DEF NoHandshake
  <2> QED BY <1>1, <1>3, <2>1
<1>4. ASSUME handshake' = [handshake EXCEPT ![c].pc = pc]
      PROVE  /\ handshake' \in [Clients -> Handshake]
             /\ \A d \in Clients : d # c => handshake'[d] = handshake[d]
             /\ handshake'[c].pc = pc /\ handshake'[c].revision = handshake[c].revision
             /\ handshake'[c].list = handshake[c].list
  BY <1>1, <1>4
<1>5. ASSUME handshake' = [handshake EXCEPT ![c].pc = pc, ![c].list = changes]
      PROVE  /\ handshake' \in [Clients -> Handshake]
             /\ \A d \in Clients : d # c => handshake'[d] = handshake[d]
             /\ handshake'[c].pc = pc /\ handshake'[c].revision = handshake[c].revision
             /\ handshake'[c].list = changes
  BY <1>1, <1>5
<1> QED BY <1>2, <1>3, <1>4, <1>5

(* A connection that fails or ends is neither early nor ready.             *)
LEMMA StageMoves ==
  ASSUME PublishTypeOK, NEW c \in Clients, NEW st \in Stages,
         clientStage' = [clientStage EXCEPT ![c] = st]
  PROVE  /\ clientStage' \in [Clients -> Stages]
         /\ \A d \in Clients : (Stage(d)' = IF d = c THEN st ELSE Stage(d))
         /\ \A d \in Clients : d # c => (Early(d)' <=> Early(d))
         /\ (st = "closed" <=> Stage(c) = "closed") /\ UNCHANGED handshakeComplete => Gone' = Gone
<1>1. /\ clientStage' \in [Clients -> Stages]
      /\ \A d \in Clients : (Stage(d)' = IF d = c THEN st ELSE Stage(d))
  BY DEF PublishTypeOK, Stage
<1>2. \A d \in Clients : d # c => (Early(d)' <=> Early(d))
  BY <1>1 DEF Early
<1>3. handshakeComplete \subseteq Clients BY DEF PublishTypeOK
<1>4. (st = "closed" <=> Stage(c) = "closed") /\ UNCHANGED handshakeComplete => Gone' = Gone
  BY <1>1, <1>3 DEF Gone
<1> QED BY <1>1, <1>2, <1>4

-----------------------------------------------------------------------------
(* A connection is accepted.                                                *)
LEMMA AcceptKeeps ==
  ASSUME SnapshotsInv, NEW c \in Clients, Accept(c)
  PROVE  SnapshotsInv'
<1>1. /\ PublishTypeOK /\ Stage(c) = "away" /\ "awaitingHello" \in Stages
      /\ clientStage' = [clientStage EXCEPT ![c] = "awaitingHello"]
      /\ UNCHANGED <<handshake, handshakeComplete, changes, unannounced, pubQueue, job,
                     pubRevision, shown, skipped, failures>>
  BY DEF SnapshotsInv, Accept, Stage, Stages, publishVars
<1>2. /\ clientStage' \in [Clients -> Stages]
      /\ \A d \in Clients : (Stage(d)' = IF d = c THEN "awaitingHello" ELSE Stage(d))
      /\ \A d \in Clients : Early(d)' <=> Early(d)
      /\ Gone' = Gone
  BY <1>1, StageMoves DEF Early
<1>3. ReadyClients' = ReadyClients
  BY <1>1, <1>2 DEF ReadyClients, Stage
<1>4. PublishTypeOK' BY <1>1, <1>2 DEF PublishTypeOK
<1>5. RevisionsCounted' BY <1>1, <1>2 DEF SnapshotsInv, RevisionsCounted
<1>6. RevisionsBounded' BY <1>1 DEF SnapshotsInv, RevisionsBounded
<1>7. EarlySound' BY <1>1, <1>2 DEF SnapshotsInv, EarlySound
<1>8. LastRevisionFresh' BY <1>1 DEF SnapshotsInv, LastRevisionFresh
<1>9. LastRevisionArrives' BY <1>1, <1>3 DEF SnapshotsInv, LastRevisionArrives
<1> QED BY <1>4, <1>5, <1>6, <1>7, <1>8, <1>9 DEF SnapshotsInv

(* The hello of a client notes the revision before the list is read.        *)
LEMMA HelloKeeps ==
  ASSUME SnapshotsInv, NEW c \in Clients, Hello(c)
  PROVE  SnapshotsInv'
<1>1. /\ PublishTypeOK /\ Stage(c) = "awaitingHello" /\ "handshaking" \in Stages
      /\ clientStage' = [clientStage EXCEPT ![c] = "handshaking"]
      /\ handshake' = [handshake EXCEPT ![c] = [pc |-> "list", revision |-> pubRevision, list |-> 0]]
      /\ pubRevision \in 0..MaxRevisions
      /\ UNCHANGED <<handshakeComplete, changes, unannounced, pubQueue, job,
                     pubRevision, shown, skipped, failures>>
  BY DEF SnapshotsInv, Hello, Stage, Stages, publishVars, PublishTypeOK
<1>2. /\ clientStage' \in [Clients -> Stages]
      /\ \A d \in Clients : (Stage(d)' = IF d = c THEN "handshaking" ELSE Stage(d))
      /\ \A d \in Clients : Early(d)' <=> Early(d)
      /\ Gone' = Gone
  BY <1>1, StageMoves DEF Early
<1>3. ReadyClients' = ReadyClients
  BY <1>1, <1>2 DEF ReadyClients, Stage
<1>a. /\ handshake' \in [Clients -> Handshake]
      /\ \A d \in Clients : d # c => handshake'[d] = handshake[d]
      /\ handshake'[c].pc = "list" /\ handshake'[c].revision = pubRevision
  BY <1>1, HandshakeMoves
<1>b. pubRevision \in Nat BY <1>1, Numbers
<1>4. PublishTypeOK' BY <1>1, <1>2, <1>a DEF PublishTypeOK
<1>5. RevisionsCounted' BY <1>1, <1>2 DEF SnapshotsInv, RevisionsCounted
<1>6. RevisionsBounded' BY <1>1, <1>a, <1>b DEF SnapshotsInv, RevisionsBounded
<1>7. EarlySound'
  <2>1. shown[c].revision = -1 BY <1>1 DEF SnapshotsInv, EarlySound, Early
  <2> QED BY <1>1, <1>2, <1>a, <2>1 DEF SnapshotsInv, EarlySound
<1>8. LastRevisionFresh' BY <1>1, <1>a DEF SnapshotsInv, LastRevisionFresh
<1>9. LastRevisionArrives'
  <2>1. c \notin ReadyClients BY <1>1 DEF ReadyClients, Stage
  <2> QED BY <1>1, <1>3, <1>a, <2>1 DEF SnapshotsInv, LastRevisionArrives, ReadyClients
<1> QED BY <1>4, <1>5, <1>6, <1>7, <1>8, <1>9 DEF SnapshotsInv

(* The list is read under a revision that was noted before.                 *)
LEMMA HandshakeListedKeeps ==
  ASSUME SnapshotsInv, NEW c \in Clients, HandshakeListed(c)
  PROVE  SnapshotsInv'
<1> DEFINE to == IF handshake[c].pc = "list" THEN "send" ELSE "catchUpSend"
<1>1. /\ PublishTypeOK /\ handshake[c].pc \in {"list", "catchUp"}
      /\ handshake' = [handshake EXCEPT ![c].pc = to, ![c].list = changes]
      /\ to \in {"send", "catchUpSend"}
      /\ UNCHANGED <<clientStage, handshakeComplete, changes, unannounced, pubQueue, job,
                     pubRevision, shown, skipped, failures>>
  BY DEF SnapshotsInv, HandshakeListed, publishVars, PublishTypeOK
<1>2. /\ \A d \in Clients : Stage(d)' = Stage(d) /\ (Early(d)' <=> Early(d))
      /\ Gone' = Gone /\ ReadyClients' = ReadyClients
  BY <1>1, SMTT(30) DEF Stage, Early, Gone, ReadyClients
<1>3. /\ handshake' \in [Clients -> Handshake]
      /\ \A d \in Clients : d # c => handshake'[d] = handshake[d]
      /\ handshake'[c].pc = to /\ handshake'[c].revision = handshake[c].revision
      /\ handshake'[c].list = changes
  <2> HIDE DEF to
  <2> QED BY <1>1, HandshakeMoves
<1>4. PublishTypeOK' BY <1>1, <1>3 DEF PublishTypeOK
<1>5. RevisionsCounted' BY <1>1, <1>2 DEF SnapshotsInv, RevisionsCounted
<1>6. RevisionsBounded' BY <1>1, <1>3 DEF SnapshotsInv, RevisionsBounded
<1>7. EarlySound' BY <1>1, <1>2, <1>3 DEF SnapshotsInv, EarlySound
<1>8. LastRevisionFresh' BY <1>1, <1>3 DEF SnapshotsInv, LastRevisionFresh
<1>9. LastRevisionArrives'
  <2>1. \A d \in Clients : handshake[d].pc \in {"catchUp", "catchUpSend"} =>
          handshake'[d].pc \in {"catchUp", "catchUpSend"} /\ handshake'[d].revision = handshake[d].revision
    BY <1>1, <1>3
  <2> QED BY <1>1, <1>2, <2>1 DEF SnapshotsInv, LastRevisionArrives, ReadyClients
<1> QED BY <1>4, <1>5, <1>6, <1>7, <1>8, <1>9 DEF SnapshotsInv

(* The hello of the server is shown.                                        *)
LEMMA HandshakeSendKeeps ==
  ASSUME SnapshotsInv, NEW c \in Clients, HandshakeSend(c)
  PROVE  SnapshotsInv'
<1>1. /\ PublishTypeOK /\ handshake[c].pc = "send"
      /\ UNCHANGED <<clientStage, handshakeComplete, changes, unannounced, pubQueue, job,
                     pubRevision, skipped, failures>>
  BY DEF SnapshotsInv, HandshakeSend, publishVars
<1>2. /\ \A d \in Clients : Stage(d)' = Stage(d) /\ (Early(d)' <=> Early(d))
      /\ Gone' = Gone /\ ReadyClients' = ReadyClients
  BY <1>1 DEF Stage, Early, Gone, ReadyClients
<1>3. RevisionsCounted' BY <1>1, <1>2 DEF SnapshotsInv, RevisionsCounted
<1>4. CASE Stage(c) = "handshaking"
  <2>1. /\ ShowSnapshot(c, handshake[c].revision, handshake[c].list)
        /\ handshake' = [handshake EXCEPT ![c].pc = "sent"]
    BY <1>4 DEF HandshakeSend, Stage
  <2>2. /\ handshake[c].revision \in 0..MaxRevisions /\ handshake[c].list \in Lists
        /\ handshake[c].revision \in Nat /\ pubRevision \in Nat
    BY <1>1, Numbers DEF Handshake
  <2>3. shown[c].revision = -1 /\ Early(c)
    BY <1>1, <1>4 DEF SnapshotsInv, EarlySound, Early
  <2>4. /\ shown' \in [Clients -> Snapshot]
        /\ \A d \in Clients : d # c => shown'[d] = shown[d]
        /\ shown'[c].revision = handshake[c].revision /\ shown'[c].list = handshake[c].list
    BY <1>1, <2>1, <2>2, <2>3, Shows, SMTT(30)
  <2>5. /\ handshake' \in [Clients -> Handshake]
        /\ \A d \in Clients : d # c => handshake'[d] = handshake[d]
        /\ handshake'[c].pc = "sent" /\ handshake'[c].revision = handshake[c].revision
        /\ handshake'[c].list = handshake[c].list
    BY <1>1, <2>1, HandshakeMoves
  <2>6. PublishTypeOK' BY <1>1, <2>4, <2>5 DEF PublishTypeOK
  <2>7. RevisionsBounded' BY <1>1, <2>4, <2>5 DEF SnapshotsInv, RevisionsBounded
  <2>8. EarlySound' BY <1>1, <1>2, <2>4, <2>5 DEF SnapshotsInv, EarlySound
  <2>9. LastRevisionFresh' BY <1>1, <2>4, <2>5 DEF SnapshotsInv, LastRevisionFresh
  <2>10. LastRevisionArrives'
    <3>1. c \notin ReadyClients BY <1>4 DEF ReadyClients, Stage
    <3> QED BY <1>1, <1>2, <2>4, <2>5, <3>1 DEF SnapshotsInv, LastRevisionArrives, ReadyClients
  <2> QED BY <1>3, <2>6, <2>7, <2>8, <2>9, <2>10 DEF SnapshotsInv
<1>5. CASE Stage(c) # "handshaking"
  <2>1. handshake' = [handshake EXCEPT ![c] = NoHandshake] /\ shown' = shown
    BY <1>5 DEF HandshakeSend, Stage
  <2>2. /\ handshake' \in [Clients -> Handshake]
        /\ \A d \in Clients : d # c => handshake'[d] = handshake[d]
        /\ handshake'[c].pc = "none" /\ handshake'[c].revision = 0
    BY <1>1, <2>1, HandshakeMoves
  <2>3. ~Early(c)
    BY <1>1, <1>5 DEF SnapshotsInv, EarlySound, Early
  <2>4. PublishTypeOK' BY <1>1, <2>1, <2>2 DEF PublishTypeOK
  <2>5. RevisionsBounded' BY <1>1, <2>1, <2>2, Numbers DEF SnapshotsInv, RevisionsBounded
  <2>6. EarlySound' BY <1>1, <1>2, <2>1, <2>2, <2>3 DEF SnapshotsInv, EarlySound, Early
  <2>7. LastRevisionFresh' BY <1>1, <2>1, <2>2 DEF SnapshotsInv, LastRevisionFresh
  <2>8. LastRevisionArrives'
    BY <1>1, <1>2, <2>1, <2>2 DEF SnapshotsInv, LastRevisionArrives, ReadyClients
  <2> QED BY <1>3, <2>4, <2>5, <2>6, <2>7, <2>8 DEF SnapshotsInv
<1> QED BY <1>4, <1>5

(* The client is ready: it shows the last revision or is caught up.         *)
LEMMA HandshakeSentKeeps ==
  ASSUME SnapshotsInv, NEW c \in Clients, HandshakeSent(c)
  PROVE  SnapshotsInv'
<1>1. /\ PublishTypeOK /\ handshake[c].pc = "sent" /\ handshakeComplete \subseteq Clients
      /\ UNCHANGED <<changes, unannounced, pubQueue, job, pubRevision, shown, skipped, failures>>
      /\ pubRevision \in 0..MaxRevisions
  BY DEF SnapshotsInv, HandshakeSent, publishVars, PublishTypeOK
<1>2. CASE Stage(c) = "handshaking"
  <2> DEFINE new == IF handshake[c].revision # pubRevision
                    THEN [pc |-> "catchUp", revision |-> pubRevision, list |-> 0]
                    ELSE NoHandshake
  <2>1. /\ clientStage' = [clientStage EXCEPT ![c] = "ready"]
        /\ handshakeComplete' = handshakeComplete \cup {c}
        /\ handshake' = [handshake EXCEPT ![c] = new]
    BY <1>2 DEF HandshakeSent, Stage
  <2>2. /\ clientStage' \in [Clients -> Stages]
        /\ \A d \in Clients : (Stage(d)' = IF d = c THEN "ready" ELSE Stage(d))
        /\ \A d \in Clients : d # c => (Early(d)' <=> Early(d))
    BY <1>1, <2>1, StageMoves DEF Stages
  <2>3. Gone' = Gone /\ ~Early(c)' /\ Early(c)
    BY <1>1, <1>2, <2>1, <2>2 DEF Gone, Early
  <2>4. /\ handshake' \in [Clients -> Handshake]
        /\ \A d \in Clients : d # c => handshake'[d] = handshake[d]
        /\ handshake'[c].pc \in {"none", "catchUp"}
        /\ handshake'[c].revision <= pubRevision
        /\ handshake[c].revision # pubRevision =>
             handshake'[c].pc = "catchUp" /\ handshake'[c].revision = pubRevision
    <3>1. pubRevision \in Nat BY <1>1, Numbers
    <3>2. CASE handshake[c].revision # pubRevision
      <4>1. handshake' = [handshake EXCEPT ![c] =
                            [pc |-> "catchUp", revision |-> pubRevision, list |-> 0]]
        BY <2>1, <3>2
      <4>2. /\ handshake' \in [Clients -> Handshake]
            /\ \A d \in Clients : d # c => handshake'[d] = handshake[d]
            /\ handshake'[c].pc = "catchUp" /\ handshake'[c].revision = pubRevision
        BY <1>1, <4>1, HandshakeMoves
      <4> QED BY <3>1, <3>2, <4>2
    <3>3. CASE handshake[c].revision = pubRevision
      <4>1. handshake' = [handshake EXCEPT ![c] = NoHandshake]
        BY <2>1, <3>3
      <4>2. /\ handshake' \in [Clients -> Handshake]
            /\ \A d \in Clients : d # c => handshake'[d] = handshake[d]
            /\ handshake'[c].pc = "none" /\ handshake'[c].revision = 0
        BY <1>1, <4>1, HandshakeMoves
      <4> QED BY <3>1, <3>3, <4>2
    <3> QED BY <3>2, <3>3
  <2>5. shown[c].revision = handshake[c].revision
    BY <1>1, <2>3 DEF SnapshotsInv, EarlySound
  <2>6. PublishTypeOK' BY <1>1, <2>1, <2>2, <2>4 DEF PublishTypeOK
  <2>7. RevisionsCounted' BY <1>1, <2>3 DEF SnapshotsInv, RevisionsCounted
  <2>8. RevisionsBounded' BY <1>1, <2>4 DEF SnapshotsInv, RevisionsBounded
  <2>9. EarlySound' BY <1>1, <2>1, <2>2, <2>3, <2>4 DEF SnapshotsInv, EarlySound
  <2>10. LastRevisionFresh' BY <1>1, <2>4 DEF SnapshotsInv, LastRevisionFresh
  <2>11. LastRevisionArrives'
    <3>1. \A d \in Clients : d # c => (d \in ReadyClients' <=> d \in ReadyClients)
      BY <2>2 DEF ReadyClients, Stage
    <3> QED BY <1>1, <2>4, <2>5, <3>1 DEF SnapshotsInv, LastRevisionArrives, ReadyClients
  <2> QED BY <2>6, <2>7, <2>8, <2>9, <2>10, <2>11 DEF SnapshotsInv
<1>3. CASE Stage(c) # "handshaking"
  <2>1. /\ handshake' = [handshake EXCEPT ![c] = NoHandshake]
        /\ UNCHANGED <<clientStage, handshakeComplete>>
    BY <1>3 DEF HandshakeSent, Stage
  <2>2. /\ \A d \in Clients : Stage(d)' = Stage(d) /\ (Early(d)' <=> Early(d))
        /\ Gone' = Gone /\ ReadyClients' = ReadyClients
    BY <2>1 DEF Stage, Early, Gone, ReadyClients
  <2>3. /\ handshake' \in [Clients -> Handshake]
        /\ \A d \in Clients : d # c => handshake'[d] = handshake[d]
        /\ handshake'[c].pc = "none" /\ handshake'[c].revision = 0
    BY <1>1, <2>1, HandshakeMoves
  <2>4. ~Early(c)
    BY <1>1, <1>3 DEF SnapshotsInv, EarlySound, Early
  <2>5. PublishTypeOK' BY <1>1, <2>1, <2>3 DEF PublishTypeOK
  <2>6. RevisionsCounted' BY <1>1, <2>2 DEF SnapshotsInv, RevisionsCounted
  <2>7. RevisionsBounded' BY <1>1, <2>3, Numbers DEF SnapshotsInv, RevisionsBounded
  <2>8. EarlySound' BY <1>1, <2>1, <2>2, <2>3, <2>4 DEF SnapshotsInv, EarlySound, Early
  <2>9. LastRevisionFresh' BY <1>1, <2>3 DEF SnapshotsInv, LastRevisionFresh
  <2>10. LastRevisionArrives'
    BY <1>1, <2>2, <2>3 DEF SnapshotsInv, LastRevisionArrives, ReadyClients
  <2> QED BY <2>5, <2>6, <2>7, <2>8, <2>9, <2>10 DEF SnapshotsInv
<1> QED BY <1>2, <1>3

(* The catch-up is shown, unless something newer is.                        *)
LEMMA CatchUpSendKeeps ==
  ASSUME SnapshotsInv, NEW c \in Clients, CatchUpSend(c)
  PROVE  SnapshotsInv'
<1>1. /\ PublishTypeOK /\ handshake[c].pc = "catchUpSend"
      /\ handshake' = [handshake EXCEPT ![c] = NoHandshake]
      /\ UNCHANGED <<clientStage, handshakeComplete, changes, unannounced, pubQueue, job,
                     pubRevision, skipped, failures>>
  BY DEF SnapshotsInv, CatchUpSend, publishVars
<1>2. /\ \A d \in Clients : Stage(d)' = Stage(d) /\ (Early(d)' <=> Early(d))
      /\ Gone' = Gone /\ ReadyClients' = ReadyClients
  BY <1>1 DEF Stage, Early, Gone, ReadyClients
<1>3. /\ handshake' \in [Clients -> Handshake]
      /\ \A d \in Clients : d # c => handshake'[d] = handshake[d]
      /\ handshake'[c].pc = "none" /\ handshake'[c].revision = 0
  BY <1>1, HandshakeMoves
<1>4. ~Early(c)
  BY <1>1 DEF SnapshotsInv, EarlySound
<1>5. /\ handshake[c].revision \in 0..MaxRevisions /\ handshake[c].list \in Lists
      /\ handshake[c].revision \in Nat /\ pubRevision \in Nat
      /\ shown[c].revision \in Int /\ shown[c].revision <= pubRevision
      /\ handshake[c].revision <= pubRevision
  BY <1>1, Numbers DEF Handshake, SnapshotsInv, RevisionsBounded
<1>6. /\ shown' \in [Clients -> Snapshot]
      /\ \A d \in Clients : d # c => shown'[d] = shown[d]
      /\ \/ shown'[c] = shown[c] /\ (Stage(c) = "closed" \/ handshake[c].revision < shown[c].revision)
         \/ /\ shown'[c].revision = handshake[c].revision /\ shown'[c].list = handshake[c].list
            /\ shown[c].revision <= handshake[c].revision
  <2>1. CASE Stage(c) = "closed"
    BY <1>1, <2>1 DEF CatchUpSend, Stage, PublishTypeOK
  <2>2. CASE Stage(c) # "closed"
    <3>1. ShowSnapshot(c, handshake[c].revision, handshake[c].list)
      BY <2>2 DEF CatchUpSend, Stage
    <3> QED BY <1>1, <1>5, <3>1, Shows
  <2> QED BY <2>1, <2>2
<1>7. PublishTypeOK' BY <1>1, <1>3, <1>6 DEF PublishTypeOK
<1>8. RevisionsCounted' BY <1>1, <1>2 DEF SnapshotsInv, RevisionsCounted
<1>9. RevisionsBounded' BY <1>1, <1>3, <1>5, <1>6 DEF SnapshotsInv, RevisionsBounded
<1>10. EarlySound' BY <1>1, <1>2, <1>3, <1>4, <1>6 DEF SnapshotsInv, EarlySound
<1>11. LastRevisionFresh' BY <1>1, <1>3, <1>6 DEF SnapshotsInv, LastRevisionFresh
<1>12. LastRevisionArrives'
  <2>1. c \in ReadyClients => Stage(c) # "closed" BY DEF ReadyClients, Stage
  <2>2. c \in ReadyClients /\ ~skipped =>
          shown'[c].revision = pubRevision \/ (job.pc # "idle" /\ c \in job.targets)
    BY <1>5, <1>6, <2>1 DEF SnapshotsInv, LastRevisionArrives
  <2> QED BY <1>1, <1>2, <1>3, <1>6, <2>2 DEF SnapshotsInv, LastRevisionArrives, ReadyClients
<1> QED BY <1>7, <1>8, <1>9, <1>10, <1>11, <1>12 DEF SnapshotsInv

(* What fails the connection of a client leaves the others as they are.    *)
LEMMA FailedKeeps ==
  ASSUME SnapshotsInv, NEW c \in Clients, FailProtocol(c), Stage(c) # "away",
         \/ UNCHANGED handshake /\ Early(c)
         \/ handshake' = [handshake EXCEPT ![c] = NoHandshake],
         failures' \in 0..MaxFailures,
         UNCHANGED <<handshakeComplete, changes, unannounced, publishVars, shown, skipped>>
  PROVE  SnapshotsInv'
<1> DEFINE st == IF Stage(c) \in {"closing", "closed"} THEN Stage(c) ELSE "closing"
<1>1. /\ PublishTypeOK /\ clientStage' = [clientStage EXCEPT ![c] = st]
      /\ st \in Stages /\ st \in {"closing", "closed"} /\ (st = "closed" <=> Stage(c) = "closed")
      /\ UNCHANGED <<handshakeComplete, changes, unannounced, pubQueue, job, pubRevision, shown, skipped>>
  BY Numbers DEF SnapshotsInv, FailProtocol, Stage, Stages, publishVars
<1> HIDE DEF st
<1>2. /\ clientStage' \in [Clients -> Stages]
      /\ \A d \in Clients : (Stage(d)' = IF d = c THEN st ELSE Stage(d))
      /\ \A d \in Clients : d # c => (Early(d)' <=> Early(d))
      /\ Gone' = Gone
  BY <1>1, StageMoves
<1>3. ~Early(c)' /\ ReadyClients' = ReadyClients \ {c}
  BY <1>1, <1>2 DEF Early, ReadyClients, Stage
<1>4. /\ handshake' \in [Clients -> Handshake]
      /\ \A d \in Clients : d # c => handshake'[d] = handshake[d]
      /\ handshake'[c] = handshake[c] \/ (handshake'[c].pc = "none" /\ handshake'[c].revision = 0)
  <2>1. CASE UNCHANGED handshake BY <1>1, <2>1 DEF PublishTypeOK
  <2>2. CASE handshake' = [handshake EXCEPT ![c] = NoHandshake] BY <1>1, <2>2, HandshakeMoves
  <2> QED BY <2>1, <2>2
<1>5. PublishTypeOK' BY <1>1, <1>2, <1>4 DEF PublishTypeOK
<1>6. RevisionsCounted' BY <1>1, <1>2 DEF SnapshotsInv, RevisionsCounted
<1>7. RevisionsBounded' BY <1>1, <1>4, Numbers DEF SnapshotsInv, RevisionsBounded
<1>8. EarlySound' BY <1>1, <1>2, <1>3, <1>4 DEF SnapshotsInv, EarlySound
<1>9. LastRevisionFresh' BY <1>1, <1>4 DEF SnapshotsInv, LastRevisionFresh
<1>10. LastRevisionArrives'
  BY <1>1, <1>3, <1>4 DEF SnapshotsInv, LastRevisionArrives, ReadyClients
<1> QED BY <1>5, <1>6, <1>7, <1>8, <1>9, <1>10 DEF SnapshotsInv

(* A handshake that fails closes the connection.                            *)
LEMMA HandshakeFailsKeeps ==
  ASSUME SnapshotsInv, NEW c \in Clients, HandshakeFails(c)
  PROVE  SnapshotsInv'
<1>1. /\ Stage(c) # "away" /\ FailProtocol(c) /\ handshake' = [handshake EXCEPT ![c] = NoHandshake]
      /\ UNCHANGED <<handshakeComplete, changes, unannounced, publishVars, shown, skipped>>
  BY DEF HandshakeFails, SnapshotsInv, EarlySound
<1>2. failures' \in 0..MaxFailures
  BY PublishAssumption DEF HandshakeFails, Fail, SnapshotsInv, PublishTypeOK
<1> QED BY <1>1, <1>2, FailedKeeps

(* So does an error of the protocol before the client is ready.             *)
LEMMA ProtocolErrorKeeps ==
  ASSUME SnapshotsInv, NEW c \in Clients, ProtocolError(c)
  PROVE  SnapshotsInv'
<1>1. /\ Stage(c) # "away" /\ FailProtocol(c) /\ UNCHANGED handshake /\ Early(c)
      /\ UNCHANGED <<handshakeComplete, changes, unannounced, publishVars, shown, skipped>>
  BY DEF ProtocolError, Stage, Early
<1>2. failures' \in 0..MaxFailures
  BY DEF ProtocolError, SnapshotsInv, PublishTypeOK
<1> QED BY <1>1, <1>2, FailedKeeps

(* The disconnect of a client whose handshake was complete is announced.    *)
LEMMA ClientDisconnectsKeeps ==
  ASSUME SnapshotsInv, NEW c \in Clients, ClientDisconnects(c)
  PROVE  SnapshotsInv'
<1>1. /\ PublishTypeOK /\ Stage(c) \notin {"away", "closed"}
      /\ clientStage' = [clientStage EXCEPT ![c] = "closed"] /\ "closed" \in Stages
      /\ unannounced' = unannounced + (IF c \in handshakeComplete THEN 1 ELSE 0)
      /\ handshakeComplete \subseteq Clients
      /\ UNCHANGED <<handshake, handshakeComplete, changes, pubQueue, job, pubRevision, shown,
                     skipped, failures>>
  BY DEF SnapshotsInv, ClientDisconnects, Stage, Stages, publishVars, PublishTypeOK
<1>2. /\ clientStage' \in [Clients -> Stages]
      /\ \A d \in Clients : (Stage(d)' = IF d = c THEN "closed" ELSE Stage(d))
      /\ \A d \in Clients : d # c => (Early(d)' <=> Early(d))
  BY <1>1, StageMoves
<1>3. ~Early(c)' /\ ReadyClients' = ReadyClients \ {c}
  BY <1>1, <1>2 DEF Early, ReadyClients, Stage
<1>4. Cardinality(Gone') = Cardinality(Gone) + (IF c \in handshakeComplete THEN 1 ELSE 0)
  <2>1. IsFiniteSet(Gone) /\ Cardinality(Gone) \in Nat BY <1>1, Numbers
  <2>2. CASE c \in handshakeComplete
    <3>1. Gone' = Gone \cup {c} /\ c \notin Gone
      BY <1>1, <1>2, <2>2 DEF Gone
    <3> QED BY <2>1, <2>2, <3>1, FS_AddElement
  <2>3. CASE c \notin handshakeComplete
    <3>1. Gone' = Gone
      BY <1>1, <1>2, <2>3 DEF Gone
    <3> QED BY <2>1, <2>3, <3>1
  <2> QED BY <2>2, <2>3
<1>5. RevisionsCounted'
  <2>1. /\ pubRevision \in Nat /\ pubQueue \in Nat /\ unannounced \in Nat /\ changes \in Nat
        /\ Cardinality(Gone) \in Nat
    BY <1>1, Numbers
  <2> QED BY <1>1, <1>4, <2>1 DEF SnapshotsInv, RevisionsCounted
<1>6. PublishTypeOK'
  <2>1. unannounced' \in Nat /\ pubQueue' \in Nat /\ pubRevision' \in Nat
    BY <1>1, Numbers
  <2>2. changes' \in Lists /\ handshakeComplete' \subseteq Clients BY <1>1 DEF PublishTypeOK
  <2>3. unannounced' \in 0..MaxRevisions
    BY <1>1, <1>2, <1>5, <2>1, <2>2, RevisionsFit
  <2> QED BY <1>1, <1>2, <2>3 DEF PublishTypeOK
<1>7. RevisionsBounded' BY <1>1 DEF SnapshotsInv, RevisionsBounded
<1>8. EarlySound' BY <1>1, <1>2, <1>3 DEF SnapshotsInv, EarlySound
<1>9. LastRevisionFresh'
  <2>1. unannounced' = 0 => unannounced = 0 BY <1>1, Numbers
  <2> QED BY <1>1, <2>1 DEF SnapshotsInv, LastRevisionFresh
<1>10. LastRevisionArrives'
  BY <1>1, <1>3 DEF SnapshotsInv, LastRevisionArrives
<1> QED BY <1>5, <1>6, <1>7, <1>8, <1>9, <1>10 DEF SnapshotsInv

(* A change of the list is not announced yet.                               *)
LEMMA ListChangesKeeps ==
  ASSUME SnapshotsInv, ListChanges
  PROVE  SnapshotsInv'
<1>1. /\ PublishTypeOK /\ changes' = changes + 1 /\ changes < MaxChanges
      /\ unannounced' = unannounced + 1
      /\ UNCHANGED <<clientStage, handshake, handshakeComplete, pubQueue, job, pubRevision,
                     shown, skipped, failures>>
  BY DEF SnapshotsInv, ListChanges, handshakeVars, publishVars
<1>2. /\ \A d \in Clients : Stage(d)' = Stage(d) /\ (Early(d)' <=> Early(d))
      /\ Gone' = Gone /\ ReadyClients' = ReadyClients
  BY <1>1 DEF Stage, Early, Gone, ReadyClients
<1>3. /\ pubRevision \in Nat /\ pubQueue \in Nat /\ unannounced \in Nat /\ changes \in Nat
      /\ Cardinality(Gone) \in Nat /\ MaxChanges \in Nat
  BY <1>1, Numbers
<1>4. RevisionsCounted'
  BY <1>1, <1>2, <1>3 DEF SnapshotsInv, RevisionsCounted
<1>5. PublishTypeOK'
  <2>1. changes' \in Lists BY <1>1, <1>3 DEF Lists
  <2>2. unannounced' \in Nat /\ pubQueue' \in Nat /\ pubRevision' \in Nat BY <1>1, <1>3
  <2>3. clientStage' \in [Clients -> Stages] /\ handshakeComplete' \subseteq Clients
    BY <1>1 DEF PublishTypeOK
  <2>4. unannounced' \in 0..MaxRevisions
    BY <1>1, <1>4, <2>1, <2>2, <2>3, RevisionsFit
  <2> QED BY <1>1, <2>1, <2>4 DEF PublishTypeOK
<1>6. RevisionsBounded' BY <1>1 DEF SnapshotsInv, RevisionsBounded
<1>7. EarlySound' BY <1>1, <1>2 DEF SnapshotsInv, EarlySound
<1>8. LastRevisionFresh' BY <1>1, <1>3 DEF LastRevisionFresh
<1>9. LastRevisionArrives' BY <1>1, <1>2 DEF SnapshotsInv, LastRevisionArrives
<1> QED BY <1>4, <1>5, <1>6, <1>7, <1>8, <1>9 DEF SnapshotsInv

(* An announcement queues a broadcast.                                      *)
LEMMA AnnounceKeeps ==
  ASSUME SnapshotsInv, Announce
  PROVE  SnapshotsInv'
<1>1. /\ PublishTypeOK /\ unannounced > 0 /\ unannounced' = unannounced - 1
      /\ pubQueue' = pubQueue + 1
      /\ UNCHANGED <<clientStage, handshake, handshakeComplete, changes, job, pubRevision,
                     shown, skipped, failures>>
  BY DEF SnapshotsInv, Announce, handshakeVars
<1>2. /\ \A d \in Clients : Stage(d)' = Stage(d) /\ (Early(d)' <=> Early(d))
      /\ Gone' = Gone /\ ReadyClients' = ReadyClients
  BY <1>1 DEF Stage, Early, Gone, ReadyClients
<1>3. /\ pubRevision \in Nat /\ pubQueue \in Nat /\ unannounced \in Nat /\ changes \in Nat
      /\ Cardinality(Gone) \in Nat
  BY <1>1, Numbers
<1>4. RevisionsCounted'
  BY <1>1, <1>2, <1>3 DEF SnapshotsInv, RevisionsCounted
<1>5. PublishTypeOK'
  <2>1. unannounced' \in Nat /\ pubQueue' \in Nat /\ pubRevision' \in Nat BY <1>1, <1>3
  <2>2. clientStage' \in [Clients -> Stages] /\ handshakeComplete' \subseteq Clients /\ changes' \in Lists
    BY <1>1 DEF PublishTypeOK
  <2>3. unannounced' \in 0..MaxRevisions /\ pubQueue' \in 0..MaxRevisions
    BY <1>1, <1>4, <2>1, <2>2, RevisionsFit
  <2> QED BY <1>1, <2>3 DEF PublishTypeOK
<1>6. RevisionsBounded' BY <1>1 DEF SnapshotsInv, RevisionsBounded
<1>7. EarlySound' BY <1>1, <1>2 DEF SnapshotsInv, EarlySound
<1>8. LastRevisionFresh' BY <1>1, <1>3 DEF LastRevisionFresh
<1>9. LastRevisionArrives' BY <1>1, <1>2 DEF SnapshotsInv, LastRevisionArrives
<1> QED BY <1>4, <1>5, <1>6, <1>7, <1>8, <1>9 DEF SnapshotsInv

(* A broadcast takes a new revision, which nothing has yet, and is to reach *)
(* all that are ready.                                                      *)
LEMMA PerformBroadcastKeeps ==
  ASSUME SnapshotsInv, PerformBroadcast
  PROVE  SnapshotsInv'
<1>1. /\ PublishTypeOK /\ pubQueue > 0 /\ job.pc = "idle" /\ pubQueue' = pubQueue - 1
      /\ UNCHANGED <<clientStage, handshake, handshakeComplete, changes, unannounced, shown, failures>>
  BY DEF SnapshotsInv, PerformBroadcast, handshakeVars
<1>2. /\ \A d \in Clients : Stage(d)' = Stage(d) /\ (Early(d)' <=> Early(d))
      /\ Gone' = Gone /\ ReadyClients' = ReadyClients
  BY <1>1 DEF Stage, Early, Gone, ReadyClients
<1>3. /\ pubRevision \in Nat /\ pubQueue \in Nat /\ unannounced \in Nat /\ changes \in Nat
      /\ Cardinality(Gone) \in Nat
      /\ \A d \in Clients : handshake[d].revision \in Nat /\ shown[d].revision \in Int
  BY <1>1, Numbers
<1>4. /\ clientStage' \in [Clients -> Stages] /\ handshakeComplete' \subseteq Clients /\ changes' \in Lists
      /\ unannounced' \in Nat /\ pubQueue' \in Nat
  BY <1>1, <1>3 DEF PublishTypeOK
<1>5. CASE skipped' = TRUE /\ UNCHANGED <<job, pubRevision>>
  <2>1. RevisionsCounted'
    BY <1>1, <1>2, <1>3, <1>5 DEF SnapshotsInv, RevisionsCounted
  <2>2. PublishTypeOK'
    <3>1. pubQueue' \in 0..MaxRevisions BY <1>1, <1>3, <1>4, <1>5, <2>1, RevisionsFit
    <3> QED BY <1>1, <1>5, <3>1 DEF PublishTypeOK
  <2>3. RevisionsBounded' BY <1>1, <1>5 DEF SnapshotsInv, RevisionsBounded
  <2>4. EarlySound' BY <1>1, <1>2, <1>5 DEF SnapshotsInv, EarlySound
  <2>5. LastRevisionFresh' /\ LastRevisionArrives' BY <1>5 DEF LastRevisionFresh, LastRevisionArrives
  <2> QED BY <2>1, <2>2, <2>3, <2>4, <2>5 DEF SnapshotsInv
<1>6. CASE /\ pubRevision' = pubRevision + 1
           /\ job' = [pc |-> "list", revision |-> pubRevision + 1, list |-> 0, targets |-> ReadyClients]
           /\ UNCHANGED skipped
  <2>1. RevisionsCounted'
    BY <1>1, <1>2, <1>3, <1>6 DEF SnapshotsInv, RevisionsCounted
  <2>2. PublishTypeOK'
    <3>1. pubRevision' \in Nat BY <1>3, <1>6
    <3>2. pubQueue' \in 0..MaxRevisions /\ pubRevision' \in 0..MaxRevisions
      BY <1>1, <1>4, <2>1, <3>1, RevisionsFit
    <3>3. 0 \in Lists /\ ReadyClients \in SUBSET Clients
      BY PublishAssumption DEF Lists, ReadyClients
    <3>4. job' \in Job BY <1>6, <3>2, <3>3 DEF Job
    <3> QED BY <1>1, <1>6, <3>2, <3>4 DEF PublishTypeOK
  <2>3. \A d \in Clients : handshake[d].revision < pubRevision' /\ shown[d].revision < pubRevision'
    BY <1>1, <1>3, <1>6 DEF SnapshotsInv, RevisionsBounded
  <2>4. RevisionsBounded' BY <1>1, <1>3, <1>6, <2>3 DEF RevisionsBounded
  <2>5. EarlySound'
    <3>1. \A d \in Clients : d \in job'.targets => ~Early(d)
      BY <1>6 DEF ReadyClients, Early, Stage
    <3> QED BY <1>1, <1>2, <3>1 DEF SnapshotsInv, EarlySound
  <2>6. LastRevisionFresh' BY <1>1, <1>3, <1>6, <2>3 DEF LastRevisionFresh
  <2>7. LastRevisionArrives' BY <1>2, <1>6 DEF LastRevisionArrives
  <2> QED BY <2>1, <2>2, <2>4, <2>5, <2>6, <2>7 DEF SnapshotsInv
<1> QED BY <1>5, <1>6 DEF PerformBroadcast

(* The list is read under the last revision.                                *)
LEMMA BroadcastListedKeeps ==
  ASSUME SnapshotsInv, BroadcastListed
  PROVE  SnapshotsInv'
<1>1. /\ PublishTypeOK /\ job.pc = "list" /\ job' = [job EXCEPT !.pc = "send", !.list = changes]
      /\ job \in Job /\ changes \in Lists
      /\ UNCHANGED <<clientStage, handshake, handshakeComplete, changes, unannounced, pubQueue,
                     pubRevision, shown, skipped, failures>>
  BY DEF SnapshotsInv, BroadcastListed, handshakeVars, PublishTypeOK
<1>2. /\ \A d \in Clients : Stage(d)' = Stage(d) /\ (Early(d)' <=> Early(d))
      /\ Gone' = Gone /\ ReadyClients' = ReadyClients
  BY <1>1 DEF Stage, Early, Gone, ReadyClients
<1>3. /\ job' \in Job /\ job'.pc = "send" /\ job'.list = changes
      /\ job'.revision = job.revision /\ job'.targets = job.targets
  BY <1>1 DEF Job
<1>4. PublishTypeOK' BY <1>1, <1>3 DEF PublishTypeOK
<1>5. RevisionsCounted' BY <1>1, <1>2 DEF SnapshotsInv, RevisionsCounted
<1>6. RevisionsBounded' BY <1>1, <1>3 DEF SnapshotsInv, RevisionsBounded
<1>7. EarlySound' BY <1>1, <1>2, <1>3 DEF SnapshotsInv, EarlySound
<1>8. LastRevisionFresh' BY <1>1, <1>3 DEF SnapshotsInv, LastRevisionFresh
<1>9. LastRevisionArrives' BY <1>1, <1>2, <1>3 DEF SnapshotsInv, LastRevisionArrives
<1> QED BY <1>4, <1>5, <1>6, <1>7, <1>8, <1>9 DEF SnapshotsInv

(* A broadcast that fails reaches nobody.                                   *)
LEMMA BroadcastFailsKeeps ==
  ASSUME SnapshotsInv, BroadcastFails
  PROVE  SnapshotsInv'
<1>1. /\ PublishTypeOK /\ job' = NoJob /\ skipped' = TRUE /\ failures' \in 0..MaxFailures
      /\ UNCHANGED <<clientStage, handshake, handshakeComplete, changes, unannounced, pubQueue,
                     pubRevision, shown>>
  BY PublishAssumption DEF SnapshotsInv, BroadcastFails, handshakeVars, PublishTypeOK, Fail
<1>2. /\ \A d \in Clients : Stage(d)' = Stage(d) /\ (Early(d)' <=> Early(d))
      /\ Gone' = Gone
  BY <1>1 DEF Stage, Early, Gone
<1>3. job' \in Job /\ job'.pc = "idle"
  BY <1>1, Numbers DEF Job, NoJob, Lists
<1>4. PublishTypeOK' BY <1>1, <1>3 DEF PublishTypeOK
<1>5. RevisionsCounted' BY <1>1, <1>2 DEF SnapshotsInv, RevisionsCounted
<1>6. RevisionsBounded' BY <1>1, <1>3 DEF SnapshotsInv, RevisionsBounded
<1>7. EarlySound' BY <1>1, <1>2, <1>3 DEF SnapshotsInv, EarlySound
<1>8. LastRevisionFresh' /\ LastRevisionArrives' BY <1>1 DEF LastRevisionFresh, LastRevisionArrives
<1> QED BY <1>4, <1>5, <1>6, <1>7, <1>8 DEF SnapshotsInv

(* One client is sent the list, unless it is closed.                        *)
LEMMA BroadcastSendKeeps ==
  ASSUME SnapshotsInv, NEW c \in Clients, BroadcastSend(c)
  PROVE  SnapshotsInv'
<1>1. /\ PublishTypeOK /\ job.pc = "send" /\ c \in job.targets /\ job \in Job
      /\ job' = IF job.targets = {c} THEN NoJob ELSE [job EXCEPT !.targets = @ \ {c}]
      /\ UNCHANGED <<clientStage, handshake, handshakeComplete, changes, unannounced, pubQueue,
                     pubRevision, skipped, failures>>
  BY DEF SnapshotsInv, BroadcastSend, handshakeVars, PublishTypeOK
<1>2. /\ \A d \in Clients : Stage(d)' = Stage(d) /\ (Early(d)' <=> Early(d))
      /\ Gone' = Gone /\ ReadyClients' = ReadyClients
  BY <1>1 DEF Stage, Early, Gone, ReadyClients
<1>3. /\ job' \in Job /\ job'.pc \in {"idle", "send"}
      /\ job'.pc = "send" => job'.revision = job.revision /\ job'.list = job.list
      /\ \A d \in Clients : d # c /\ d \in job.targets => job'.pc = "send" /\ d \in job'.targets
      /\ \A d \in Clients : job'.pc = "idle" \/ (d \in job'.targets => d \in job.targets)
  <2>1. CASE job.targets = {c}
    <3>1. job' = NoJob BY <1>1, <2>1
    <3> QED BY <1>1, <2>1, <3>1, Numbers DEF Job, NoJob, Lists
  <2>2. CASE job.targets # {c}
    <3>1. job' = [job EXCEPT !.targets = @ \ {c}] BY <1>1, <2>2
    <3> QED BY <1>1, <3>1 DEF Job
  <2> QED BY <2>1, <2>2
<1>4. ~Early(c) /\ job.revision = pubRevision
  BY <1>1 DEF SnapshotsInv, EarlySound, RevisionsBounded
<1>5. /\ pubRevision \in Nat /\ shown[c].revision \in Int /\ shown[c].revision <= pubRevision
      /\ pubRevision \in 0..MaxRevisions /\ job.list \in Lists
  BY <1>1, Numbers DEF Job, PublishTypeOK, SnapshotsInv, RevisionsBounded
<1>6. /\ shown' \in [Clients -> Snapshot]
      /\ \A d \in Clients : d # c => shown'[d] = shown[d]
      /\ \/ shown'[c] = shown[c] /\ Stage(c) = "closed"
         \/ shown'[c].revision = pubRevision /\ shown'[c].list = job.list
  <2>1. CASE Stage(c) = "closed"
    BY <1>1, <2>1 DEF BroadcastSend, Stage, PublishTypeOK
  <2>2. CASE Stage(c) # "closed"
    <3>1. ShowSnapshot(c, pubRevision, job.list)
      BY <1>4, <2>2 DEF BroadcastSend, Stage
    <3> QED BY <1>1, <1>5, <3>1, Shows
  <2> QED BY <2>1, <2>2
<1>7. PublishTypeOK' BY <1>1, <1>3, <1>6 DEF PublishTypeOK
<1>8. RevisionsCounted' BY <1>1, <1>2 DEF SnapshotsInv, RevisionsCounted
<1>9. RevisionsBounded' BY <1>1, <1>3, <1>4, <1>5, <1>6 DEF SnapshotsInv, RevisionsBounded
<1>10. EarlySound' BY <1>1, <1>2, <1>3, <1>4, <1>6 DEF SnapshotsInv, EarlySound
<1>11. LastRevisionFresh' BY <1>1, <1>3, <1>6 DEF SnapshotsInv, LastRevisionFresh
<1>12. LastRevisionArrives'
  <2>1. c \in ReadyClients => Stage(c) # "closed" BY DEF ReadyClients, Stage
  <2> QED BY <1>1, <1>2, <1>3, <1>6, <2>1 DEF SnapshotsInv, LastRevisionArrives, ReadyClients
<1> QED BY <1>7, <1>8, <1>9, <1>10, <1>11, <1>12 DEF SnapshotsInv

-----------------------------------------------------------------------------
(* Nothing is published and nobody is connected.                            *)
LEMMA SnapshotsStart == PublishInit => SnapshotsInv
<1> SUFFICES ASSUME PublishInit PROVE SnapshotsInv
  OBVIOUS
<1>1. /\ MaxChanges \in Nat /\ MaxFailures \in Nat /\ Cardinality(Clients) \in Nat
      /\ MaxRevisions \in Nat
  BY PublishAssumption, FS_CardinalityType DEF MaxRevisions
<1>2. PublishTypeOK
  <2>1. 0 \in Lists /\ 0 \in 0..MaxRevisions /\ -1 \in -1..MaxRevisions /\ 0 \in 0..MaxFailures
    BY <1>1 DEF Lists
  <2>2. NoHandshake \in Handshake /\ NoJob \in Job
    BY <2>1 DEF Handshake, NoHandshake, Job, NoJob
  <2>3. [revision |-> -1, list |-> 0] \in Snapshot
    BY <2>1 DEF Snapshot
  <2> QED BY <2>1, <2>2, <2>3 DEF PublishInit, PublishTypeOK, Stages
<1>3. Gone = {} BY DEF PublishInit, Gone
<1>4. RevisionsCounted BY <1>3, FS_EmptySet DEF PublishInit, RevisionsCounted
<1>5. RevisionsBounded BY DEF PublishInit, RevisionsBounded, NoHandshake, NoJob
<1>6. EarlySound BY DEF PublishInit, EarlySound, NoHandshake, NoJob, Early, Stage
<1>7. LastRevisionFresh BY DEF PublishInit, LastRevisionFresh, NoHandshake, NoJob
<1>8. LastRevisionArrives BY DEF PublishInit, LastRevisionArrives, ReadyClients
<1> QED BY <1>2, <1>4, <1>5, <1>6, <1>7, <1>8 DEF SnapshotsInv

(* Every step of the publisher and of a handshake keeps the invariant.      *)
LEMMA SnapshotsStep == SnapshotsInv /\ [PublishNext]_snapshotsVars => SnapshotsInv'
<1> SUFFICES ASSUME SnapshotsInv, [PublishNext]_snapshotsVars PROVE SnapshotsInv'
  OBVIOUS
<1>1. CASE Publishing
  BY <1>1, AnnounceKeeps, PerformBroadcastKeeps, BroadcastListedKeeps, BroadcastFailsKeeps,
     BroadcastSendKeeps DEF Publishing
<1>2. CASE Handshaking
  BY <1>2, HandshakeListedKeeps, HandshakeSendKeeps, HandshakeSentKeeps, CatchUpSendKeeps,
     HandshakeFailsKeeps DEF Handshaking
<1>3. CASE ListChanges
  BY <1>3, ListChangesKeeps
<1>4. ASSUME NEW c \in Clients, Accept(c) \/ Hello(c) \/ ProtocolError(c) \/ ClientDisconnects(c)
      PROVE  SnapshotsInv'
  BY <1>4, AcceptKeeps, HelloKeeps, ProtocolErrorKeeps, ClientDisconnectsKeeps
<1>5. CASE UNCHANGED snapshotsVars
  BY <1>5 DEF snapshotsVars, SnapshotsInv, PublishTypeOK, RevisionsCounted, RevisionsBounded,
     EarlySound, LastRevisionFresh, LastRevisionArrives, Gone, Stage, Early, ReadyClients
<1> QED BY <1>1, <1>2, <1>3, <1>4, <1>5 DEF PublishNext

(* The last revision is the list as it is once every change is broadcast,   *)
(* and it reaches every ready client (performBroadcast and get of           *)
(* snapshots.ts, finishHandshake of server.ts).                             *)
THEOREM SnapshotsInvariant == PublishSpec => []SnapshotsInv
<1>1. PublishInit => SnapshotsInv BY SnapshotsStart
<1>2. SnapshotsInv /\ [PublishNext]_snapshotsVars => SnapshotsInv' BY SnapshotsStep
<1> QED BY <1>1, <1>2, PTL DEF PublishSpec

(* Handshakes, broadcasts and what clients show keep their types; no counter*)
(* passes the changes and disconnects there can be (ServerSnapshots).       *)
THEOREM PublishTypeCorrect == PublishSpec => []PublishTypeOK
<1>1. SnapshotsInv => PublishTypeOK BY DEF SnapshotsInv
<1> QED BY <1>1, SnapshotsInvariant, PTL

LEMMA ListShownOncePublished ==
  ASSUME SnapshotsInv
  PROVE  CaughtUpUnlessSkipped
<1> SUFFICES ASSUME ~skipped, Published, NEW c \in ReadyClients
             PROVE  shown[c].list = changes
  BY DEF CaughtUpUnlessSkipped, ReadyClientsCaughtUp
<1>1. c \in Clients /\ handshake[c].pc = "none" /\ job.pc = "idle"
  BY DEF ReadyClients, Published
<1>2. shown[c].revision = pubRevision
  BY <1>1 DEF SnapshotsInv, LastRevisionArrives
<1> QED
  BY <1>1, <1>2 DEF SnapshotsInv, LastRevisionFresh, Published

(* However handshakes, catch-ups, changes and broadcasts of any number of   *)
(* clients interleave: once all are through, every ready client shows the   *)
(* list as it is, unless a broadcast was dropped for want of a ready client *)
(* or failed (snapshots.ts:54 and applyServerSnapshot of                    *)
(* packages/client/src/state.ts).                                           *)
THEOREM ClientsAlwaysCaughtUp == PublishSpec => []CaughtUpUnlessSkipped
<1> QED BY ListShownOncePublished, SnapshotsInvariant, PTL

-----------------------------------------------------------------------------
(* LiveSessions: the runtimes of a server and the requests that share them.  *)

(* What a runtime record is, apart from the bound of its counter.           *)
RuntimeRecord ==
  [state : RuntimeStates, session : Sessions, connections : SUBSET Conns,
   operationCount : Int, subscribed : BOOLEAN, terminal : BOOLEAN,
   disposing : Disposals, phase : {"idle", "turn"}]

LiveTyped ==
  /\ stage \in [Conns -> {"ready", "closing", "closed"}]
  /\ sessionIds \in [Conns -> SUBSET Sessions]
  /\ live \in [Runtimes -> RuntimeRecord]
  /\ liveSessions \in [Sessions -> 0..MaxRuntimes]
  /\ openingSessions \in [Sessions -> Slots \cup {None}]
  /\ requests \in [Slots -> Request]
  /\ revision \in [Sessions -> Revisions]
  /\ broadcasts \subseteq Runtimes \X Revisions
  /\ view \in [Conns -> [Sessions -> -1..MaxRevision]]
  /\ closing \in CloseStages
  /\ closeWaits \subseteq Slots
  /\ closeFinds \subseteq Runtimes
  /\ received \in 0..MaxRequests
  /\ lost \in 0..MaxLost

(* Where a request that opens a session is, where one has a live session in *)
(* hand, and where close has taken the sessions down.                      *)
Opens == {"open", "openSnapshot", "discard"}
Joins == {"found", "opened", "joined"}
Uses  == Joins \cup {"operate", "snapshot", "awaitDisposing", "awaitDetach"}
Ended == {"sessions", "done", "failed"}

(* A runtime that is not in use yet belongs to the request that opens its   *)
(* session.                                                                *)
Opener(r) == openingSessions[live[r].session]
OpenedBy(r, at) ==
  Opener(r) # None /\ requests[Opener(r)].pc = at /\ requests[Opener(r)].live = r

(* Close disposes of r, and no request can open its session again.          *)
TakenDown(r) ==
  /\ closing \in Ended /\ r \in closeFinds /\ live[r].disposing = "pending"
  /\ openingSessions[live[r].session] = None
  /\ \A q \in Slots : At(q, "acquire") => requests[q].session # live[r].session

RuntimesSound ==
  \A r \in Runtimes :
    /\ live[r].state = "opening" =>
         live[r].disposing = "none" /\ live[r].connections = {} /\ ~live[r].terminal
         /\ OpenedBy(r, "openSnapshot")
    /\ live[r].state = "discarded" /\ live[r].disposing \in {"none", "pending"} =>
         OpenedBy(r, "discard")
    /\ live[r].state = "open" /\ live[r].disposing = "none" /\ ~live[r].terminal =>
         live[r].subscribed
    /\ live[r].state = "open" /\ live[r].disposing \in {"none", "pending"} =>
         liveSessions[live[r].session] = r \/ TakenDown(r)

(* A session is opened by one request, and not while it is live.            *)
OpeningsSound ==
  /\ \A s \in Sessions : openingSessions[s] # None =>
       /\ requests[openingSessions[s]].pc \in Opens /\ requests[openingSessions[s]].session = s
       /\ liveSessions[s] = 0
  /\ \A q \in Slots : requests[q].pc \in Opens => openingSessions[requests[q].session] = q
  /\ \A q \in Slots : At(q, "openSnapshot") =>
       /\ requests[q].live # 0 /\ live[requests[q].live].state = "opening"
       /\ live[requests[q].live].session = requests[q].session
       /\ closing \notin Ended /\ (closing = "openings" => q \in closeWaits)
  /\ \A q \in Slots : At(q, "discard") =>
       /\ requests[q].live # 0 /\ live[requests[q].live].state = "discarded"
       /\ live[requests[q].live].session = requests[q].session
       /\ live[requests[q].live].disposing = "pending"

(* What the manager holds is open, until close empties it.                  *)
RegisteredSound ==
  \A s \in Sessions : liveSessions[s] # 0 =>
    /\ live[liveSessions[s]].state = "open" /\ live[liveSessions[s]].session = s
    /\ live[liveSessions[s]].disposing \in {"none", "pending"}
    /\ closing \notin Ended

(* How far close is.                                                       *)
CloseSound ==
  /\ closing \in Ended \cup {"openings"} => \A c \in Conns : stage[c] = "closed"
  /\ \A r \in closeFinds : live[r].state = "open"
  /\ \A r1, r2 \in closeFinds : live[r1].session = live[r2].session => r1 = r2
  /\ closing = "done" => \A r \in closeFinds : live[r].disposing = "resolved"

ManagerInv == RuntimesSound /\ OpeningsSound /\ RegisteredSound /\ CloseSound

(* A request has in hand an open runtime of its session, and goes on to     *)
(* attach only to one that has not terminated.                             *)
UsesSound ==
  \A q \in Slots :
    /\ requests[q].pc \in Uses =>
         /\ requests[q].live # 0 /\ live[requests[q].live].state = "open"
         /\ live[requests[q].live].session = requests[q].session
    /\ At(q, "awaitDisposing") => live[requests[q].live].disposing = "pending"
    /\ At(q, "acquire") => requests[q].live = 0
    /\ At(q, "operate") => requests[q].kind = "operation"
    /\ requests[q].pc \in Opens \cup {"awaitOpening"} => requests[q].kind = "attach"
    /\ requests[q].pc \in Joins =>
         requests[q].kind = "attach" /\ ~live[requests[q].live].terminal

(* operationCount counts the operations under way.                         *)
OperatingOn(r) ==
  {q \in Slots : requests[q].kind = "operation" /\ requests[q].pc \in {"operate", "snapshot"}
                 /\ requests[q].live = r}
OperationsCounted ==
  \A r \in Runtimes : live[r].operationCount = Cardinality(OperatingOn(r))

(* No revision is shown or asked for before it exists, and a runtime that   *)
(* has terminated has lost its connections.                                *)
SnapshotsSound ==
  /\ \A c \in Conns, s \in Sessions : view[c][s] <= revision[s]
  /\ \A b \in broadcasts :
       live[b[1]].state = "open" /\ b[2] <= revision[live[b[1]].session]
  /\ \A q \in Slots : At(q, "snapshot") => requests[q].revision <= revision[requests[q].session]
  /\ \A r \in Runtimes : live[r].terminal =>
       \A c \in live[r].connections : stage[c] # "ready"

(* The last revision is shown or on its way.                               *)
Arrives(c, r, rev) ==
  \/ view[c][live[r].session] = rev
  \/ <<r, rev>> \in broadcasts
  \/ \E q \in Slots : At(q, "snapshot") /\ requests[q].live = r /\ requests[q].revision = rev
ViewsSound ==
  lost = 0 =>
    \A s \in Sessions : liveSessions[s] # 0 =>
      \A c \in live[liveSessions[s]].connections :
        stage[c] = "ready" => Arrives(c, liveSessions[s], revision[s])

LiveInv ==
  /\ LiveTyped /\ ManagerInv /\ UsesSound /\ OperationsCounted
  /\ NoDisposeInUse /\ UnusedIsDisposed /\ SnapshotsSound /\ ViewsSound
-----------------------------------------------------------------------------
(* maybeDispose.                                                           *)

(* Nobody needs runtime l.                                                 *)
Unneeded(l) ==
  /\ l.disposing = "none" /\ l.connections = {} /\ l.operationCount = 0
  /\ l.terminal \/ l.phase = "idle"

LEMMA RuntimesAreIndices ==
  /\ Runtimes = 1..MaxRuntimes /\ MaxRuntimes \in Nat /\ 0 \notin Runtimes
  /\ Revisions = 0..MaxRevision /\ MaxRevision \in Nat /\ None \notin Slots
  /\ IsFiniteSet(Slots) /\ Revisions \subseteq Int
  BY LiveAssumption DEF Runtimes, Revisions

LEMMA DisposedIfUnneeded ==
  ASSUME NEW l \in RuntimeRecord
  PROVE  /\ MaybeDispose(l) \in RuntimeRecord
         /\ MaybeDispose(l).state = l.state /\ MaybeDispose(l).session = l.session
         /\ MaybeDispose(l).connections = l.connections
         /\ MaybeDispose(l).operationCount = l.operationCount
         /\ MaybeDispose(l).terminal = l.terminal /\ MaybeDispose(l).phase = l.phase
         /\ ~isClosing /\ Unneeded(l) =>
              MaybeDispose(l).disposing = "pending" /\ l.disposing = "none"
         /\ ~(~isClosing /\ Unneeded(l)) => MaybeDispose(l) = l
         /\ isClosing \/ ~Unneeded(MaybeDispose(l))
<1>1. CanDispose(l) <=> ~isClosing /\ Unneeded(l)
  BY DEF CanDispose, Unneeded
<1>2. CASE CanDispose(l)
  <2>1. MaybeDispose(l) = [l EXCEPT !.subscribed = FALSE, !.disposing = "pending"]
    BY <1>2 DEF MaybeDispose
  <2>2. "pending" \in Disposals
    BY DEF Disposals
  <2>3. /\ MaybeDispose(l) \in RuntimeRecord
        /\ MaybeDispose(l).state = l.state /\ MaybeDispose(l).session = l.session
        /\ MaybeDispose(l).connections = l.connections
        /\ MaybeDispose(l).operationCount = l.operationCount
        /\ MaybeDispose(l).terminal = l.terminal /\ MaybeDispose(l).phase = l.phase
        /\ MaybeDispose(l).disposing = "pending"
    BY <2>1, <2>2 DEF RuntimeRecord
  <2> QED
    BY <1>1, <1>2, <2>3 DEF Unneeded
<1>3. CASE ~CanDispose(l)
  <2>1. MaybeDispose(l) = l
    BY <1>3 DEF MaybeDispose
  <2> QED
    BY <1>1, <1>3, <2>1
<1> QED
  BY <1>2, <1>3

-----------------------------------------------------------------------------
(* Steps that neither open nor take down a session.                        *)

(* What may happen to an open runtime.                                     *)
Keeps(l, k) ==
  /\ k.state = l.state /\ k.session = l.session
  /\ k.disposing = l.disposing \/ (l.disposing = "none" /\ k.disposing = "pending")
  /\ k.disposing = "none" /\ ~k.terminal => (l.subscribed => k.subscribed) /\ ~l.terminal

GentleStep ==
  /\ liveSessions' = liveSessions /\ openingSessions' = openingSessions
  /\ closeWaits' = closeWaits /\ closeFinds' = closeFinds
  /\ \/ closing' = closing
     \/ closing' \in {"listeners", "connections"} /\ closing \in {"no", "listeners"}
  /\ \A c \in Conns : stage[c] = "closed" => stage'[c] = "closed"
  /\ \A r \in Runtimes : live[r].state # "open" => live'[r] = live[r]
  /\ \A r \in Runtimes : Keeps(live[r], live'[r])
  /\ \A q \in Slots :
       requests[q].pc \in Opens \/ requests'[q].pc \in Opens \cup {"acquire"} =>
         requests'[q] = requests[q]

LEMMA GentleKeepsManager ==
  ASSUME LiveTyped, LiveTyped', ManagerInv, GentleStep
  PROVE  ManagerInv'
<1>1. /\ closing' \in Ended <=> closing \in Ended
      /\ closing' = "openings" <=> closing = "openings"
      /\ closing' = "done" <=> closing = "done"
  BY DEF GentleStep, Ended
<1>2. \A r \in Runtimes : Keeps(live[r], live'[r])
  BY DEF GentleStep
<1>3. \A q \in Slots : At(q, "acquire")' => At(q, "acquire") /\ requests'[q] = requests[q]
  BY DEF GentleStep, At
<1>4. \A q \in Slots : requests[q].pc \in Opens <=> requests'[q].pc \in Opens
  BY DEF GentleStep
<1>5. \A q \in Slots : requests[q].pc \in Opens => requests'[q] = requests[q]
  BY DEF GentleStep
<1>6. \A r \in Runtimes : live[r].session \in Sessions /\ live'[r].session = live[r].session
                          /\ live'[r].state = live[r].state
  BY <1>2 DEF Keeps, LiveTyped, RuntimeRecord
<1>7. OpeningsSound'
  <2>1. \A s \in Sessions : openingSessions[s] # None =>
          openingSessions[s] \in Slots /\ requests'[openingSessions[s]] = requests[openingSessions[s]]
    BY <1>5 DEF ManagerInv, OpeningsSound, LiveTyped
  <2>2. \A s \in Sessions : openingSessions'[s] # None =>
          /\ requests'[openingSessions'[s]].pc \in Opens
          /\ requests'[openingSessions'[s]].session = s
          /\ liveSessions'[s] = 0
    BY <2>1 DEF ManagerInv, OpeningsSound, GentleStep
  <2>3. \A q \in Slots : requests'[q].pc \in Opens => openingSessions'[requests'[q].session] = q
    BY <1>4, <1>5 DEF ManagerInv, OpeningsSound, GentleStep
  <2>4. ASSUME NEW q \in Slots, At(q, "openSnapshot")'
        PROVE  /\ requests'[q].live # 0 /\ live'[requests'[q].live].state = "opening"
               /\ live'[requests'[q].live].session = requests'[q].session
               /\ closing' \notin Ended /\ (closing' = "openings" => q \in closeWaits')
    <3>1. At(q, "openSnapshot") /\ requests'[q] = requests[q]
      BY <2>4, <1>4, <1>5 DEF At, Opens
    <3>2. requests[q].live \in Runtimes
      BY <3>1, RuntimesAreIndices, SMTT(30) DEF ManagerInv, OpeningsSound, LiveTyped, Request
    <3> QED
      BY <3>1, <3>2, <1>1, <1>6 DEF ManagerInv, OpeningsSound, GentleStep
  <2>5. ASSUME NEW q \in Slots, At(q, "discard")'
        PROVE  /\ requests'[q].live # 0 /\ live'[requests'[q].live].state = "discarded"
               /\ live'[requests'[q].live].session = requests'[q].session
               /\ live'[requests'[q].live].disposing = "pending"
    <3>1. At(q, "discard") /\ requests'[q] = requests[q]
      BY <2>5, <1>4, <1>5 DEF At, Opens
    <3>2. requests[q].live \in Runtimes
      BY <3>1, RuntimesAreIndices, SMTT(30) DEF ManagerInv, OpeningsSound, LiveTyped, Request
    <3> QED
      BY <3>1, <3>2, <1>2, <1>6 DEF ManagerInv, OpeningsSound, Keeps
  <2> QED
    BY <2>2, <2>3, <2>4, <2>5 DEF OpeningsSound
<1>8. RuntimesSound'
  <2> SUFFICES ASSUME NEW r \in Runtimes
      PROVE  /\ live'[r].state = "opening" =>
                  live'[r].disposing = "none" /\ live'[r].connections = {} /\ ~live'[r].terminal
                  /\ OpenedBy(r, "openSnapshot")'
             /\ live'[r].state = "discarded" /\ live'[r].disposing \in {"none", "pending"} =>
                  OpenedBy(r, "discard")'
             /\ live'[r].state = "open" /\ live'[r].disposing = "none" /\ ~live'[r].terminal =>
                  live'[r].subscribed
             /\ live'[r].state = "open" /\ live'[r].disposing \in {"none", "pending"} =>
                  liveSessions'[live'[r].session] = r \/ TakenDown(r)'
    BY DEF RuntimesSound
  <2>1. \A at \in {"openSnapshot", "discard"} : OpenedBy(r, at) =>
          /\ openingSessions'[live'[r].session] # None
          /\ requests'[openingSessions'[live'[r].session]].pc = at
          /\ requests'[openingSessions'[live'[r].session]].live = r
    BY <1>5, <1>6 DEF OpenedBy, Opener, GentleStep, LiveTyped, Opens
  <2>2. live'[r].state = "opening" =>
          live'[r].disposing = "none" /\ live'[r].connections = {} /\ ~live'[r].terminal
          /\ OpenedBy(r, "openSnapshot")'
    BY <2>1, <1>6 DEF ManagerInv, RuntimesSound, GentleStep, OpenedBy, Opener
  <2>3. live'[r].state = "discarded" /\ live'[r].disposing \in {"none", "pending"} =>
          OpenedBy(r, "discard")'
    BY <2>1, <1>6 DEF ManagerInv, RuntimesSound, GentleStep, OpenedBy, Opener
  <2>4. live'[r].state = "open" /\ live'[r].disposing = "none" /\ ~live'[r].terminal =>
          live'[r].subscribed
    BY <1>2, <1>6 DEF ManagerInv, RuntimesSound, Keeps
  <2>5. TakenDown(r) => TakenDown(r)'
    <3>1. live[r].disposing = "pending" => live'[r].disposing = "pending"
      BY <1>2 DEF Keeps
    <3> QED
      BY <3>1, <1>1, <1>3, <1>6 DEF TakenDown, GentleStep
  <2>6. live'[r].disposing \in {"none", "pending"} => live[r].disposing \in {"none", "pending"}
    BY <1>2 DEF Keeps
  <2>7. live'[r].state = "open" /\ live'[r].disposing \in {"none", "pending"} =>
          liveSessions'[live'[r].session] = r \/ TakenDown(r)'
    BY <2>5, <2>6, <1>6 DEF ManagerInv, RuntimesSound, GentleStep
  <2> QED
    BY <2>2, <2>3, <2>4, <2>7
<1>9. RegisteredSound'
  <2>1. \A s \in Sessions : liveSessions[s] # 0 => liveSessions[s] \in Runtimes
    BY RuntimesAreIndices DEF LiveTyped
  <2>2. \A r \in Runtimes : live[r].disposing \in {"none", "pending"} =>
          live'[r].disposing \in {"none", "pending"}
    BY <1>2 DEF Keeps
  <2> QED
    BY <2>1, <2>2, <1>1, <1>6 DEF ManagerInv, RegisteredSound, GentleStep
<1>10. CloseSound'
  <2>1. closing' \in Ended \cup {"openings"} => \A c \in Conns : stage'[c] = "closed"
    BY <1>1 DEF ManagerInv, CloseSound, GentleStep
  <2>2. closeFinds' = closeFinds /\ closeFinds \subseteq Runtimes
    BY DEF GentleStep, LiveTyped
  <2>3. closing' = "done" => \A r \in closeFinds : live'[r].disposing = "resolved"
    BY <1>1, <1>2, <2>2 DEF ManagerInv, CloseSound, Keeps
  <2>4. /\ \A r \in closeFinds' : live'[r].state = "open"
        /\ \A r1, r2 \in closeFinds' : live'[r1].session = live'[r2].session => r1 = r2
    BY <1>6, <2>2 DEF ManagerInv, CloseSound
  <2> QED
    BY <2>1, <2>2, <2>3, <2>4 DEF CloseSound
<1> QED
  BY <1>7, <1>8, <1>9, <1>10 DEF ManagerInv

(* What a request may have in hand after such a step.                      *)
GentleUses ==
  /\ \A q \in Slots : requests'[q].pc \in Uses \cup {"acquire", "awaitOpening"} =>
       \/ requests'[q] = requests[q]
       \/ /\ requests'[q].pc \in {"operate", "snapshot", "awaitDetach"}
          /\ requests'[q].live # 0 /\ live[requests'[q].live].state = "open"
          /\ live[requests'[q].live].session = requests'[q].session
          /\ requests'[q].pc = "operate" => requests'[q].kind = "operation"
  /\ \A r \in Runtimes : live'[r].terminal => live[r].terminal \/ Quiet

LEMMA GentleKeepsUses ==
  ASSUME LiveTyped, LiveTyped', UsesSound, GentleStep, GentleUses
  PROVE  UsesSound'
<1> SUFFICES ASSUME NEW q \in Slots
    PROVE  /\ requests'[q].pc \in Uses =>
                /\ requests'[q].live # 0 /\ live'[requests'[q].live].state = "open"
                /\ live'[requests'[q].live].session = requests'[q].session
           /\ requests'[q].pc = "awaitDisposing" => live'[requests'[q].live].disposing = "pending"
           /\ requests'[q].pc = "acquire" => requests'[q].live = 0
           /\ requests'[q].pc = "operate" => requests'[q].kind = "operation"
           /\ requests'[q].pc \in Opens \cup {"awaitOpening"} => requests'[q].kind = "attach"
           /\ requests'[q].pc \in Joins =>
                requests'[q].kind = "attach" /\ ~live'[requests'[q].live].terminal
  BY DEF UsesSound, At
<1>1. \A r \in Runtimes : Keeps(live[r], live'[r])
  BY DEF GentleStep
<1>2. requests'[q].live # 0 => requests'[q].live \in Runtimes
  <2>1. requests'[q] \in Request
    BY DEF LiveTyped
  <2>2. requests'[q].live \in 0..MaxRuntimes
    BY <2>1 DEF Request
  <2> QED
    BY <2>2, RuntimesAreIndices
<1>3. CASE requests'[q] = requests[q]
  <2>1. requests[q].pc \in Joins => ~Quiet
    BY DEF Quiet, Joins, Resumed
  <2> QED
    BY <1>1, <1>2, <1>3, <2>1 DEF UsesSound, At, Keeps, GentleUses, Uses, Joins, Opens
<1>4. CASE requests'[q] # requests[q] /\ requests'[q].pc \in Uses \cup {"acquire", "awaitOpening"}
  BY <1>1, <1>2, <1>4 DEF GentleUses, Keeps, Joins, Opens
<1>5. CASE requests'[q] # requests[q] /\ requests'[q].pc \notin Uses \cup {"acquire", "awaitOpening"}
  BY <1>5 DEF Uses, Joins, GentleStep
<1> QED
  BY <1>3, <1>4, <1>5

-----------------------------------------------------------------------------
(* Operations under way.                                                   *)

LEMMA OperatingIsFinite ==
  ASSUME NEW r
  PROVE  /\ OperatingOn(r) \subseteq Slots /\ IsFiniteSet(OperatingOn(r))
         /\ Cardinality(OperatingOn(r)) \in Nat /\ Cardinality(Slots) \in Nat
         /\ Cardinality(OperatingOn(r)) <= Cardinality(Slots)
         /\ Cardinality(OperatingOn(r)) = 0 <=> OperatingOn(r) = {}
<1>1. OperatingOn(r) \subseteq Slots
  BY DEF OperatingOn
<1> HIDE DEF OperatingOn
<1> QED
  BY <1>1, RuntimesAreIndices, FS_Subset, FS_CardinalityType, FS_EmptySet

(* No operation begins or ends.                                            *)
LEMMA OperationsKept ==
  ASSUME OperationsCounted,
         \A r \in Runtimes : live'[r].operationCount = live[r].operationCount,
         \A q \in Slots : \A r \in Runtimes : q \in OperatingOn(r)' <=> q \in OperatingOn(r)
  PROVE  OperationsCounted'
<1>1. \A r \in Runtimes : OperatingOn(r)' = OperatingOn(r)
  <2>1. \A r \in Runtimes : OperatingOn(r)' \subseteq Slots /\ OperatingOn(r) \subseteq Slots
    BY DEF OperatingOn
  <2> QED
    BY <2>1
<1> QED
  BY <1>1 DEF OperationsCounted

(* Operation q begins on k.                                                *)
LEMMA OperationBegins ==
  ASSUME OperationsCounted, NEW k \in Runtimes, NEW q \in Slots,
         \A r \in Runtimes \ {k} : live'[r].operationCount = live[r].operationCount,
         live'[k].operationCount = live[k].operationCount + 1,
         q \notin OperatingOn(k),
         OperatingOn(k)' = OperatingOn(k) \cup {q},
         \A r \in Runtimes \ {k} : OperatingOn(r)' = OperatingOn(r)
  PROVE  OperationsCounted'
<1> DEFINE old == OperatingOn(k)
<1>1. IsFiniteSet(old)
  BY OperatingIsFinite
<1>2. Cardinality(OperatingOn(k)') = Cardinality(old) + 1
  <2> HIDE DEF old
  <2>1. Cardinality(old \cup {q}) = Cardinality(old) + 1
    BY <1>1, FS_AddElement DEF old
  <2> QED
    BY <2>1 DEF old
<1> QED
  BY <1>2 DEF OperationsCounted

(* Operation q ends on k.                                                  *)
LEMMA OperationEnds ==
  ASSUME OperationsCounted, NEW k \in Runtimes, NEW q \in Slots,
         \A r \in Runtimes \ {k} : live'[r].operationCount = live[r].operationCount,
         live'[k].operationCount = live[k].operationCount - 1,
         q \in OperatingOn(k),
         OperatingOn(k)' = OperatingOn(k) \ {q},
         \A r \in Runtimes \ {k} : OperatingOn(r)' = OperatingOn(r)
  PROVE  OperationsCounted'
<1> DEFINE old == OperatingOn(k)
<1>1. IsFiniteSet(old)
  BY OperatingIsFinite
<1>2. Cardinality(OperatingOn(k)') = Cardinality(old) - 1
  <2> HIDE DEF old
  <2>1. Cardinality(old \ {q}) = Cardinality(old) - 1
    BY <1>1, FS_RemoveElement DEF old
  <2> QED
    BY <2>1 DEF old
<1> QED
  BY <1>2 DEF OperationsCounted

-----------------------------------------------------------------------------
(* Disposal.                                                               *)

(* A runtime on which an operation is under way counts it.                 *)
InUseIsCounted ==
  \A q \in Slots : At(q, "operate") =>
    /\ requests[q].live \in Runtimes /\ live[requests[q].live].state = "open"
    /\ live[requests[q].live].operationCount # 0

LEMMA InUseCounted == LiveTyped /\ UsesSound /\ OperationsCounted => InUseIsCounted
<1> SUFFICES ASSUME LiveTyped, UsesSound, OperationsCounted, NEW q \in Slots, At(q, "operate")
    PROVE  /\ requests[q].live \in Runtimes /\ live[requests[q].live].state = "open"
           /\ live[requests[q].live].operationCount # 0
  BY DEF InUseIsCounted
<1>1. requests[q].live \in Runtimes /\ live[requests[q].live].state = "open"
      /\ requests[q].kind = "operation"
  <2>1. requests[q] \in Request
    BY DEF LiveTyped
  <2>2. requests[q].live \in 0..MaxRuntimes
    BY <2>1 DEF Request
  <2>3. requests[q].live # 0 /\ live[requests[q].live].state = "open"
        /\ requests[q].kind = "operation"
    BY DEF UsesSound, At, Uses
  <2> QED
    BY <2>2, <2>3, RuntimesAreIndices
<1>2. q \in OperatingOn(requests[q].live)
  BY <1>1 DEF OperatingOn, At
<1>3. Cardinality(OperatingOn(requests[q].live)) # 0
  BY <1>2, OperatingIsFinite
<1> QED
  BY <1>1, <1>3 DEF OperationsCounted

(* maybeDispose begins a disposal only where nothing is under way.          *)
LEMMA InUseKept ==
  ASSUME LiveTyped', UsesSound', OperationsCounted', NoDisposeInUse,
         isClosing => isClosing',
         \A r \in Runtimes : live'[r].state = "open" =>
           \/ isClosing' \/ live'[r].disposing = live[r].disposing
           \/ live[r].disposing # "none" \/ live'[r].operationCount = 0,
         \A q \in Slots : At(q, "operate")' =>
           \/ At(q, "operate") /\ requests'[q].live = requests[q].live
           \/ live[requests'[q].live].disposing = "none"
  PROVE  NoDisposeInUse'
<1> SUFFICES ASSUME NEW q \in Slots, requests'[q].pc = "operate", ~isClosing'
    PROVE  live'[requests'[q].live].disposing = "none"
  BY DEF NoDisposeInUse, At
<1>1. InUseIsCounted'
  BY InUseCounted, PTL
<1>2. requests'[q].live \in Runtimes /\ live'[requests'[q].live].state = "open"
      /\ live'[requests'[q].live].operationCount # 0
  BY <1>1 DEF At, InUseIsCounted
<1>3. live[requests'[q].live].disposing = "none"
  BY DEF NoDisposeInUse, At
<1> QED
  BY <1>2, <1>3

(* Whoever still has the runtime in hand keeps it from being left behind.   *)
LEMMA UnusedKept ==
  ASSUME LiveTyped, UnusedIsDisposed, isClosing => isClosing',
         \A r \in Runtimes :
           live'[r].state = "open" /\ Unneeded(live'[r]) /\ ~isClosing' =>
             \/ /\ live[r].state = "open" /\ Unneeded(live[r])
                /\ \A q \in Slots : requests[q].pc \in Resumed /\ requests[q].live = r =>
                     requests'[q] = requests[q]
             \/ \E q \in Slots : requests'[q].pc \in Resumed /\ requests'[q].live = r
  PROVE  UnusedIsDisposed'
<1> SUFFICES ASSUME NEW r \in Runtimes, live'[r].state = "open", CanDispose(live[r])'
    PROVE  \E q \in Slots : requests'[q].pc \in Resumed /\ requests'[q].live = r
  BY DEF UnusedIsDisposed
<1>1. Unneeded(live'[r]) /\ ~isClosing'
  BY DEF CanDispose, Unneeded
<1>2. CASE /\ live[r].state = "open" /\ Unneeded(live[r])
           /\ \A q \in Slots : requests[q].pc \in Resumed /\ requests[q].live = r =>
                requests'[q] = requests[q]
  <2>1. CanDispose(live[r])
    BY <1>1, <1>2 DEF CanDispose, Unneeded
  <2>2. PICK q \in Slots : requests[q].pc \in Resumed /\ requests[q].live = r
    BY <2>1, <1>2 DEF UnusedIsDisposed
  <2> QED
    BY <2>2, <1>2
<1> QED
  BY <1>1, <1>2

(* A quiet step needs no more than this.                                   *)
LEMMA UnusedKeptQuietly ==
  ASSUME LiveTyped, UnusedIsDisposed, Quiet, isClosing => isClosing',
         \A r \in Runtimes :
           live'[r].state = "open" /\ Unneeded(live'[r]) /\ ~isClosing' =>
             \/ live[r].state = "open" /\ Unneeded(live[r])
             \/ \E q \in Slots : requests'[q].pc \in Resumed /\ requests'[q].live = r
  PROVE  UnusedIsDisposed'
<1>1. \A q \in Slots : requests[q].pc \notin Resumed
  BY DEF Quiet
<1> QED
  BY <1>1, UnusedKept

-----------------------------------------------------------------------------
(* Snapshots.                                                              *)

(* A step that sends none, asks for none that matters and lets nobody in.   *)
ViewsQuiet ==
  /\ view' = view /\ revision' = revision /\ broadcasts' = broadcasts /\ lost' = lost
  /\ \A c \in Conns : stage'[c] = "ready" => stage[c] = "ready"
  /\ \A s \in Sessions : liveSessions'[s] # 0 =>
       liveSessions'[s] = liveSessions[s] \/ live'[liveSessions'[s]].connections = {}
  /\ \A r \in Runtimes :
       /\ live'[r].connections \subseteq live[r].connections
       /\ live'[r].terminal => live[r].terminal \/ \A c \in live'[r].connections : stage'[c] # "ready"
       /\ live[r].state = "open" => live'[r].state = "open" /\ live'[r].session = live[r].session
  /\ \A q \in Slots : At(q, "snapshot") => requests'[q] = requests[q]
  /\ \A q \in Slots : At(q, "snapshot")' =>
       requests'[q] = requests[q] \/ requests'[q].revision <= revision[requests'[q].session]

LEMMA ViewsQuietKeeps ==
  ASSUME LiveTyped, LiveTyped', SnapshotsSound, ViewsSound, RegisteredSound, ViewsQuiet
  PROVE  SnapshotsSound' /\ ViewsSound'
<1>1. SnapshotsSound'
  <2>1. \A c \in Conns, s \in Sessions : view'[c][s] <= revision'[s]
    BY DEF SnapshotsSound, ViewsQuiet
  <2>2. \A b \in broadcasts' :
          live'[b[1]].state = "open" /\ b[2] <= revision'[live'[b[1]].session]
    <3>1. \A b \in broadcasts : b[1] \in Runtimes
      BY DEF LiveTyped
    <3> QED
      BY <3>1 DEF SnapshotsSound, ViewsQuiet
  <2>3. \A q \in Slots : At(q, "snapshot")' =>
          requests'[q].revision <= revision'[requests'[q].session]
    BY DEF SnapshotsSound, ViewsQuiet, At
  <2>4. \A r \in Runtimes : live'[r].terminal =>
          \A c \in live'[r].connections : stage'[c] # "ready"
    <3>1. \A r \in Runtimes : live'[r].connections \subseteq Conns
      BY DEF LiveTyped, RuntimeRecord
    <3> QED
      BY <3>1 DEF SnapshotsSound, ViewsQuiet
  <2> QED
    BY <2>1, <2>2, <2>3, <2>4 DEF SnapshotsSound
<1>2. ViewsSound'
  <2> SUFFICES ASSUME lost = 0, NEW s \in Sessions, liveSessions'[s] # 0,
                      NEW c \in live'[liveSessions'[s]].connections, stage'[c] = "ready"
      PROVE  Arrives(c, liveSessions[s], revision[s])' /\ liveSessions'[s] = liveSessions[s]
    BY DEF ViewsSound, ViewsQuiet
  <2>1. liveSessions'[s] = liveSessions[s]
    BY DEF ViewsQuiet
  <2>2. liveSessions[s] \in Runtimes
    BY <2>1, RuntimesAreIndices DEF LiveTyped
  <2>3. c \in live[liveSessions[s]].connections /\ c \in Conns /\ stage[c] = "ready"
    BY <2>1, <2>2 DEF ViewsQuiet, LiveTyped, RuntimeRecord
  <2>4. Arrives(c, liveSessions[s], revision[s])
    BY <2>1, <2>3 DEF ViewsSound
  <2>5. live'[liveSessions[s]].session = live[liveSessions[s]].session
    BY <2>1, <2>2 DEF RegisteredSound, ViewsQuiet
  <2>6. \A q \in Slots : At(q, "snapshot") => At(q, "snapshot")' /\ requests'[q] = requests[q]
    BY DEF ViewsQuiet, At
  <2> QED
    BY <2>1, <2>4, <2>5, <2>6 DEF Arrives, ViewsQuiet
<1> QED
  BY <1>1, <1>2

-----------------------------------------------------------------------------
(* What the types give of a single request and of a single runtime.         *)
LEMMA RequestTyped ==
  ASSUME LiveTyped, NEW q \in Slots
  PROVE  /\ requests[q] \in Request /\ requests[q].pc \in Awaits
         /\ requests[q].kind \in {"attach", "detach", "operation"}
         /\ requests[q].conn \in Conns /\ requests[q].session \in Sessions
         /\ requests[q].live \in 0..MaxRuntimes /\ requests[q].revision \in Revisions
         /\ requests[q].live # 0 => requests[q].live \in Runtimes
         /\ revision[requests[q].session] \in Revisions
<1>1. requests[q] \in Request
  BY DEF LiveTyped
<1>2. /\ requests[q].pc \in Awaits /\ requests[q].kind \in {"attach", "detach", "operation"}
      /\ requests[q].conn \in Conns /\ requests[q].session \in Sessions
      /\ requests[q].live \in 0..MaxRuntimes /\ requests[q].revision \in Revisions
  BY <1>1 DEF Request
<1> QED
  BY <1>1, <1>2, RuntimesAreIndices DEF LiveTyped

LEMMA RuntimeTyped ==
  ASSUME LiveTyped, NEW r \in Runtimes
  PROVE  /\ live[r] \in RuntimeRecord /\ live[r].session \in Sessions
         /\ live[r].connections \subseteq Conns /\ live[r].operationCount \in Int
         /\ live[r].subscribed \in BOOLEAN /\ live[r].terminal \in BOOLEAN
         /\ live[r].disposing \in Disposals /\ live[r].state \in RuntimeStates
         /\ live[r].phase \in {"idle", "turn"}
<1>1. live[r] \in RuntimeRecord
  BY DEF LiveTyped
<1> QED
  BY <1>1 DEF RuntimeRecord

LEMMA InHand ==
  ASSUME LiveTyped, UsesSound, NEW q \in Slots, requests[q].pc \in Uses
  PROVE  /\ requests[q].live \in Runtimes /\ live[requests[q].live].state = "open"
         /\ live[requests[q].live].session = requests[q].session
  BY RequestTyped DEF UsesSound

LEMMA RegisteredIsOpen ==
  ASSUME LiveTyped, ManagerInv, NEW s \in Sessions, liveSessions[s] # 0
  PROVE  /\ liveSessions[s] \in Runtimes /\ live[liveSessions[s]].state = "open"
         /\ live[liveSessions[s]].session = s
  BY RuntimesAreIndices DEF LiveTyped, ManagerInv, RegisteredSound

LEMMA NoRequestTyped == NoRequest \in Request /\ NoRequest.pc = "free"
<1>1. "free" \in Awaits /\ "attach" \in {"attach", "detach", "operation"}
  BY DEF Awaits
<1>2. /\ (CHOOSE c \in Conns : TRUE) \in Conns /\ (CHOOSE s \in Sessions : TRUE) \in Sessions
      /\ 0 \in 0..MaxRuntimes /\ 0 \in Revisions
  BY RuntimesAreIndices, LiveAssumption
<1> QED
  BY <1>1, <1>2 DEF NoRequest, Request

LEMMA PcKinds ==
  /\ \A pc \in Opens : pc \notin Uses /\ pc \notin Joins /\ pc \notin Resumed
                       /\ pc \notin {"free", "acquire"}
  /\ \A pc \in Uses : pc \notin Opens /\ pc \notin {"free", "acquire"}
  /\ Joins \subseteq Uses /\ Joins \subseteq Resumed
  /\ "free" \notin Uses \cup Opens \cup Resumed
  /\ "acquire" \in Resumed /\ "acquire" \notin Uses \cup Opens
  /\ {"operate", "snapshot", "awaitDetach", "awaitDisposing"} \subseteq Uses
  /\ \A pc \in {"operate", "snapshot", "awaitDetach", "awaitDisposing", "awaitOpening"} :
       pc \notin Resumed /\ pc \notin Opens /\ pc \notin Joins
  /\ "awaitOpening" \notin Uses
  BY DEF Opens, Uses, Joins, Resumed

-----------------------------------------------------------------------------
(* A step of request q on the open runtime k.                              *)
StepOn(q, x, k, l) ==
  /\ requests' = [requests EXCEPT ![q] = x] /\ live' = [live EXCEPT ![k] = l]
  /\ liveSessions' = liveSessions /\ openingSessions' = openingSessions
  /\ closing' = closing /\ closeWaits' = closeWaits /\ closeFinds' = closeFinds
  /\ stage' = stage

(* What q may go on to.                                                    *)
GoesOn(x) ==
  \/ x.pc = "free"
  \/ /\ x.pc \in {"operate", "snapshot", "awaitDetach"}
     /\ x.live # 0 /\ live[x.live].state = "open" /\ live[x.live].session = x.session
     /\ x.pc = "operate" => x.kind = "operation"

LEMMA StepOnIsGentle ==
  ASSUME LiveTyped, LiveTyped', ManagerInv, UsesSound,
         NEW q \in Slots, NEW x, NEW k \in Runtimes, NEW l, StepOn(q, x, k, l),
         live[k].state = "open", Keeps(live[k], l), l.terminal => live[k].terminal,
         requests[q].pc \notin Opens, GoesOn(x)
  PROVE  ManagerInv' /\ UsesSound'
<1>1. /\ requests'[q] = x /\ \A p \in Slots : p # q => requests'[p] = requests[p]
      /\ live'[k] = l /\ \A r \in Runtimes : r # k => live'[r] = live[r]
  BY DEF StepOn, LiveTyped
<1>2. x.pc \notin Opens \cup {"acquire"} /\ x.pc \notin Joins
  BY DEF GoesOn, Opens, Joins
<1>3. \A r \in Runtimes : Keeps(live[r], live[r])
  BY DEF Keeps
<1>4. GentleStep
  <2>1. \A r \in Runtimes : Keeps(live[r], live'[r])
    BY <1>1, <1>3
  <2>2. \A r \in Runtimes : live[r].state # "open" => live'[r] = live[r]
    BY <1>1
  <2>3. \A p \in Slots : requests[p].pc \in Opens \/ requests'[p].pc \in Opens \cup {"acquire"} =>
          requests'[p] = requests[p]
    BY <1>1, <1>2
  <2> QED
    BY <2>1, <2>2, <2>3 DEF GentleStep, StepOn
<1>5. GentleUses
  <2>1. \A p \in Slots : requests'[p].pc \in Uses \cup {"acquire", "awaitOpening"} =>
          \/ requests'[p] = requests[p]
          \/ /\ requests'[p].pc \in {"operate", "snapshot", "awaitDetach"}
             /\ requests'[p].live # 0 /\ live[requests'[p].live].state = "open"
             /\ live[requests'[p].live].session = requests'[p].session
             /\ requests'[p].pc = "operate" => requests'[p].kind = "operation"
    <3> TAKE p \in Slots
    <3>1. CASE p # q
      BY <3>1, <1>1
    <3>2. CASE p = q
      BY <3>2, <1>1, PcKinds DEF GoesOn
    <3> QED
      BY <3>1, <3>2
  <2>2. \A r \in Runtimes : live'[r].terminal => live[r].terminal
    BY <1>1
  <2> QED
    BY <2>1, <2>2 DEF GentleUses
<1> QED
  BY <1>4, <1>5, GentleKeepsManager, GentleKeepsUses

(* No operation begins or ends in it.                                      *)
LEMMA StepOnKeepsCount ==
  ASSUME LiveTyped, OperationsCounted,
         NEW q \in Slots, NEW x, NEW k \in Runtimes, NEW l, StepOn(q, x, k, l),
         l.operationCount = live[k].operationCount,
         \/ /\ ~(requests[q].kind = "operation" /\ requests[q].pc \in {"operate", "snapshot"})
            /\ ~(x.kind = "operation" /\ x.pc \in {"operate", "snapshot"})
         \/ /\ x.kind = requests[q].kind /\ x.live = requests[q].live
            /\ requests[q].pc \in {"operate", "snapshot"} /\ x.pc \in {"operate", "snapshot"}
  PROVE  OperationsCounted'
<1>1. /\ requests'[q] = x /\ \A p \in Slots : p # q => requests'[p] = requests[p]
      /\ live'[k] = l /\ \A r \in Runtimes : r # k => live'[r] = live[r]
  BY DEF StepOn, LiveTyped
<1>2. \A r \in Runtimes : live'[r].operationCount = live[r].operationCount
  BY <1>1
<1>3. \A p \in Slots : \A r \in Runtimes : p \in OperatingOn(r)' <=> p \in OperatingOn(r)
  <2> TAKE p \in Slots
  <2> TAKE r \in Runtimes
  <2>1. CASE p # q
    BY <2>1, <1>1 DEF OperatingOn
  <2>2. CASE p = q
    BY <2>2, <1>1 DEF OperatingOn
  <2> QED
    BY <2>1, <2>2
<1> QED
  BY <1>2, <1>3, OperationsKept

(* The operation of q ends.                                                *)
LEMMA StepOnEndsOperation ==
  ASSUME LiveTyped, OperationsCounted,
         NEW q \in Slots, NEW x, NEW k \in Runtimes, NEW l, StepOn(q, x, k, l),
         l.operationCount = live[k].operationCount - 1,
         requests[q].kind = "operation", requests[q].pc \in {"operate", "snapshot"},
         requests[q].live = k, x.pc \notin {"operate", "snapshot"}
  PROVE  OperationsCounted'
<1>1. /\ requests'[q] = x /\ \A p \in Slots : p # q => requests'[p] = requests[p]
      /\ live'[k] = l /\ \A r \in Runtimes : r # k => live'[r] = live[r]
  BY DEF StepOn, LiveTyped
<1>2. \A r \in Runtimes \ {k} : live'[r].operationCount = live[r].operationCount
  BY <1>1
<1>3. q \in OperatingOn(k)
  BY DEF OperatingOn
<1>4. OperatingOn(k)' = OperatingOn(k) \ {q}
  BY <1>1 DEF OperatingOn
<1>5. \A r \in Runtimes \ {k} : OperatingOn(r)' = OperatingOn(r)
  BY <1>1 DEF OperatingOn
<1> QED
  BY <1>1, <1>2, <1>3, <1>4, <1>5, OperationEnds

(* An unneeded runtime is disposed of, or was unneeded before.             *)
LEMMA StepOnKeepsDisposal ==
  ASSUME LiveTyped, LiveTyped', UsesSound', OperationsCounted',
         NoDisposeInUse, UnusedIsDisposed,
         NEW q \in Slots, NEW x, NEW k \in Runtimes, NEW l, StepOn(q, x, k, l),
         live[k].state = "open", Keeps(live[k], l),
         requests[q].pc \in Resumed => requests[q].live = k,
         isClosing \/ l.disposing = live[k].disposing \/ l.operationCount = 0,
         \/ isClosing \/ ~Unneeded(l)
         \/ Unneeded(live[k]) /\ requests[q].pc \notin Resumed,
         x.pc = "operate" => live[x.live].disposing = "none"
  PROVE  NoDisposeInUse' /\ UnusedIsDisposed'
<1>1. /\ requests'[q] = x /\ \A p \in Slots : p # q => requests'[p] = requests[p]
      /\ live'[k] = l /\ \A r \in Runtimes : r # k => live'[r] = live[r]
  BY DEF StepOn, LiveTyped
<1>2. isClosing' <=> isClosing
  BY DEF isClosing, StepOn
<1>3. NoDisposeInUse'
  <2>1. \A r \in Runtimes : live'[r].state = "open" =>
          \/ isClosing' \/ live'[r].disposing = live[r].disposing
          \/ live[r].disposing # "none" \/ live'[r].operationCount = 0
    BY <1>1, <1>2
  <2>2. \A p \in Slots : At(p, "operate")' =>
          \/ At(p, "operate") /\ requests'[p].live = requests[p].live
          \/ live[requests'[p].live].disposing = "none"
    BY <1>1 DEF At
  <2> QED
    BY <1>2, <2>1, <2>2, InUseKept
<1>4. UnusedIsDisposed'
  <2>1. \A r \in Runtimes :
          live'[r].state = "open" /\ Unneeded(live'[r]) /\ ~isClosing' =>
            \/ /\ live[r].state = "open" /\ Unneeded(live[r])
               /\ \A p \in Slots : requests[p].pc \in Resumed /\ requests[p].live = r =>
                    requests'[p] = requests[p]
            \/ \E p \in Slots : requests'[p].pc \in Resumed /\ requests'[p].live = r
    <3> TAKE r \in Runtimes
    <3>1. CASE r # k
      BY <3>1, <1>1
    <3>2. CASE r = k
      <4>1. Unneeded(l) /\ ~isClosing => Unneeded(live[k]) /\ requests[q].pc \notin Resumed
        OBVIOUS
      <4> QED
        BY <3>2, <4>1, <1>1, <1>2
    <3> QED
      BY <3>1, <3>2
  <2> QED
    BY <1>2, <2>1, UnusedKept
<1> QED
  BY <1>3, <1>4

(* It leaves the snapshots alone.                                          *)
LEMMA StepOnKeepsViews ==
  ASSUME LiveTyped, LiveTyped', ManagerInv, SnapshotsSound, ViewsSound,
         NEW q \in Slots, NEW x, NEW k \in Runtimes, NEW l, StepOn(q, x, k, l),
         Keeps(live[k], l), l.connections \subseteq live[k].connections,
         l.terminal => live[k].terminal,
         view' = view, revision' = revision, broadcasts' = broadcasts, lost' = lost,
         requests[q].pc # "snapshot",
         x.pc = "snapshot" => x.revision <= revision[x.session]
  PROVE  SnapshotsSound' /\ ViewsSound'
<1>1. /\ requests'[q] = x /\ \A p \in Slots : p # q => requests'[p] = requests[p]
      /\ live'[k] = l /\ \A r \in Runtimes : r # k => live'[r] = live[r]
  BY DEF StepOn, LiveTyped
<1>2. \A r \in Runtimes :
        /\ live'[r].connections \subseteq live[r].connections
        /\ live'[r].terminal => live[r].terminal
        /\ live[r].state = "open" => live'[r].state = "open" /\ live'[r].session = live[r].session
  BY <1>1 DEF Keeps
<1>3. \A p \in Slots : At(p, "snapshot") => requests'[p] = requests[p]
  BY <1>1 DEF At
<1>4. \A p \in Slots : At(p, "snapshot")' =>
        requests'[p] = requests[p] \/ requests'[p].revision <= revision[requests'[p].session]
  BY <1>1 DEF At
<1>5. ViewsQuiet
  BY <1>2, <1>3, <1>4 DEF ViewsQuiet, StepOn
<1> QED
  BY <1>5, ViewsQuietKeeps DEF ManagerInv

LEMMA StepOnTyped ==
  ASSUME LiveTyped, NEW q \in Slots, NEW x \in Request, NEW k \in Runtimes,
         NEW l \in RuntimeRecord, StepOn(q, x, k, l),
         sessionIds' \in [Conns -> SUBSET Sessions],
         revision' \in [Sessions -> Revisions],
         broadcasts' \subseteq Runtimes \X Revisions,
         view' \in [Conns -> [Sessions -> -1..MaxRevision]],
         received' \in 0..MaxRequests, lost' \in 0..MaxLost
  PROVE  LiveTyped'
<1>1. requests' \in [Slots -> Request] /\ live' \in [Runtimes -> RuntimeRecord]
  BY DEF LiveTyped, StepOn
<1> QED
  BY <1>1 DEF LiveTyped, StepOn

-----------------------------------------------------------------------------
(* Requests on a live session.                                             *)

LEMMA LiveInvParts ==
  LiveInv <=> /\ LiveTyped /\ ManagerInv /\ UsesSound /\ OperationsCounted
              /\ NoDisposeInUse /\ UnusedIsDisposed /\ SnapshotsSound /\ ViewsSound
  BY DEF LiveInv

LEMMA ReceiveOperationKeeps ==
  ASSUME LiveInv, NEW q \in Slots, NEW c \in Conns, NEW s \in Sessions,
         ReceiveOperation(q, c, s)
  PROVE  LiveInv'
<1>0. /\ LiveTyped /\ ManagerInv /\ UsesSound /\ OperationsCounted
      /\ NoDisposeInUse /\ UnusedIsDisposed /\ SnapshotsSound /\ ViewsSound
  BY DEF LiveInv
<1>1. PICK k \in Runtimes :
        /\ k = liveSessions[s] /\ live[k].state = "open" /\ live[k].session = s
        /\ live[k].disposing = "none" /\ ~live[k].terminal
  BY <1>0, RegisteredIsOpen DEF ReceiveOperation, RequireAttached
<1> DEFINE x == [pc |-> "operate", kind |-> "operation", conn |-> c, session |-> s,
                 live |-> k, revision |-> 0]
           l == [live[k] EXCEPT !.operationCount = live[k].operationCount + 1]
<1>2. /\ StepOn(q, x, k, l) /\ sessionIds' = sessionIds
      /\ view' = view /\ revision' = revision /\ broadcasts' = broadcasts
      /\ lost' = lost /\ received < MaxRequests /\ received' = received + 1
      /\ requests[q].pc = "free"
  <2>1. live' = [live EXCEPT ![k] = l]
    BY <1>1 DEF ReceiveOperation
  <2> QED
    BY <2>1, <1>1 DEF ReceiveOperation, Receive, At, StepOn, connVars, managerVars,
      snapshotVars, closeVars
<1>3. live[k] \in RuntimeRecord /\ live[k].operationCount \in Int
  BY <1>0, RuntimeTyped
<1>4. /\ l \in RuntimeRecord /\ l.operationCount = live[k].operationCount + 1
      /\ l.state = live[k].state /\ l.session = live[k].session
      /\ l.disposing = live[k].disposing /\ l.terminal = live[k].terminal
      /\ l.subscribed = live[k].subscribed /\ l.connections = live[k].connections
  BY <1>3 DEF RuntimeRecord
<1>5. x \in Request
  <2>1. "operate" \in Awaits /\ 0 \in Revisions /\ k \in 0..MaxRuntimes
    BY RuntimesAreIndices DEF Awaits
  <2> QED
    BY <2>1 DEF Request
<1>6. /\ x.pc = "operate" /\ x.kind = "operation" /\ x.live = k /\ x.session = s
  OBVIOUS
<1> HIDE DEF x, l
<1>7. LiveTyped'
  <2>1. received' \in 0..MaxRequests
    BY <1>0, <1>2, LiveAssumption DEF LiveTyped
  <2> QED
    BY <2>1, <1>0, <1>2, <1>4, <1>5, StepOnTyped DEF LiveTyped
<1>8. Keeps(live[k], l) /\ GoesOn(x) /\ requests[q].pc \notin Opens \cup Resumed
  BY <1>1, <1>2, <1>4, <1>6, PcKinds, RuntimesAreIndices DEF Keeps, GoesOn
<1>9. ManagerInv' /\ UsesSound'
  BY <1>0, <1>1, <1>2, <1>4, <1>7, <1>8, StepOnIsGentle
<1>10. OperationsCounted'
  <2>1. /\ requests'[q] = x /\ \A p \in Slots : p # q => requests'[p] = requests[p]
        /\ live'[k] = l /\ \A r \in Runtimes : r # k => live'[r] = live[r]
    BY <1>0, <1>2 DEF StepOn, LiveTyped
  <2>2. q \notin OperatingOn(k)
    BY <1>2 DEF OperatingOn
  <2>3. OperatingOn(k)' = OperatingOn(k) \cup {q}
    BY <2>1, <1>6 DEF OperatingOn
  <2>4. \A r \in Runtimes \ {k} : OperatingOn(r)' = OperatingOn(r)
    BY <2>1, <1>2, <1>6 DEF OperatingOn
  <2>5. live'[k].operationCount = live[k].operationCount + 1
    BY <2>1, <1>4
  <2>6. \A r \in Runtimes \ {k} : live'[r].operationCount = live[r].operationCount
    BY <2>1
  <2> QED
    BY <1>0, <2>2, <2>3, <2>4, <2>5, <2>6, OperationBegins
<1>11. l.operationCount # 0
  <2>1. Cardinality(OperatingOn(k)) \in Nat
    BY OperatingIsFinite
  <2> QED
    BY <2>1, <1>0, <1>4 DEF OperationsCounted
<1>12. NoDisposeInUse' /\ UnusedIsDisposed'
  BY <1>0, <1>1, <1>2, <1>4, <1>6, <1>7, <1>8, <1>9, <1>10, <1>11, StepOnKeepsDisposal
    DEF Unneeded
<1>13. SnapshotsSound' /\ ViewsSound'
  BY <1>0, <1>1, <1>2, <1>4, <1>6, <1>7, <1>8, StepOnKeepsViews
<1> QED
  BY <1>7, <1>9, <1>10, <1>12, <1>13 DEF LiveInv

LEMMA OperationSucceedsKeeps ==
  ASSUME LiveInv, NEW q \in Slots, OperationSucceeds(q)
  PROVE  LiveInv'
<1>0. /\ LiveTyped /\ ManagerInv /\ UsesSound /\ OperationsCounted
      /\ NoDisposeInUse /\ UnusedIsDisposed /\ SnapshotsSound /\ ViewsSound
  BY DEF LiveInv
<1>1. requests[q].pc = "operate" /\ requests[q].kind = "operation"
  BY <1>0 DEF OperationSucceeds, At, UsesSound
<1>2. PICK k \in Runtimes : /\ k = requests[q].live /\ live[k].state = "open"
                            /\ live[k].session = requests[q].session
  BY <1>0, <1>1, PcKinds, InHand
<1> DEFINE x == [requests[q] EXCEPT !.pc = "snapshot",
                                    !.revision = revision[requests[q].session]]
           l == live[k]
<1>3. requests[q] \in Request /\ requests[q].session \in Sessions
      /\ revision[requests[q].session] \in Revisions
  BY <1>0, RequestTyped
<1>4. /\ x \in Request /\ x.pc = "snapshot" /\ x.kind = "operation" /\ x.live = k
      /\ x.session = requests[q].session /\ x.revision = revision[requests[q].session]
  <2>1. "snapshot" \in Awaits
    BY DEF Awaits
  <2> QED
    BY <2>1, <1>1, <1>2, <1>3 DEF Request
<1>5. /\ StepOn(q, x, k, l) /\ sessionIds' = sessionIds
      /\ view' = view /\ revision' = revision /\ broadcasts' = broadcasts
      /\ lost' = lost /\ received' = received
  <2>1. live' = [live EXCEPT ![k] = l]
    BY <1>0 DEF OperationSucceeds, LiveTyped
  <2> QED
    BY <2>1 DEF OperationSucceeds, StepOn, connVars, managerVars, snapshotVars, closeVars,
      countVars
<1>6. l \in RuntimeRecord /\ l.operationCount \in Int
  BY <1>0, RuntimeTyped
<1> HIDE DEF x
<1>7. LiveTyped'
  BY <1>0, <1>4, <1>5, <1>6, StepOnTyped DEF LiveTyped
<1>8. Keeps(live[k], l) /\ GoesOn(x) /\ requests[q].pc \notin Opens \cup Resumed
  BY <1>1, <1>2, <1>4, PcKinds, RuntimesAreIndices DEF Keeps, GoesOn
<1>9. ManagerInv' /\ UsesSound'
  BY <1>0, <1>2, <1>5, <1>7, <1>8, StepOnIsGentle
<1>10. OperationsCounted'
  BY <1>0, <1>1, <1>2, <1>4, <1>5, StepOnKeepsCount
<1>11. ~Unneeded(l)
  <2>1. InUseIsCounted
    BY <1>0, InUseCounted
  <2> QED
    BY <2>1, <1>1, <1>2 DEF InUseIsCounted, At, Unneeded
<1>12. NoDisposeInUse' /\ UnusedIsDisposed'
  BY <1>0, <1>2, <1>4, <1>5, <1>7, <1>8, <1>9, <1>10, <1>11, StepOnKeepsDisposal
<1>13. SnapshotsSound' /\ ViewsSound'
  <2>1. x.revision <= revision[x.session]
    BY <1>3, <1>4, RuntimesAreIndices
  <2> QED
    BY <2>1, <1>0, <1>1, <1>5, <1>7, <1>8, StepOnKeepsViews
<1> QED
  BY <1>7, <1>9, <1>10, <1>12, <1>13 DEF LiveInv

(* What follows a snapshot.                                                *)
LEMMA AfterSnapshotKeeps ==
  ASSUME LiveTyped, NEW q \in Slots, NEW ok \in BOOLEAN, NEW k \in Runtimes,
         k = requests[q].live,
         requests[q].kind = "operation" =>
           live[k].operationCount # 0 /\ live[k].operationCount \in Nat
  PROVE  LET l == AfterSnapshot(q, ok) IN
         /\ l \in RuntimeRecord /\ Keeps(live[k], l)
         /\ l.connections = live[k].connections /\ l.terminal = live[k].terminal
         /\ requests[q].kind = "operation" => l.operationCount = live[k].operationCount - 1
         /\ requests[q].kind # "operation" => l.operationCount = live[k].operationCount
         /\ isClosing \/ l.disposing = live[k].disposing \/ l.operationCount = 0
         /\ isClosing \/ ~Unneeded(l) \/ Unneeded(live[k])
<1> DEFINE l == AfterSnapshot(q, ok)
           less == [live[k] EXCEPT !.operationCount = live[k].operationCount - 1]
<1>1. /\ live[k] \in RuntimeRecord /\ live[k].operationCount \in Int
      /\ requests[q].kind \in {"attach", "detach", "operation"}
  BY RuntimeTyped, RequestTyped
<1>2. CASE requests[q].kind = "operation"
  <2>1. l = MaybeDispose(less)
    BY <1>2 DEF AfterSnapshot
  <2>2. /\ less \in RuntimeRecord /\ less.operationCount = live[k].operationCount - 1
        /\ less.state = live[k].state /\ less.session = live[k].session
        /\ less.disposing = live[k].disposing /\ less.terminal = live[k].terminal
        /\ less.subscribed = live[k].subscribed /\ less.connections = live[k].connections
    BY <1>1 DEF RuntimeRecord
  <2> HIDE DEF less, l
  <2>3. /\ MaybeDispose(less) \in RuntimeRecord
        /\ MaybeDispose(less).state = less.state /\ MaybeDispose(less).session = less.session
        /\ MaybeDispose(less).connections = less.connections
        /\ MaybeDispose(less).operationCount = less.operationCount
        /\ MaybeDispose(less).terminal = less.terminal
        /\ ~isClosing /\ Unneeded(less) =>
             MaybeDispose(less).disposing = "pending" /\ less.disposing = "none"
        /\ ~(~isClosing /\ Unneeded(less)) => MaybeDispose(less) = less
        /\ isClosing \/ ~Unneeded(MaybeDispose(less))
    BY <2>2, DisposedIfUnneeded
  <2>4. Keeps(live[k], l)
    BY <2>1, <2>2, <2>3 DEF Keeps
  <2>5. isClosing \/ l.disposing = live[k].disposing \/ l.operationCount = 0
    BY <2>1, <2>2, <2>3 DEF Unneeded
  <2> QED
    BY <1>2, <2>1, <2>2, <2>3, <2>4, <2>5 DEF l
<1>3. CASE requests[q].kind = "detach" /\ ok
  <2>1. l = MaybeDispose(live[k])
    BY <1>3 DEF AfterSnapshot
  <2> HIDE DEF l
  <2>3. /\ MaybeDispose(live[k]) \in RuntimeRecord
        /\ MaybeDispose(live[k]).state = live[k].state
        /\ MaybeDispose(live[k]).session = live[k].session
        /\ MaybeDispose(live[k]).connections = live[k].connections
        /\ MaybeDispose(live[k]).operationCount = live[k].operationCount
        /\ MaybeDispose(live[k]).terminal = live[k].terminal
        /\ ~isClosing /\ Unneeded(live[k]) =>
             MaybeDispose(live[k]).disposing = "pending" /\ live[k].disposing = "none"
        /\ ~(~isClosing /\ Unneeded(live[k])) => MaybeDispose(live[k]) = live[k]
        /\ isClosing \/ ~Unneeded(MaybeDispose(live[k]))
    BY <1>1, DisposedIfUnneeded
  <2>4. Keeps(live[k], l)
    BY <2>1, <2>3 DEF Keeps
  <2>5. isClosing \/ l.disposing = live[k].disposing \/ l.operationCount = 0
    BY <2>1, <2>3 DEF Unneeded
  <2> QED
    BY <1>3, <2>1, <2>3, <2>4, <2>5 DEF l
<1>4. CASE requests[q].kind # "operation" /\ ~(requests[q].kind = "detach" /\ ok)
  <2>1. l = live[k]
    BY <1>4 DEF AfterSnapshot
  <2> QED
    BY <1>1, <1>4, <2>1 DEF Keeps
<1> QED
  BY <1>2, <1>3, <1>4

LEMMA OperationFailsKeeps ==
  ASSUME LiveInv, NEW q \in Slots, OperationFails(q)
  PROVE  LiveInv'
<1>0. /\ LiveTyped /\ ManagerInv /\ UsesSound /\ OperationsCounted
      /\ NoDisposeInUse /\ UnusedIsDisposed /\ SnapshotsSound /\ ViewsSound
  BY DEF LiveInv
<1>1. requests[q].pc = "operate" /\ requests[q].kind = "operation" /\ Quiet
  BY <1>0 DEF OperationFails, At, UsesSound
<1>2. PICK k \in Runtimes : /\ k = requests[q].live /\ live[k].state = "open"
                            /\ live[k].session = requests[q].session
  BY <1>0, <1>1, PcKinds, InHand
<1> DEFINE l == AfterSnapshot(q, FALSE)
<1>3. StepOn(q, NoRequest, k, l) /\ sessionIds' = sessionIds
      /\ view' = view /\ revision' = revision /\ broadcasts' = broadcasts
      /\ lost' = lost /\ received' = received
  BY <1>2 DEF OperationFails, StepOn, connVars, managerVars, snapshotVars, closeVars, countVars
<1>4. live[k].operationCount # 0 /\ live[k].operationCount \in Nat
  <2>1. InUseIsCounted
    BY <1>0, InUseCounted
  <2>2. live[k].operationCount \in Nat
    BY <1>0, OperatingIsFinite DEF OperationsCounted
  <2> QED
    BY <2>1, <2>2, <1>1, <1>2 DEF InUseIsCounted, At
<1>5. /\ l \in RuntimeRecord /\ Keeps(live[k], l)
      /\ l.connections = live[k].connections /\ l.terminal = live[k].terminal
      /\ l.operationCount = live[k].operationCount - 1
      /\ isClosing \/ l.disposing = live[k].disposing \/ l.operationCount = 0
      /\ isClosing \/ ~Unneeded(l) \/ Unneeded(live[k])
  BY <1>0, <1>1, <1>2, <1>4, AfterSnapshotKeeps
<1> HIDE DEF l
<1>6. NoRequest \in Request /\ NoRequest.pc = "free"
  BY NoRequestTyped
<1>7. LiveTyped'
  BY <1>0, <1>3, <1>5, <1>6, StepOnTyped DEF LiveTyped
<1>8. GoesOn(NoRequest) /\ requests[q].pc \notin Opens \cup Resumed
  BY <1>1, <1>6, PcKinds DEF GoesOn
<1>9. ManagerInv' /\ UsesSound'
  BY <1>0, <1>2, <1>3, <1>5, <1>7, <1>8, StepOnIsGentle
<1>10. OperationsCounted'
  BY <1>0, <1>1, <1>2, <1>3, <1>5, <1>6, StepOnEndsOperation
<1>12. NoDisposeInUse' /\ UnusedIsDisposed'
  BY <1>0, <1>2, <1>3, <1>5, <1>6, <1>7, <1>8, <1>9, <1>10, StepOnKeepsDisposal
<1>13. SnapshotsSound' /\ ViewsSound'
  BY <1>0, <1>1, <1>3, <1>5, <1>6, <1>7, StepOnKeepsViews
<1> QED
  BY <1>7, <1>9, <1>10, <1>12, <1>13 DEF LiveInv

(* A step at which a snapshot is sent, or fails.                           *)
LEMMA SnapshotsKept ==
  ASSUME LiveTyped, LiveTyped', SnapshotsSound,
         \A s \in Sessions : revision[s] <= revision'[s],
         \A c \in Conns, s \in Sessions : view'[c][s] = view[c][s] \/ view'[c][s] <= revision'[s],
         \A b \in broadcasts' : b \in broadcasts \/
           (live'[b[1]].state = "open" /\ b[2] <= revision'[live'[b[1]].session]),
         \A c \in Conns : stage'[c] = "ready" => stage[c] = "ready",
         \A r \in Runtimes :
           /\ ~live'[r].terminal \/ (live[r].terminal /\ live'[r].connections \subseteq live[r].connections)
           /\ live[r].state = "open" => live'[r].state = "open" /\ live'[r].session = live[r].session,
         \A q \in Slots : At(q, "snapshot")' =>
           requests'[q] = requests[q] \/ requests'[q].revision <= revision'[requests'[q].session]
  PROVE  SnapshotsSound'
<1>0. /\ \A s \in Sessions : revision[s] \in Int /\ revision'[s] \in Int
      /\ \A c \in Conns, s \in Sessions : view[c][s] \in Int
  BY RuntimesAreIndices DEF LiveTyped
<1>1. \A c \in Conns, s \in Sessions : view'[c][s] <= revision'[s]
  BY <1>0 DEF SnapshotsSound
<1>2. \A b \in broadcasts' :
        live'[b[1]].state = "open" /\ b[2] <= revision'[live'[b[1]].session]
  <2> TAKE b \in broadcasts'
  <2>1. CASE b \in broadcasts
    <3>1. b[1] \in Runtimes /\ b[2] \in Int
      BY <2>1, RuntimesAreIndices DEF LiveTyped
    <3>2. live[b[1]].session \in Sessions
      BY <3>1, RuntimeTyped
    <3>3. live[b[1]].state = "open" /\ b[2] <= revision[live[b[1]].session]
      BY <2>1 DEF SnapshotsSound
    <3> QED
      BY <3>1, <3>2, <3>3, <1>0
  <2> QED
    BY <2>1
<1>3. \A q \in Slots : At(q, "snapshot")' =>
        requests'[q].revision <= revision'[requests'[q].session]
  <2> SUFFICES ASSUME NEW q \in Slots, At(q, "snapshot")', requests'[q] = requests[q]
      PROVE  requests'[q].revision <= revision'[requests'[q].session]
    OBVIOUS
  <2>1. requests[q].session \in Sessions /\ requests[q].revision \in Int
    BY RequestTyped, RuntimesAreIndices
  <2>2. requests[q].revision <= revision[requests[q].session]
    BY DEF SnapshotsSound, At
  <2> QED
    BY <2>1, <2>2, <1>0
<1>4. \A r \in Runtimes : live'[r].terminal =>
        \A c \in live'[r].connections : stage'[c] # "ready"
  <2>1. \A r \in Runtimes : live[r].connections \subseteq Conns
    BY RuntimeTyped
  <2> QED
    BY <2>1 DEF SnapshotsSound
<1> QED
  BY <1>1, <1>2, <1>3, <1>4 DEF SnapshotsSound

LEMMA SnapshotFailsKeeps ==
  ASSUME LiveInv, NEW q \in Slots, SnapshotFails(q)
  PROVE  LiveInv'
<1>0. /\ LiveTyped /\ ManagerInv /\ UsesSound /\ OperationsCounted
      /\ NoDisposeInUse /\ UnusedIsDisposed /\ SnapshotsSound /\ ViewsSound
  BY DEF LiveInv
<1>1. requests[q].pc = "snapshot" /\ Quiet
  BY DEF SnapshotFails, At
<1>2. PICK k \in Runtimes : /\ k = requests[q].live /\ live[k].state = "open"
                            /\ live[k].session = requests[q].session
  BY <1>0, <1>1, PcKinds, InHand
<1> DEFINE l == AfterSnapshot(q, FALSE)
<1>3. StepOn(q, NoRequest, k, l) /\ sessionIds' = sessionIds
      /\ view' = view /\ revision' = revision /\ broadcasts' = broadcasts
      /\ lost < MaxLost /\ lost' = lost + 1 /\ received' = received
  BY <1>2 DEF SnapshotFails, StepOn, connVars, managerVars, snapshotVars, closeVars
<1>4. requests[q].kind = "operation" =>
        live[k].operationCount # 0 /\ live[k].operationCount \in Nat
  <2>1. requests[q].kind = "operation" => q \in OperatingOn(k)
    BY <1>1, <1>2 DEF OperatingOn
  <2> QED
    BY <2>1, <1>0, OperatingIsFinite DEF OperationsCounted
<1>5. /\ l \in RuntimeRecord /\ Keeps(live[k], l)
      /\ l.connections = live[k].connections /\ l.terminal = live[k].terminal
      /\ requests[q].kind = "operation" => l.operationCount = live[k].operationCount - 1
      /\ requests[q].kind # "operation" => l.operationCount = live[k].operationCount
      /\ isClosing \/ l.disposing = live[k].disposing \/ l.operationCount = 0
      /\ isClosing \/ ~Unneeded(l) \/ Unneeded(live[k])
  BY <1>0, <1>2, <1>4, AfterSnapshotKeeps
<1> HIDE DEF l
<1>6. NoRequest \in Request /\ NoRequest.pc = "free"
  BY NoRequestTyped
<1>7. LiveTyped'
  <2>1. lost' \in 0..MaxLost
    BY <1>0, <1>3, LiveAssumption DEF LiveTyped
  <2> QED
    BY <2>1, <1>0, <1>3, <1>5, <1>6, StepOnTyped DEF LiveTyped
<1>8. GoesOn(NoRequest) /\ requests[q].pc \notin Opens \cup Resumed
  BY <1>1, <1>6, PcKinds DEF GoesOn
<1>9. ManagerInv' /\ UsesSound'
  BY <1>0, <1>2, <1>3, <1>5, <1>7, <1>8, StepOnIsGentle
<1>10. OperationsCounted'
  <2>1. CASE requests[q].kind = "operation"
    BY <2>1, <1>0, <1>1, <1>2, <1>3, <1>5, <1>6, StepOnEndsOperation
  <2>2. CASE requests[q].kind # "operation"
    BY <2>2, <1>0, <1>1, <1>2, <1>3, <1>5, <1>6, StepOnKeepsCount
  <2> QED
    BY <2>1, <2>2
<1>12. NoDisposeInUse' /\ UnusedIsDisposed'
  BY <1>0, <1>2, <1>3, <1>5, <1>6, <1>7, <1>8, <1>9, <1>10, StepOnKeepsDisposal
<1>13. SnapshotsSound'
  <2>1. /\ requests'[q] = NoRequest /\ \A p \in Slots : p # q => requests'[p] = requests[p]
        /\ live'[k] = l /\ \A r \in Runtimes : r # k => live'[r] = live[r]
    BY <1>0, <1>3 DEF StepOn, LiveTyped
  <2>2. \A r \in Runtimes :
           /\ ~live'[r].terminal \/ (live[r].terminal /\ live'[r].connections \subseteq live[r].connections)
           /\ live[r].state = "open" => live'[r].state = "open" /\ live'[r].session = live[r].session
    BY <2>1, <1>5 DEF Keeps
  <2>3. \A p \in Slots : At(p, "snapshot")' => requests'[p] = requests[p]
    BY <2>1, <1>6 DEF At
  <2>4. \A s \in Sessions : revision[s] <= revision'[s]
    BY <1>0, <1>3, RuntimesAreIndices DEF LiveTyped
  <2>5. stage' = stage
    BY <1>3 DEF StepOn
  <2>6. \A c \in Conns, s \in Sessions : view'[c][s] = view[c][s] \/ view'[c][s] <= revision'[s]
    BY <1>3
  <2>7. \A b \in broadcasts' : b \in broadcasts \/
          (live'[b[1]].state = "open" /\ b[2] <= revision'[live'[b[1]].session])
    BY <1>3
  <2>8. \A c \in Conns : stage'[c] = "ready" => stage[c] = "ready"
    BY <2>5
  <2>9. \A p \in Slots : At(p, "snapshot")' =>
          requests'[p] = requests[p] \/ requests'[p].revision <= revision'[requests'[p].session]
    BY <2>3
  <2> QED
    BY <2>2, <2>4, <2>6, <2>7, <2>8, <2>9, <1>0, <1>7, SnapshotsKept
<1>14. ViewsSound'
  <2>1. lost' # 0
    BY <1>0, <1>3, LiveAssumption DEF LiveTyped
  <2> QED
    BY <2>1 DEF ViewsSound
<1> QED
  BY <1>7, <1>9, <1>10, <1>12, <1>13, <1>14 DEF LiveInv

-----------------------------------------------------------------------------
(* Snapshots that are sent.                                                *)

(* broadcastSnapshot shows each connection a revision, none before asked.   *)
LEMMA BroadcastShows ==
  ASSUME LiveTyped, SnapshotsSound, NEW k \in Runtimes, NEW asked \in Revisions,
         Broadcast(live[k], asked)
  PROVE  /\ view' \in [Conns -> [Sessions -> -1..MaxRevision]]
         /\ \A c \in Conns, s \in Sessions :
              /\ view'[c][s] = view[c][s] \/ view'[c][s] <= revision[s]
              /\ view[c][s] = revision[s] => view'[c][s] = revision[s]
         /\ \A c \in live[k].connections : stage[c] = "ready" /\ asked = revision[live[k].session] =>
              view'[c][live[k].session] = revision[live[k].session]
<1> DEFINE s == live[k].session
<1>0. /\ s \in Sessions /\ live[k].connections \subseteq Conns
      /\ \A t \in Sessions : revision[t] \in 0..MaxRevision
      /\ \A c \in Conns, t \in Sessions : view[c][t] \in -1..MaxRevision /\ view[c][t] <= revision[t]
      /\ MaxRevision \in Nat /\ asked \in 0..MaxRevision
  BY RuntimeTyped, RuntimesAreIndices DEF LiveTyped, SnapshotsSound
<1>1. PICK rev \in asked..revision[s] :
        view' = [c \in Conns |->
                   IF c \in live[k].connections /\ stage[c] = "ready"
                   THEN [view[c] EXCEPT ![s] = Shown(c, s, rev)]
                   ELSE view[c]]
  BY DEF Broadcast
<1>2. rev \in Int /\ asked <= rev /\ rev <= revision[s]
  BY <1>0, <1>1
<1>3. \A c \in Conns :
        /\ Shown(c, s, rev) \in -1..MaxRevision /\ Shown(c, s, rev) <= revision[s]
        /\ view[c][s] = revision[s] => Shown(c, s, rev) = revision[s]
        /\ asked = revision[s] => Shown(c, s, rev) = revision[s]
  <2> HIDE DEF s
  <2> QED
    BY <1>0, <1>2 DEF Shown
<1> HIDE DEF s
<1>4. \A c \in Conns :
        /\ view[c] \in [Sessions -> -1..MaxRevision]
        /\ view'[c] = IF c \in live[k].connections /\ stage[c] = "ready"
                      THEN [view[c] EXCEPT ![s] = Shown(c, s, rev)] ELSE view[c]
  BY <1>1 DEF LiveTyped
<1>5. \A c \in Conns : view'[c] \in [Sessions -> -1..MaxRevision]
  BY <1>3, <1>4
<1>6. view' \in [Conns -> [Sessions -> -1..MaxRevision]]
  BY <1>1, <1>5
<1>7. \A c \in Conns, t \in Sessions :
        view'[c][t] = IF c \in live[k].connections /\ stage[c] = "ready" /\ t = s
                      THEN Shown(c, s, rev) ELSE view[c][t]
  BY <1>0, <1>4
<1>8. \A c \in Conns, t \in Sessions :
        /\ view'[c][t] = view[c][t] \/ view'[c][t] <= revision[t]
        /\ view[c][t] = revision[t] => view'[c][t] = revision[t]
  BY <1>3, <1>7
<1>9. \A c \in live[k].connections : stage[c] = "ready" /\ asked = revision[s] =>
        view'[c][s] = revision[s]
  BY <1>0, <1>3, <1>7
<1> QED
  BY <1>6, <1>8, <1>9 DEF s

LEMMA SnapshotDoneKeeps ==
  ASSUME LiveInv, NEW q \in Slots, SnapshotDone(q)
  PROVE  LiveInv'
<1>0. /\ LiveTyped /\ ManagerInv /\ UsesSound /\ OperationsCounted
      /\ NoDisposeInUse /\ UnusedIsDisposed /\ SnapshotsSound /\ ViewsSound
  BY DEF LiveInv
<1>1. requests[q].pc = "snapshot" /\ Quiet
  BY DEF SnapshotDone, At
<1>2. PICK k \in Runtimes : /\ k = requests[q].live /\ live[k].state = "open"
                            /\ live[k].session = requests[q].session
  BY <1>0, <1>1, PcKinds, InHand
<1> DEFINE l == AfterSnapshot(q, TRUE)
           x == IF requests[q].kind = "detach" /\ l.disposing = "pending"
                THEN [requests[q] EXCEPT !.pc = "awaitDetach", !.revision = 0]
                ELSE NoRequest
           asked == requests[q].revision
<1>3. /\ StepOn(q, x, k, l) /\ sessionIds' = sessionIds
      /\ revision' = revision /\ broadcasts' = broadcasts
      /\ lost' = lost /\ received' = received
      /\ Broadcast(live[k], asked)
  BY <1>2 DEF SnapshotDone, StepOn, connVars, managerVars, snapshotVars, closeVars, countVars
<1>4. requests[q].kind = "operation" =>
        live[k].operationCount # 0 /\ live[k].operationCount \in Nat
  <2>1. requests[q].kind = "operation" => q \in OperatingOn(k)
    BY <1>1, <1>2 DEF OperatingOn
  <2> QED
    BY <2>1, <1>0, OperatingIsFinite DEF OperationsCounted
<1>5. /\ l \in RuntimeRecord /\ Keeps(live[k], l)
      /\ l.connections = live[k].connections /\ l.terminal = live[k].terminal
      /\ requests[q].kind = "operation" => l.operationCount = live[k].operationCount - 1
      /\ requests[q].kind # "operation" => l.operationCount = live[k].operationCount
      /\ isClosing \/ l.disposing = live[k].disposing \/ l.operationCount = 0
      /\ isClosing \/ ~Unneeded(l) \/ Unneeded(live[k])
  BY <1>0, <1>2, <1>4, AfterSnapshotKeeps
<1> HIDE DEF l
<1>6. /\ x \in Request /\ x.pc \in {"free", "awaitDetach"}
      /\ x.pc = "awaitDetach" => x.kind = "detach" /\ x.live = k /\ x.session = requests[q].session
  <2>1. "awaitDetach" \in Awaits /\ 0 \in Revisions
    BY RuntimesAreIndices DEF Awaits
  <2>2. requests[q] \in Request
    BY <1>0, RequestTyped
  <2> QED
    BY <2>1, <2>2, <1>2, NoRequestTyped DEF Request
<1>7. /\ view' \in [Conns -> [Sessions -> -1..MaxRevision]]
      /\ \A c \in Conns, s \in Sessions :
           /\ view'[c][s] = view[c][s] \/ view'[c][s] <= revision[s]
           /\ view[c][s] = revision[s] => view'[c][s] = revision[s]
      /\ \A c \in live[k].connections : stage[c] = "ready" /\ asked = revision[live[k].session] =>
           view'[c][live[k].session] = revision[live[k].session]
  <2>1. asked \in Revisions
    BY <1>0, RequestTyped
  <2> QED
    BY <2>1, <1>0, <1>3, BroadcastShows
<1> HIDE DEF x, asked
<1>8. LiveTyped'
  BY <1>0, <1>3, <1>5, <1>6, <1>7, StepOnTyped DEF LiveTyped
<1>9. GoesOn(x) /\ requests[q].pc \notin Opens \cup Resumed
  BY <1>1, <1>2, <1>6, PcKinds, RuntimesAreIndices DEF GoesOn
<1>10. ManagerInv' /\ UsesSound'
  BY <1>0, <1>2, <1>3, <1>5, <1>8, <1>9, StepOnIsGentle
<1>11. OperationsCounted'
  <2>1. CASE requests[q].kind = "operation"
    BY <2>1, <1>0, <1>1, <1>2, <1>3, <1>5, <1>6, StepOnEndsOperation
  <2>2. CASE requests[q].kind # "operation"
    BY <2>2, <1>0, <1>1, <1>2, <1>3, <1>5, <1>6, StepOnKeepsCount
  <2> QED
    BY <2>1, <2>2
<1>12. NoDisposeInUse' /\ UnusedIsDisposed'
  BY <1>0, <1>2, <1>3, <1>5, <1>6, <1>8, <1>9, <1>10, <1>11, StepOnKeepsDisposal
<1>13. /\ requests'[q] = x /\ \A p \in Slots : p # q => requests'[p] = requests[p]
       /\ live'[k] = l /\ \A r \in Runtimes : r # k => live'[r] = live[r]
       /\ stage' = stage /\ liveSessions' = liveSessions
  BY <1>0, <1>3 DEF StepOn, LiveTyped
<1>14. SnapshotsSound'
  <2>2. \A r \in Runtimes :
           /\ ~live'[r].terminal \/ (live[r].terminal /\ live'[r].connections \subseteq live[r].connections)
           /\ live[r].state = "open" => live'[r].state = "open" /\ live'[r].session = live[r].session
    BY <1>13, <1>5 DEF Keeps
  <2>3. \A p \in Slots : At(p, "snapshot")' => requests'[p] = requests[p]
    BY <1>13, <1>6 DEF At
  <2>4. \A s \in Sessions : revision[s] <= revision'[s]
    BY <1>0, <1>3, RuntimesAreIndices DEF LiveTyped
  <2>6. \A c \in Conns, s \in Sessions : view'[c][s] = view[c][s] \/ view'[c][s] <= revision'[s]
    BY <1>3, <1>7
  <2>7. \A b \in broadcasts' : b \in broadcasts \/
          (live'[b[1]].state = "open" /\ b[2] <= revision'[live'[b[1]].session])
    BY <1>3
  <2>8. \A c \in Conns : stage'[c] = "ready" => stage[c] = "ready"
    BY <1>13
  <2>9. \A p \in Slots : At(p, "snapshot")' =>
          requests'[p] = requests[p] \/ requests'[p].revision <= revision'[requests'[p].session]
    BY <2>3
  <2> QED
    BY <2>2, <2>4, <2>6, <2>7, <2>8, <2>9, <1>0, <1>8, SnapshotsKept
<1>15. ViewsSound'
  <2> SUFFICES ASSUME lost = 0, NEW s \in Sessions, liveSessions[s] # 0,
                      NEW c \in live'[liveSessions[s]].connections, stage[c] = "ready"
      PROVE  Arrives(c, liveSessions[s], revision[s])'
    BY <1>3, <1>13 DEF ViewsSound
  <2>1. PICK r \in Runtimes : r = liveSessions[s] /\ live[r].state = "open" /\ live[r].session = s
    BY <1>0, RegisteredIsOpen
  <2>2. c \in live[r].connections /\ c \in Conns /\ live'[r].session = s
    BY <2>1, <1>0, <1>5, <1>13, RuntimeTyped DEF Keeps
  <2>3. Arrives(c, r, revision[s])
    BY <2>1, <2>2, <1>0 DEF ViewsSound
  <2>4. CASE view[c][s] = revision[s]
    <3>1. view'[c][s] = revision'[s]
      BY <2>2, <2>4, <1>3, <1>7
    <3> QED
      BY <3>1, <2>1, <2>2, <1>13 DEF Arrives
  <2>5. CASE <<r, revision[s]>> \in broadcasts
    BY <2>1, <2>5, <1>3, <1>13 DEF Arrives
  <2>6. ASSUME NEW p \in Slots, At(p, "snapshot"), requests[p].live = r,
               requests[p].revision = revision[s]
        PROVE  Arrives(c, liveSessions[s], revision[s])'
    <3>1. CASE p # q
      BY <2>1, <2>6, <3>1, <1>3, <1>13 DEF Arrives, At
    <3>2. CASE p = q
      <4>1. r = k /\ asked = revision[live[k].session] /\ live[k].session = s
        BY <2>1, <2>6, <3>2, <1>2 DEF asked
      <4>2. view'[c][s] = revision'[s]
        BY <4>1, <2>2, <1>3, <1>7
      <4> QED
        BY <4>2, <2>1, <2>2, <1>13 DEF Arrives
    <3> QED
      BY <3>1, <3>2
  <2> QED
    BY <2>1, <2>3, <2>4, <2>5, <2>6 DEF Arrives
<1> QED
  BY <1>8, <1>10, <1>11, <1>12, <1>14, <1>15 DEF LiveInv

-----------------------------------------------------------------------------
(* Requests that attach and detach.                                        *)

(* Nothing moves but the sessions of a connection.                         *)
LEMMA Untouched ==
  ASSUME LiveInv, LiveTyped', stage' = stage, live' = live, liveSessions' = liveSessions,
         openingSessions' = openingSessions, requests' = requests, revision' = revision,
         broadcasts' = broadcasts, view' = view, closing' = closing,
         closeWaits' = closeWaits, closeFinds' = closeFinds, lost' = lost
  PROVE  LiveInv'
<1>1. ManagerInv'
  <2>1. RuntimesSound' /\ OpeningsSound'
    BY DEF LiveInv, ManagerInv, RuntimesSound, OpeningsSound, OpenedBy, Opener, TakenDown, At
  <2>2. RegisteredSound' /\ CloseSound'
    BY DEF LiveInv, ManagerInv, RegisteredSound, CloseSound
  <2> QED
    BY <2>1, <2>2 DEF ManagerInv
<1>2. UsesSound' /\ OperationsCounted' /\ NoDisposeInUse' /\ UnusedIsDisposed'
  BY DEF LiveInv, UsesSound, OperationsCounted, OperatingOn, NoDisposeInUse,
    UnusedIsDisposed, CanDispose, isClosing, At
<1>3. SnapshotsSound' /\ ViewsSound'
  BY DEF LiveInv, SnapshotsSound, ViewsSound, Arrives, At
<1> QED
  BY <1>1, <1>2, <1>3 DEF LiveInv

LEMMA ReceiveDetachKeeps ==
  ASSUME LiveInv, NEW q \in Slots, NEW c \in Conns, NEW s \in Sessions,
         ReceiveDetach(q, c, s)
  PROVE  LiveInv'
<1>0. /\ LiveTyped /\ ManagerInv /\ UsesSound /\ OperationsCounted
      /\ NoDisposeInUse /\ UnusedIsDisposed /\ SnapshotsSound /\ ViewsSound
  BY DEF LiveInv
<1>1. /\ sessionIds' = [sessionIds EXCEPT ![c] = @ \ {s}]
      /\ view' = view /\ revision' = revision /\ broadcasts' = broadcasts
      /\ lost' = lost /\ received < MaxRequests /\ received' = received + 1
      /\ requests[q].pc = "free" /\ stage' = stage
      /\ liveSessions' = liveSessions /\ openingSessions' = openingSessions
      /\ closing' = closing /\ closeWaits' = closeWaits /\ closeFinds' = closeFinds
  BY DEF ReceiveDetach, Receive, At, managerVars, snapshotVars, closeVars
<1>2. /\ sessionIds' \in [Conns -> SUBSET Sessions] /\ received' \in 0..MaxRequests
  BY <1>0, <1>1, LiveAssumption DEF LiveTyped
<1>3. CASE liveSessions[s] = 0
  <2>1. live' = live /\ requests' = requests
    BY <1>3 DEF ReceiveDetach
  <2>2. LiveTyped'
    BY <2>1, <1>0, <1>1, <1>2 DEF LiveTyped
  <2> QED
    BY <2>1, <2>2, <1>1, Untouched
<1>4. CASE liveSessions[s] # 0
  <2>1. PICK k \in Runtimes : /\ k = liveSessions[s] /\ live[k].state = "open"
                              /\ live[k].session = s
    BY <1>0, <1>4, RegisteredIsOpen
  <2> DEFINE left == [live[k] EXCEPT !.connections = @ \ {c}]
             tells == left.connections # {} /\ ~left.terminal /\ left.disposing = "none"
             waits == ~tells /\ MaybeDispose(left).disposing = "pending"
             l == IF tells THEN left ELSE MaybeDispose(left)
             x == IF tells \/ waits
                  THEN [pc |-> IF tells THEN "snapshot" ELSE "awaitDetach",
                        kind |-> "detach", conn |-> c, session |-> s, live |-> k,
                        revision |-> IF tells THEN revision[s] ELSE 0]
                  ELSE requests[q]
  <2>2. StepOn(q, x, k, l)
    <3>1. live' = [live EXCEPT ![k] = l]
      BY <1>4, <2>1 DEF ReceiveDetach
    <3>2. requests' = [requests EXCEPT ![q] = x]
      <4>1. requests' = IF tells \/ waits THEN [requests EXCEPT ![q] = x] ELSE requests
        BY <1>4, <2>1 DEF ReceiveDetach
      <4> QED
        BY <4>1, <1>0 DEF LiveTyped
    <3> QED
      BY <3>1, <3>2, <1>1 DEF StepOn
  <2>3. /\ left \in RuntimeRecord /\ left.operationCount = live[k].operationCount
        /\ left.state = live[k].state /\ left.session = live[k].session
        /\ left.disposing = live[k].disposing /\ left.terminal = live[k].terminal
        /\ left.subscribed = live[k].subscribed
        /\ left.connections \subseteq live[k].connections
    <3>1. live[k] \in RuntimeRecord
      BY <1>0, RuntimeTyped
    <3> QED
      BY <3>1 DEF RuntimeRecord
  <2>4. tells => left.connections # {}
    OBVIOUS
  <2>5. /\ x \in Request
        /\ \/ x = requests[q]
           \/ /\ x.pc \in {"snapshot", "awaitDetach"} /\ x.kind = "detach" /\ x.live = k
              /\ x.session = s
              /\ x.pc = "snapshot" => x.revision = revision[s]
    <3>1. "snapshot" \in Awaits /\ "awaitDetach" \in Awaits /\ 0 \in Revisions
          /\ k \in 0..MaxRuntimes /\ revision[s] \in Revisions
      BY <1>0, RuntimesAreIndices DEF Awaits, LiveTyped
    <3>2. requests[q] \in Request
      BY <1>0, RequestTyped
    <3> QED
      BY <3>1, <3>2 DEF Request
  <2> HIDE DEF left, x
  <2>6. /\ MaybeDispose(left) \in RuntimeRecord
        /\ MaybeDispose(left).state = left.state /\ MaybeDispose(left).session = left.session
        /\ MaybeDispose(left).connections = left.connections
        /\ MaybeDispose(left).operationCount = left.operationCount
        /\ MaybeDispose(left).terminal = left.terminal
        /\ ~isClosing /\ Unneeded(left) =>
             MaybeDispose(left).disposing = "pending" /\ left.disposing = "none"
        /\ ~(~isClosing /\ Unneeded(left)) => MaybeDispose(left) = left
        /\ isClosing \/ ~Unneeded(MaybeDispose(left))
    BY <2>3, DisposedIfUnneeded
  <2>7. /\ l \in RuntimeRecord /\ Keeps(live[k], l)
        /\ l.connections \subseteq live[k].connections /\ l.terminal = live[k].terminal
        /\ l.operationCount = live[k].operationCount
        /\ isClosing \/ l.disposing = live[k].disposing \/ l.operationCount = 0
        /\ isClosing \/ ~Unneeded(l)
    <3>1. CASE tells
      BY <3>1, <2>3, <2>4 DEF Keeps, Unneeded
    <3>2. CASE ~tells
      <4>1. l = MaybeDispose(left)
        BY <3>2
      <4> HIDE DEF l, tells
      <4>2. Keeps(live[k], l)
        BY <4>1, <2>3, <2>6 DEF Keeps
      <4>3. isClosing \/ l.disposing = live[k].disposing \/ l.operationCount = 0
        BY <4>1, <2>3, <2>6 DEF Unneeded
      <4> QED
        BY <4>1, <4>2, <4>3, <2>3, <2>6
    <3> QED
      BY <3>1, <3>2
  <2> HIDE DEF l, tells
  <2>8. LiveTyped'
    BY <1>0, <1>1, <1>2, <2>2, <2>5, <2>7, StepOnTyped DEF LiveTyped
  <2>9. GoesOn(x) /\ requests[q].pc \notin Opens \cup Resumed
    BY <1>1, <2>1, <2>5, PcKinds, RuntimesAreIndices DEF GoesOn
  <2>10. ManagerInv' /\ UsesSound'
    BY <1>0, <2>1, <2>2, <2>7, <2>8, <2>9, StepOnIsGentle
  <2>11. OperationsCounted'
    BY <1>0, <1>1, <2>2, <2>5, <2>7, StepOnKeepsCount
  <2>12. NoDisposeInUse' /\ UnusedIsDisposed'
    BY <1>0, <1>1, <2>1, <2>2, <2>5, <2>7, <2>8, <2>9, <2>10, <2>11, StepOnKeepsDisposal
  <2>13. SnapshotsSound' /\ ViewsSound'
    <3>1. x.pc = "snapshot" => x.revision <= revision[x.session]
      BY <1>0, <1>1, <2>5, RuntimesAreIndices DEF LiveTyped
    <3> QED
      BY <3>1, <1>0, <1>1, <2>2, <2>7, <2>8, StepOnKeepsViews
  <2> QED
    BY <2>8, <2>10, <2>11, <2>12, <2>13 DEF LiveInv
<1> QED
  BY <1>3, <1>4

LEMMA AttachKeeps ==
  ASSUME LiveInv, NEW q \in Slots, Attach(q)
  PROVE  LiveInv'
<1>0. /\ LiveTyped /\ ManagerInv /\ UsesSound /\ OperationsCounted
      /\ NoDisposeInUse /\ UnusedIsDisposed /\ SnapshotsSound /\ ViewsSound
  BY DEF LiveInv
<1>1. requests[q].pc \in Joins /\ requests[q].kind = "attach" /\ requests[q].pc \in Uses
  <2>1. requests[q].pc \in Joins
    BY DEF Attach, At, Joins
  <2> QED
    BY <2>1, <1>0, PcKinds DEF UsesSound
<1>2. PICK k \in Runtimes : /\ k = requests[q].live /\ live[k].state = "open"
                            /\ live[k].session = requests[q].session
  BY <1>0, <1>1, InHand
<1>3. ~live[k].terminal
  BY <1>0, <1>1, <1>2 DEF UsesSound
<1>4. PICK c \in Conns : c = requests[q].conn
  BY <1>0, RequestTyped
<1>5. PICK s \in Sessions : s = requests[q].session /\ revision[s] \in Revisions
  BY <1>0, RequestTyped
<1>6. /\ view' = view /\ revision' = revision /\ broadcasts' = broadcasts
      /\ lost' = lost /\ received' = received
      /\ stage' = stage /\ liveSessions' = liveSessions /\ openingSessions' = openingSessions
      /\ closing' = closing /\ closeWaits' = closeWaits /\ closeFinds' = closeFinds
  BY DEF Attach, managerVars, snapshotVars, closeVars, countVars
<1>7. requests[q].pc \notin Opens /\ requests[q].pc # "snapshot"
      /\ requests[q].pc \notin {"operate", "snapshot"}
  BY <1>1, PcKinds
<1>8. CASE stage[c] # "ready"
  <2> DEFINE l == MaybeDispose(live[k])
  <2>1. StepOn(q, NoRequest, k, l) /\ sessionIds' = sessionIds
    BY <1>2, <1>4, <1>6, <1>8 DEF Attach, StepOn
  <2>2. live[k] \in RuntimeRecord
    BY <1>0, RuntimeTyped
  <2>3. /\ MaybeDispose(live[k]) \in RuntimeRecord
        /\ MaybeDispose(live[k]).state = live[k].state
        /\ MaybeDispose(live[k]).session = live[k].session
        /\ MaybeDispose(live[k]).connections = live[k].connections
        /\ MaybeDispose(live[k]).operationCount = live[k].operationCount
        /\ MaybeDispose(live[k]).terminal = live[k].terminal
        /\ ~isClosing /\ Unneeded(live[k]) =>
             MaybeDispose(live[k]).disposing = "pending" /\ live[k].disposing = "none"
        /\ ~(~isClosing /\ Unneeded(live[k])) => MaybeDispose(live[k]) = live[k]
        /\ isClosing \/ ~Unneeded(MaybeDispose(live[k]))
    BY <2>2, DisposedIfUnneeded
  <2>4. Keeps(live[k], l)
    BY <2>3 DEF Keeps
  <2>5. isClosing \/ l.disposing = live[k].disposing \/ l.operationCount = 0
    BY <2>3 DEF Unneeded
  <2>6. /\ l \in RuntimeRecord /\ l.connections = live[k].connections
        /\ l.terminal = live[k].terminal /\ l.operationCount = live[k].operationCount
        /\ isClosing \/ ~Unneeded(l)
    BY <2>3
  <2> HIDE DEF l
  <2>7. NoRequest \in Request /\ NoRequest.pc = "free" /\ GoesOn(NoRequest)
    BY NoRequestTyped DEF GoesOn
  <2>8. LiveTyped'
    BY <1>0, <1>6, <2>1, <2>6, <2>7, StepOnTyped DEF LiveTyped
  <2>9. ManagerInv' /\ UsesSound'
    BY <1>0, <1>2, <1>7, <2>1, <2>4, <2>6, <2>7, <2>8, StepOnIsGentle
  <2>10. OperationsCounted'
    BY <1>0, <1>7, <2>1, <2>6, <2>7, StepOnKeepsCount
  <2>11. NoDisposeInUse' /\ UnusedIsDisposed'
    BY <1>0, <1>2, <2>1, <2>4, <2>5, <2>6, <2>7, <2>8, <2>9, <2>10, StepOnKeepsDisposal
  <2>12. SnapshotsSound' /\ ViewsSound'
    BY <1>0, <1>6, <1>7, <2>1, <2>4, <2>6, <2>7, <2>8, StepOnKeepsViews
  <2> QED
    BY <2>8, <2>9, <2>10, <2>11, <2>12 DEF LiveInv
<1>9. CASE stage[c] = "ready"
  <2> DEFINE l == [live[k] EXCEPT !.connections = live[k].connections \cup {c}]
             x == [requests[q] EXCEPT !.pc = "snapshot", !.revision = revision[s]]
  <2>1. StepOn(q, x, k, l) /\ sessionIds' = [sessionIds EXCEPT ![c] = @ \cup {s}]
    <3>1. live' = [live EXCEPT ![k] = l]
      BY <1>2, <1>4, <1>9 DEF Attach
    <3>2. requests' = [requests EXCEPT ![q] = x]
      BY <1>4, <1>5, <1>9 DEF Attach
    <3> QED
      BY <3>1, <3>2, <1>4, <1>5, <1>6, <1>9 DEF Attach, StepOn
  <2>2. /\ l \in RuntimeRecord /\ l.operationCount = live[k].operationCount
        /\ l.state = live[k].state /\ l.session = live[k].session
        /\ l.disposing = live[k].disposing /\ l.terminal = live[k].terminal
        /\ l.subscribed = live[k].subscribed
        /\ l.connections = live[k].connections \cup {c}
    <3>1. live[k] \in RuntimeRecord
      BY <1>0, RuntimeTyped
    <3> QED
      BY <3>1 DEF RuntimeRecord
  <2>3. /\ x \in Request /\ x.pc = "snapshot" /\ x.kind = "attach" /\ x.live = k
        /\ x.session = s /\ x.revision = revision[s]
    <3>1. "snapshot" \in Awaits
      BY DEF Awaits
    <3>2. requests[q] \in Request
      BY <1>0, RequestTyped
    <3> QED
      BY <3>1, <3>2, <1>1, <1>2, <1>5 DEF Request
  <2> HIDE DEF l, x
  <2>4. Keeps(live[k], l) /\ ~Unneeded(l)
    BY <2>2 DEF Keeps, Unneeded
  <2>5. sessionIds' \in [Conns -> SUBSET Sessions]
    BY <1>0, <2>1 DEF LiveTyped
  <2>6. LiveTyped'
    BY <1>0, <1>6, <2>1, <2>2, <2>3, <2>5, StepOnTyped DEF LiveTyped
  <2>7. GoesOn(x)
    BY <1>2, <1>5, <2>3, RuntimesAreIndices DEF GoesOn
  <2>8. ManagerInv' /\ UsesSound'
    BY <1>0, <1>2, <1>7, <2>1, <2>2, <2>4, <2>6, <2>7, StepOnIsGentle
  <2>9. OperationsCounted'
    BY <1>0, <1>7, <2>1, <2>2, <2>3, StepOnKeepsCount
  <2>10. NoDisposeInUse' /\ UnusedIsDisposed'
    BY <1>0, <1>2, <2>1, <2>2, <2>3, <2>4, <2>6, <2>8, <2>9, StepOnKeepsDisposal
  <2>11. /\ requests'[q] = x /\ \A p \in Slots : p # q => requests'[p] = requests[p]
         /\ live'[k] = l /\ \A r \in Runtimes : r # k => live'[r] = live[r]
    BY <1>0, <2>1 DEF StepOn, LiveTyped
  <2>12. \A r \in Runtimes : live'[r].session = live[r].session /\ live'[r].state = live[r].state
    BY <2>11, <2>2
  <2>13. SnapshotsSound'
    <3>1. \A r \in Runtimes :
           /\ ~live'[r].terminal \/ (live[r].terminal /\ live'[r].connections \subseteq live[r].connections)
           /\ live[r].state = "open" => live'[r].state = "open" /\ live'[r].session = live[r].session
      BY <2>2, <2>11, <1>3
    <3>2. \A s1 \in Sessions : revision[s1] <= revision'[s1]
      BY <1>0, <1>6, RuntimesAreIndices DEF LiveTyped
    <3>3. \A p \in Slots : At(p, "snapshot")' =>
            requests'[p] = requests[p] \/ requests'[p].revision <= revision'[requests'[p].session]
      BY <1>5, <1>6, <2>3, <2>11, RuntimesAreIndices
    <3> QED
      BY <3>1, <3>2, <3>3, <1>0, <1>6, <2>6, SnapshotsKept
  <2>14. ViewsSound'
    <3> SUFFICES ASSUME lost = 0, NEW s1 \in Sessions, liveSessions[s1] # 0,
                        NEW c1 \in live'[liveSessions[s1]].connections, stage[c1] = "ready"
        PROVE  Arrives(c1, liveSessions[s1], revision[s1])'
      BY <1>6 DEF ViewsSound
    <3>1. PICK r \in Runtimes :
            r = liveSessions[s1] /\ live[r].state = "open" /\ live[r].session = s1
      BY <1>0, RegisteredIsOpen
    <3>2. CASE c1 \in live[r].connections
      <4>1. Arrives(c1, r, revision[s1])
        BY <3>1, <3>2, <1>0 DEF ViewsSound
      <4>2. \A p \in Slots : At(p, "snapshot") => At(p, "snapshot")' /\ requests'[p] = requests[p]
        BY <2>11, <1>7 DEF At
      <4> QED
        BY <4>1, <4>2, <3>1, <2>12, <1>6 DEF Arrives
    <3>3. CASE c1 \notin live[r].connections
      <4>1. r = k /\ s1 = s
        BY <3>1, <3>3, <2>11, <2>2, <1>2, <1>5
      <4> QED
        BY <4>1, <3>1, <2>3, <2>11, <1>6 DEF Arrives, At
    <3> QED
      BY <3>2, <3>3
  <2> QED
    BY <2>6, <2>8, <2>9, <2>10, <2>13, <2>14 DEF LiveInv
<1> QED
  BY <1>8, <1>9

-----------------------------------------------------------------------------
(* What runtimes, the transport and close do, between requests.            *)

LEMMA BetweenRequests ==
  ASSUME LiveTyped, LiveTyped', ManagerInv, UsesSound, OperationsCounted,
         NoDisposeInUse, UnusedIsDisposed, Quiet, requests' = requests,
         liveSessions' = liveSessions, openingSessions' = openingSessions,
         closeWaits' = closeWaits, closeFinds' = closeFinds,
         \/ closing' = closing
         \/ closing' \in {"listeners", "connections"} /\ closing \in {"no", "listeners"},
         \A c \in Conns : stage[c] = "closed" => stage'[c] = "closed",
         \A r \in Runtimes :
           /\ live[r].state # "open" => live'[r] = live[r]
           /\ Keeps(live[r], live'[r])
           /\ live'[r].operationCount = live[r].operationCount
           /\ \/ isClosing \/ live'[r].disposing = live[r].disposing
              \/ live'[r].operationCount = 0
           /\ live[r].state = "open" => isClosing \/ ~Unneeded(live'[r]) \/ Unneeded(live[r])
  PROVE  ManagerInv' /\ UsesSound' /\ OperationsCounted' /\ NoDisposeInUse' /\ UnusedIsDisposed'
<1>1. isClosing => isClosing'
  BY DEF isClosing
<1>2. \A r \in Runtimes : Keeps(live[r], live'[r])
  OBVIOUS
<1>3. \A r \in Runtimes : live[r].state # "open" => live'[r] = live[r]
  OBVIOUS
<1>4. GentleStep
  BY <1>2, <1>3 DEF GentleStep
<1>5. GentleUses
  BY DEF GentleUses
<1>6. ManagerInv' /\ UsesSound'
  BY <1>4, <1>5, GentleKeepsManager, GentleKeepsUses
<1>7. OperationsCounted'
  <2>1. \A r \in Runtimes : live'[r].operationCount = live[r].operationCount
    OBVIOUS
  <2>2. \A q \in Slots : \A r \in Runtimes : q \in OperatingOn(r)' <=> q \in OperatingOn(r)
    BY DEF OperatingOn
  <2> QED
    BY <2>1, <2>2, OperationsKept
<1>8. NoDisposeInUse'
  <2>1. \A r \in Runtimes : live'[r].state = "open" =>
          \/ isClosing' \/ live'[r].disposing = live[r].disposing
          \/ live[r].disposing # "none" \/ live'[r].operationCount = 0
    BY <1>1
  <2>2. \A p \in Slots : At(p, "operate")' =>
          \/ At(p, "operate") /\ requests'[p].live = requests[p].live
          \/ live[requests'[p].live].disposing = "none"
    BY DEF At
  <2> QED
    BY <1>1, <1>6, <1>7, <2>1, <2>2, InUseKept
<1>9. UnusedIsDisposed'
  <2>1. \A r \in Runtimes :
          live'[r].state = "open" /\ Unneeded(live'[r]) /\ ~isClosing' =>
            \/ live[r].state = "open" /\ Unneeded(live[r])
            \/ \E q \in Slots : requests'[q].pc \in Resumed /\ requests'[q].live = r
    BY <1>1, <1>2 DEF Keeps
  <2> QED
    BY <1>1, <2>1, UnusedKeptQuietly
<1> QED
  BY <1>6, <1>7, <1>8, <1>9

LEMMA RuntimesUntouched ==
  ASSUME live' = live
  PROVE  \A r \in Runtimes :
           /\ live[r].state # "open" => live'[r] = live[r]
           /\ Keeps(live[r], live'[r])
           /\ live'[r].operationCount = live[r].operationCount
           /\ \/ isClosing \/ live'[r].disposing = live[r].disposing
              \/ live'[r].operationCount = 0
           /\ live[r].state = "open" => isClosing \/ ~Unneeded(live'[r]) \/ Unneeded(live[r])
  BY DEF Keeps

LEMMA RuntimeUpdateKeeps ==
  ASSUME LiveInv, NEW k \in Runtimes, RuntimeUpdate(k)
  PROVE  LiveInv'
<1>0. /\ LiveTyped /\ ManagerInv /\ UsesSound /\ OperationsCounted
      /\ NoDisposeInUse /\ UnusedIsDisposed /\ SnapshotsSound /\ ViewsSound
  BY DEF LiveInv
<1>1. PICK s \in Sessions : s = live[k].session
  BY <1>0, RuntimeTyped
<1>2. PICK phase \in {"idle", "turn"} :
        live' = [live EXCEPT ![k] = IF live[k].subscribed
                                    THEN MaybeDispose([live[k] EXCEPT !.phase = phase])
                                    ELSE [live[k] EXCEPT !.phase = phase]]
  BY DEF RuntimeUpdate
<1>3. /\ Quiet /\ live[k].state = "open" /\ live[k].disposing = "none"
      /\ revision[s] < MaxRevision /\ revision' = [revision EXCEPT ![s] = @ + 1]
      /\ broadcasts' = IF live[k].subscribed THEN broadcasts \cup {<<k, revision[s] + 1>>}
                                             ELSE broadcasts
      /\ stage' = stage /\ sessionIds' = sessionIds /\ requests' = requests
      /\ view' = view /\ lost' = lost /\ received' = received
      /\ liveSessions' = liveSessions /\ openingSessions' = openingSessions
      /\ closing' = closing /\ closeWaits' = closeWaits /\ closeFinds' = closeFinds
  BY <1>1 DEF RuntimeUpdate, Acquired, connVars, managerVars, closeVars, countVars
<1> DEFINE updated == [live[k] EXCEPT !.phase = phase]
           l == IF live[k].subscribed THEN MaybeDispose(updated) ELSE updated
<1>4. /\ updated \in RuntimeRecord /\ updated.operationCount = live[k].operationCount
      /\ updated.state = live[k].state /\ updated.session = live[k].session
      /\ updated.disposing = live[k].disposing /\ updated.terminal = live[k].terminal
      /\ updated.subscribed = live[k].subscribed /\ updated.connections = live[k].connections
  <2>1. live[k] \in RuntimeRecord
    BY <1>0, RuntimeTyped
  <2> QED
    BY <2>1 DEF RuntimeRecord
<1>5. /\ \A r \in Runtimes : r # k => live'[r] = live[r]
      /\ live'[k] = l
  BY <1>0, <1>2 DEF LiveTyped
<1> HIDE DEF updated
<1>6. /\ MaybeDispose(updated) \in RuntimeRecord
      /\ MaybeDispose(updated).state = updated.state
      /\ MaybeDispose(updated).session = updated.session
      /\ MaybeDispose(updated).connections = updated.connections
      /\ MaybeDispose(updated).operationCount = updated.operationCount
      /\ MaybeDispose(updated).terminal = updated.terminal
      /\ ~isClosing /\ Unneeded(updated) =>
           MaybeDispose(updated).disposing = "pending" /\ updated.disposing = "none"
      /\ ~(~isClosing /\ Unneeded(updated)) => MaybeDispose(updated) = updated
      /\ isClosing \/ ~Unneeded(MaybeDispose(updated))
  BY <1>4, DisposedIfUnneeded
<1>7. live[k].subscribed \/ live[k].terminal
  BY <1>0, <1>3 DEF ManagerInv, RuntimesSound
<1>8. /\ l \in RuntimeRecord /\ l.connections = live[k].connections
      /\ l.terminal = live[k].terminal /\ l.operationCount = live[k].operationCount
      /\ l.state = live[k].state /\ l.session = live[k].session
  BY <1>4, <1>6
<1>9. /\ Keeps(live[k], l)
      /\ isClosing \/ l.disposing = live[k].disposing \/ l.operationCount = 0
      /\ isClosing \/ ~Unneeded(l) \/ Unneeded(live[k])
  <2>1. CASE live[k].subscribed
    <3>1. l = MaybeDispose(updated)
      BY <2>1
    <3> HIDE DEF l
    <3>2. Keeps(live[k], l)
      BY <3>1, <1>4, <1>6 DEF Keeps
    <3>3. isClosing \/ l.disposing = live[k].disposing \/ l.operationCount = 0
      BY <3>1, <1>4, <1>6 DEF Unneeded
    <3> QED
      BY <3>1, <3>2, <3>3, <1>6
  <2>2. CASE ~live[k].subscribed
    <3>1. l = updated
      BY <2>2
    <3> QED
      BY <3>1, <2>2, <1>4, <1>7 DEF Keeps, Unneeded
  <2> QED
    BY <2>1, <2>2
<1> HIDE DEF l
<1>10. /\ revision[s] \in 0..MaxRevision /\ MaxRevision \in Nat
       /\ revision[s] + 1 \in Revisions /\ Revisions = 0..MaxRevision
       /\ \A t \in Sessions : t # s => revision'[t] = revision[t]
       /\ revision'[s] = revision[s] + 1
  BY <1>0, <1>3, RuntimesAreIndices DEF LiveTyped
<1>11. LiveTyped'
  <2>1. live' \in [Runtimes -> RuntimeRecord]
    BY <1>0, <1>5, <1>8, <1>2 DEF LiveTyped
  <2>2. revision' \in [Sessions -> Revisions]
    BY <1>0, <1>3, <1>10 DEF LiveTyped
  <2>3. broadcasts' \subseteq Runtimes \X Revisions
    BY <1>0, <1>3, <1>10 DEF LiveTyped
  <2> QED
    BY <2>1, <2>2, <2>3, <1>0, <1>3 DEF LiveTyped
<1>12. \A r \in Runtimes :
         /\ live[r].state # "open" => live'[r] = live[r]
         /\ Keeps(live[r], live'[r])
         /\ live'[r].operationCount = live[r].operationCount
         /\ \/ isClosing \/ live'[r].disposing = live[r].disposing
            \/ live'[r].operationCount = 0
         /\ live[r].state = "open" => isClosing \/ ~Unneeded(live'[r]) \/ Unneeded(live[r])
  <2> TAKE r \in Runtimes
  <2>1. CASE r = k
    BY <2>1, <1>3, <1>5, <1>8, <1>9
  <2>2. CASE r # k
    BY <2>2, <1>5 DEF Keeps
  <2> QED
    BY <2>1, <2>2
<1>13. ManagerInv' /\ UsesSound' /\ OperationsCounted' /\ NoDisposeInUse' /\ UnusedIsDisposed'
  BY <1>0, <1>3, <1>11, <1>12, BetweenRequests
<1>14. SnapshotsSound'
  <2>1. \A t \in Sessions : revision[t] <= revision'[t]
    <3> TAKE t \in Sessions
    <3>1. revision[t] \in Int
      BY <1>0, RuntimesAreIndices DEF LiveTyped
    <3> QED
      BY <3>1, <1>10
  <2>2. \A b \in broadcasts' : b \in broadcasts \/
          (live'[b[1]].state = "open" /\ b[2] <= revision'[live'[b[1]].session])
    BY <1>1, <1>3, <1>5, <1>8, <1>10
  <2>3. \A r \in Runtimes :
           /\ ~live'[r].terminal \/ (live[r].terminal /\ live'[r].connections \subseteq live[r].connections)
           /\ live[r].state = "open" => live'[r].state = "open" /\ live'[r].session = live[r].session
    BY <1>5, <1>8
  <2> QED
    BY <2>1, <2>2, <2>3, <1>0, <1>3, <1>11, SnapshotsKept
<1>15. ViewsSound'
  <2> SUFFICES ASSUME lost = 0, NEW t \in Sessions, liveSessions[t] # 0,
                      NEW c \in live'[liveSessions[t]].connections, stage[c] = "ready"
      PROVE  Arrives(c, liveSessions[t], revision[t])'
    BY <1>3 DEF ViewsSound
  <2>1. PICK r \in Runtimes : r = liveSessions[t] /\ live[r].state = "open" /\ live[r].session = t
    BY <1>0, RegisteredIsOpen
  <2>2. c \in live[r].connections /\ live'[r].session = t
    BY <2>1, <1>5, <1>8
  <2>3. CASE t # s
    <3>1. Arrives(c, r, revision[t])
      BY <2>1, <2>2, <1>0 DEF ViewsSound
    <3> QED
      BY <3>1, <2>1, <2>2, <2>3, <1>3, <1>10 DEF Arrives, At
  <2>4. CASE t = s
    <3>1. r = k
      <4>1. liveSessions[s] = k \/ TakenDown(k)
        BY <1>0, <1>1, <1>3 DEF ManagerInv, RuntimesSound
      <4> QED
        BY <4>1, <2>1, <2>4, <1>3 DEF TakenDown
    <3>2. ~live[k].terminal
      BY <3>1, <2>2, <1>0 DEF SnapshotsSound
    <3>3. <<r, revision'[t]>> \in broadcasts'
      BY <3>1, <3>2, <2>4, <1>3, <1>7, <1>10
    <3> QED
      BY <3>3, <2>1, <1>3 DEF Arrives
  <2> QED
    BY <2>3, <2>4
<1> QED
  BY <1>11, <1>13, <1>14, <1>15 DEF LiveInv

LEMMA BroadcastDoneKeeps ==
  ASSUME LiveInv, NEW b \in broadcasts, BroadcastDone(b)
  PROVE  LiveInv'
<1>0. /\ LiveTyped /\ ManagerInv /\ UsesSound /\ OperationsCounted
      /\ NoDisposeInUse /\ UnusedIsDisposed /\ SnapshotsSound /\ ViewsSound
  BY DEF LiveInv
<1>1. PICK k \in Runtimes, asked \in Revisions : b = <<k, asked>>
  BY <1>0 DEF LiveTyped
<1>2. /\ Quiet /\ broadcasts' = broadcasts \ {b}
      /\ stage' = stage /\ sessionIds' = sessionIds /\ requests' = requests /\ live' = live
      /\ revision' = revision /\ received' = received
      /\ liveSessions' = liveSessions /\ openingSessions' = openingSessions
      /\ closing' = closing /\ closeWaits' = closeWaits /\ closeFinds' = closeFinds
  BY DEF BroadcastDone, connVars, managerVars, closeVars
<1>3. \/ Broadcast(live[k], asked) /\ lost' = lost
      \/ lost < MaxLost /\ lost' = lost + 1 /\ view' = view
  BY <1>1 DEF BroadcastDone
<1>4. /\ view' \in [Conns -> [Sessions -> -1..MaxRevision]] /\ lost' \in 0..MaxLost
      /\ \A c \in Conns, s \in Sessions :
           view'[c][s] = view[c][s] \/ view'[c][s] <= revision[s]
      /\ lost' = 0 =>
           /\ lost = 0
           /\ \A c \in Conns, s \in Sessions :
                view[c][s] = revision[s] => view'[c][s] = revision[s]
           /\ \A c \in live[k].connections : stage[c] = "ready" /\ asked = revision[live[k].session] =>
                view'[c][live[k].session] = revision[live[k].session]
  <2>1. CASE Broadcast(live[k], asked) /\ lost' = lost
    BY <2>1, <1>0, BroadcastShows DEF LiveTyped
  <2>2. CASE lost < MaxLost /\ lost' = lost + 1 /\ view' = view
    BY <2>2, <1>0, LiveAssumption DEF LiveTyped
  <2> QED
    BY <1>3, <2>1, <2>2
<1>5. LiveTyped'
  BY <1>0, <1>2, <1>4 DEF LiveTyped
<1>6. ManagerInv' /\ UsesSound' /\ OperationsCounted' /\ NoDisposeInUse' /\ UnusedIsDisposed'
  BY <1>0, <1>2, <1>5, RuntimesUntouched, BetweenRequests
<1>7. SnapshotsSound'
  <2>1. \A t \in Sessions : revision[t] <= revision'[t]
    BY <1>0, <1>2, RuntimesAreIndices DEF LiveTyped
  <2>2. \A r \in Runtimes :
           /\ ~live'[r].terminal \/ (live[r].terminal /\ live'[r].connections \subseteq live[r].connections)
           /\ live[r].state = "open" => live'[r].state = "open" /\ live'[r].session = live[r].session
    BY <1>2
  <2> QED
    BY <2>1, <2>2, <1>0, <1>2, <1>4, <1>5, SnapshotsKept
<1>8. ViewsSound'
  <2> SUFFICES ASSUME lost' = 0, NEW t \in Sessions, liveSessions[t] # 0,
                      NEW c \in live[liveSessions[t]].connections, stage[c] = "ready"
      PROVE  Arrives(c, liveSessions[t], revision[t])'
    BY <1>2 DEF ViewsSound
  <2>1. PICK r \in Runtimes : r = liveSessions[t] /\ live[r].state = "open" /\ live[r].session = t
    BY <1>0, RegisteredIsOpen
  <2>2. c \in Conns
    BY <2>1, <1>0, RuntimeTyped
  <2>3. Arrives(c, r, revision[t])
    BY <2>1, <1>0, <1>4 DEF ViewsSound
  <2>4. CASE <<r, revision[t]>> = b
    <3>1. r = k /\ asked = revision[live[k].session]
      BY <2>4, <2>1, <1>1
    <3>2. view'[c][t] = revision[t]
      BY <3>1, <2>1, <1>4
    <3> QED
      BY <3>2, <2>1, <1>2 DEF Arrives
  <2>5. CASE <<r, revision[t]>> # b
    BY <2>5, <2>1, <2>2, <2>3, <1>2, <1>4 DEF Arrives, At
  <2> QED
    BY <2>4, <2>5
<1> QED
  BY <1>5, <1>6, <1>7, <1>8 DEF LiveInv

LEMMA TerminateKeeps ==
  ASSUME LiveInv, NEW k \in Runtimes, Terminate(k)
  PROVE  LiveInv'
<1>0. /\ LiveTyped /\ ManagerInv /\ UsesSound /\ OperationsCounted
      /\ NoDisposeInUse /\ UnusedIsDisposed /\ SnapshotsSound /\ ViewsSound
  BY DEF LiveInv
<1> DEFINE ended == [live[k] EXCEPT !.terminal = TRUE, !.subscribed = FALSE]
           l == MaybeDispose(ended)
<1>1. /\ Quiet /\ live[k].state = "open" /\ live' = [live EXCEPT ![k] = l]
      /\ stage' = [c \in Conns |-> IF c \in live[k].connections /\ stage[c] = "ready"
                                   THEN "closing" ELSE stage[c]]
      /\ sessionIds' = sessionIds /\ requests' = requests
      /\ view' = view /\ revision' = revision /\ broadcasts' = broadcasts
      /\ lost' = lost /\ received' = received
      /\ liveSessions' = liveSessions /\ openingSessions' = openingSessions
      /\ closing' = closing /\ closeWaits' = closeWaits /\ closeFinds' = closeFinds
  BY DEF Terminate, Acquired, managerVars, snapshotVars, closeVars, countVars
<1>2. /\ ended \in RuntimeRecord /\ ended.operationCount = live[k].operationCount
      /\ ended.state = live[k].state /\ ended.session = live[k].session
      /\ ended.disposing = live[k].disposing /\ ended.terminal
      /\ ended.connections = live[k].connections
  <2>1. live[k] \in RuntimeRecord
    BY <1>0, RuntimeTyped
  <2> QED
    BY <2>1 DEF RuntimeRecord
<1> HIDE DEF ended
<1>3. /\ l \in RuntimeRecord /\ l.state = live[k].state /\ l.session = live[k].session
      /\ l.connections = live[k].connections /\ l.operationCount = live[k].operationCount
      /\ l.terminal
      /\ ~isClosing /\ Unneeded(ended) => l.disposing = "pending" /\ ended.disposing = "none"
      /\ ~(~isClosing /\ Unneeded(ended)) => l = ended
      /\ isClosing \/ ~Unneeded(l)
  BY <1>2, DisposedIfUnneeded
<1>4. \A r \in Runtimes : r # k => live'[r] = live[r]
  BY <1>0, <1>1 DEF LiveTyped
<1>5. live'[k] = l
  BY <1>0, <1>1 DEF LiveTyped
<1> HIDE DEF l
<1>6. /\ Keeps(live[k], l)
      /\ isClosing \/ l.disposing = live[k].disposing \/ l.operationCount = 0
  BY <1>2, <1>3 DEF Keeps, Unneeded
<1>7. LiveTyped'
  <2>1. live' \in [Runtimes -> RuntimeRecord]
    BY <1>0, <1>1, <1>3 DEF LiveTyped
  <2>2. stage' \in [Conns -> {"ready", "closing", "closed"}]
    BY <1>0, <1>1 DEF LiveTyped
  <2> QED
    BY <2>1, <2>2, <1>0, <1>1 DEF LiveTyped
<1>8. \A r \in Runtimes :
         /\ live[r].state # "open" => live'[r] = live[r]
         /\ Keeps(live[r], live'[r])
         /\ live'[r].operationCount = live[r].operationCount
         /\ \/ isClosing \/ live'[r].disposing = live[r].disposing
            \/ live'[r].operationCount = 0
         /\ live[r].state = "open" => isClosing \/ ~Unneeded(live'[r]) \/ Unneeded(live[r])
  <2> TAKE r \in Runtimes
  <2>1. CASE r = k
    BY <2>1, <1>1, <1>3, <1>5, <1>6
  <2>2. CASE r # k
    BY <2>2, <1>4 DEF Keeps
  <2> QED
    BY <2>1, <2>2
<1>9. \A c \in Conns : /\ stage[c] = "closed" => stage'[c] = "closed"
                       /\ stage'[c] = "ready" => stage[c] = "ready" /\ c \notin live[k].connections
  BY <1>1
<1>10. ManagerInv' /\ UsesSound' /\ OperationsCounted' /\ NoDisposeInUse' /\ UnusedIsDisposed'
  BY <1>0, <1>1, <1>7, <1>8, <1>9, BetweenRequests
<1>11. SnapshotsSound' /\ ViewsSound'
  <2>1. \A r \in Runtimes :
          /\ live'[r].connections \subseteq live[r].connections
          /\ live'[r].terminal => live[r].terminal \/ \A c \in live'[r].connections : stage'[c] # "ready"
          /\ live[r].state = "open" => live'[r].state = "open" /\ live'[r].session = live[r].session
    <3> TAKE r \in Runtimes
    <3>1. live[r].connections \subseteq Conns
      BY <1>0, RuntimeTyped
    <3>2. CASE r = k
      BY <3>1, <3>2, <1>3, <1>5, <1>9
    <3>3. CASE r # k
      BY <3>3, <1>4
    <3> QED
      BY <3>2, <3>3
  <2>2. ViewsQuiet
    BY <2>1, <1>1, <1>9 DEF ViewsQuiet
  <2> QED
    BY <2>2, <1>0, <1>7, ViewsQuietKeeps DEF ManagerInv
<1> QED
  BY <1>7, <1>10, <1>11 DEF LiveInv

LEMMA DisconnectKeeps ==
  ASSUME LiveInv, NEW c \in Conns, Disconnect(c)
  PROVE  LiveInv'
<1>0. /\ LiveTyped /\ ManagerInv /\ UsesSound /\ OperationsCounted
      /\ NoDisposeInUse /\ UnusedIsDisposed /\ SnapshotsSound /\ ViewsSound
  BY DEF LiveInv
<1> DEFINE left == {liveSessions[s] : s \in sessionIds[c]} \ {0}
           without(r) == [live[r] EXCEPT !.connections = @ \ {c}]
<1>1. /\ Quiet /\ stage' = [stage EXCEPT ![c] = "closed"]
      /\ sessionIds' = [sessionIds EXCEPT ![c] = {}]
      /\ live' = [r \in Runtimes |-> IF r \in left THEN MaybeDispose(without(r)) ELSE live[r]]
      /\ requests' = requests
      /\ view' = view /\ revision' = revision /\ broadcasts' = broadcasts
      /\ lost' = lost /\ received' = received
      /\ liveSessions' = liveSessions /\ openingSessions' = openingSessions
      /\ closing' = closing /\ closeWaits' = closeWaits /\ closeFinds' = closeFinds
  BY DEF Disconnect, managerVars, snapshotVars, closeVars, countVars
<1>2. \A r \in left : r \in Runtimes => live[r].state = "open"
  <2> TAKE r \in left
  <2>1. PICK s \in sessionIds[c] : r = liveSessions[s] /\ liveSessions[s] # 0
    OBVIOUS
  <2>2. s \in Sessions
    BY <1>0 DEF LiveTyped
  <2> QED
    BY <1>0, <2>1, <2>2, RegisteredIsOpen
<1> HIDE DEF left
<1>3. ASSUME NEW r \in Runtimes
      PROVE  /\ live'[r] \in RuntimeRecord
             /\ live[r].state # "open" => live'[r] = live[r]
             /\ Keeps(live[r], live'[r])
             /\ live'[r].operationCount = live[r].operationCount
             /\ \/ isClosing \/ live'[r].disposing = live[r].disposing
                \/ live'[r].operationCount = 0
             /\ live[r].state = "open" => isClosing \/ ~Unneeded(live'[r]) \/ Unneeded(live[r])
             /\ live'[r].connections \subseteq live[r].connections
             /\ live'[r].terminal = live[r].terminal
  <2>0. live[r] \in RuntimeRecord
    BY <1>0, RuntimeTyped
  <2>1. CASE r \in left
    <3>1. live'[r] = MaybeDispose(without(r))
      BY <2>1, <1>1
    <3>2. /\ without(r) \in RuntimeRecord /\ without(r).operationCount = live[r].operationCount
          /\ without(r).state = live[r].state /\ without(r).session = live[r].session
          /\ without(r).disposing = live[r].disposing /\ without(r).terminal = live[r].terminal
          /\ without(r).subscribed = live[r].subscribed
          /\ without(r).connections \subseteq live[r].connections
      BY <2>0 DEF RuntimeRecord
    <3> HIDE DEF without
    <3>3. /\ MaybeDispose(without(r)) \in RuntimeRecord
          /\ MaybeDispose(without(r)).state = without(r).state
          /\ MaybeDispose(without(r)).session = without(r).session
          /\ MaybeDispose(without(r)).connections = without(r).connections
          /\ MaybeDispose(without(r)).operationCount = without(r).operationCount
          /\ MaybeDispose(without(r)).terminal = without(r).terminal
          /\ ~isClosing /\ Unneeded(without(r)) =>
               MaybeDispose(without(r)).disposing = "pending" /\ without(r).disposing = "none"
          /\ ~(~isClosing /\ Unneeded(without(r))) => MaybeDispose(without(r)) = without(r)
          /\ isClosing \/ ~Unneeded(MaybeDispose(without(r)))
      BY <3>2, DisposedIfUnneeded
    <3>4. Keeps(live[r], live'[r])
      BY <3>1, <3>2, <3>3 DEF Keeps
    <3>5. isClosing \/ live'[r].disposing = live[r].disposing \/ live'[r].operationCount = 0
      BY <3>1, <3>2, <3>3 DEF Unneeded
    <3>6. live[r].state = "open"
      BY <2>1, <1>2
    <3> QED
      BY <3>1, <3>2, <3>3, <3>4, <3>5, <3>6
  <2>2. CASE r \notin left
    <3>1. live'[r] = live[r]
      BY <2>2, <1>1
    <3> QED
      BY <3>1, <2>0 DEF Keeps
  <2> QED
    BY <2>1, <2>2
<1>4. LiveTyped'
  <2>1. live' \in [Runtimes -> RuntimeRecord]
    BY <1>1, <1>3
  <2>2. stage' \in [Conns -> {"ready", "closing", "closed"}]
        /\ sessionIds' \in [Conns -> SUBSET Sessions]
    BY <1>0, <1>1 DEF LiveTyped
  <2> QED
    BY <2>1, <2>2, <1>0, <1>1 DEF LiveTyped
<1>5. \A d \in Conns : /\ stage[d] = "closed" => stage'[d] = "closed"
                       /\ stage'[d] = "ready" => stage[d] = "ready"
  BY <1>0, <1>1 DEF LiveTyped
<1>6. ManagerInv' /\ UsesSound' /\ OperationsCounted' /\ NoDisposeInUse' /\ UnusedIsDisposed'
  <2>1. \A r \in Runtimes :
         /\ live[r].state # "open" => live'[r] = live[r]
         /\ Keeps(live[r], live'[r])
         /\ live'[r].operationCount = live[r].operationCount
         /\ \/ isClosing \/ live'[r].disposing = live[r].disposing
            \/ live'[r].operationCount = 0
         /\ live[r].state = "open" => isClosing \/ ~Unneeded(live'[r]) \/ Unneeded(live[r])
    BY <1>3
  <2> QED
    BY <2>1, <1>0, <1>1, <1>4, <1>5, BetweenRequests
<1>7. SnapshotsSound' /\ ViewsSound'
  <2>1. \A r \in Runtimes :
          /\ live'[r].connections \subseteq live[r].connections
          /\ live'[r].terminal => live[r].terminal
          /\ live[r].state = "open" => live'[r].state = "open" /\ live'[r].session = live[r].session
    BY <1>3 DEF Keeps
  <2>2. ViewsQuiet
    BY <2>1, <1>1, <1>5 DEF ViewsQuiet
  <2> QED
    BY <2>2, <1>0, <1>4, ViewsQuietKeeps DEF ManagerInv
<1> QED
  BY <1>4, <1>6, <1>7 DEF LiveInv

(* Close, up to the manager.                                               *)
LEMMA CloseBeginsKeeps ==
  ASSUME LiveInv, Close \/ CloseConnections
  PROVE  LiveInv'
<1>0. /\ LiveTyped /\ ManagerInv /\ UsesSound /\ OperationsCounted
      /\ NoDisposeInUse /\ UnusedIsDisposed /\ SnapshotsSound /\ ViewsSound
  BY DEF LiveInv
<1>1. /\ Quiet /\ live' = live /\ sessionIds' = sessionIds /\ requests' = requests
      /\ view' = view /\ revision' = revision /\ broadcasts' = broadcasts
      /\ lost' = lost /\ received' = received
      /\ liveSessions' = liveSessions /\ openingSessions' = openingSessions
      /\ closeWaits' = closeWaits /\ closeFinds' = closeFinds
      /\ closing' \in {"listeners", "connections"} /\ closing \in {"no", "listeners"}
  BY DEF Close, CloseConnections, connVars, managerVars, snapshotVars, countVars
<1>2. stage' = stage \/ stage' = [c \in Conns |-> IF stage[c] = "ready" THEN "closing" ELSE stage[c]]
  BY DEF Close, CloseConnections, connVars
<1>3. LiveTyped'
  <2>1. stage' \in [Conns -> {"ready", "closing", "closed"}]
    BY <1>0, <1>2 DEF LiveTyped
  <2>2. closing' \in CloseStages
    BY <1>1 DEF CloseStages
  <2> QED
    BY <2>1, <2>2, <1>0, <1>1 DEF LiveTyped
<1>4. \A d \in Conns : /\ stage[d] = "closed" => stage'[d] = "closed"
                       /\ stage'[d] = "ready" => stage[d] = "ready"
  BY <1>2
<1>5. ManagerInv' /\ UsesSound' /\ OperationsCounted' /\ NoDisposeInUse' /\ UnusedIsDisposed'
  BY <1>0, <1>1, <1>3, <1>4, RuntimesUntouched, BetweenRequests
<1>6. SnapshotsSound' /\ ViewsSound'
  <2>1. ViewsQuiet
    BY <1>1, <1>4 DEF ViewsQuiet
  <2> QED
    BY <2>1, <1>0, <1>3, ViewsQuietKeeps DEF ManagerInv
<1> QED
  BY <1>3, <1>5, <1>6 DEF LiveInv

-----------------------------------------------------------------------------
(* Openings and disposals.                                                 *)

(* What a step that opens or takes down a session leaves to show, once the  *)
(* manager and the requests are sound after it.                            *)
LEMMA RestKept ==
  ASSUME LiveInv, LiveTyped', UsesSound',
         view' = view, revision' = revision, broadcasts' = broadcasts, lost' = lost,
         stage' = stage, isClosing => isClosing',
         \A s \in Sessions : liveSessions'[s] # 0 =>
           liveSessions'[s] = liveSessions[s] \/ live'[liveSessions'[s]].connections = {},
         \A r \in Runtimes :
           /\ live'[r].connections \subseteq live[r].connections
           /\ live'[r].terminal => live[r].terminal
           /\ live'[r].operationCount = live[r].operationCount
           /\ live[r].state = "open" =>
                /\ live'[r].state = "open" /\ live'[r].session = live[r].session
                /\ isClosing' \/ live'[r].disposing = live[r].disposing \/ live[r].disposing # "none"
           /\ live'[r].state = "open" /\ Unneeded(live'[r]) /\ ~isClosing' =>
                \/ live[r].state = "open" /\ Unneeded(live[r])
                \/ \E p \in Slots : requests'[p].pc \in Resumed /\ requests'[p].live = r,
         \A p \in Slots :
           \/ requests'[p] = requests[p]
           \/ /\ requests[p].pc \notin {"operate", "snapshot"}
              /\ requests'[p].pc \notin {"operate", "snapshot"}
              /\ requests[p].pc \in Resumed => requests[p].live = 0
  PROVE  /\ OperationsCounted' /\ NoDisposeInUse' /\ UnusedIsDisposed'
         /\ SnapshotsSound' /\ ViewsSound'
<1>0. /\ LiveTyped /\ ManagerInv /\ UsesSound /\ OperationsCounted
      /\ NoDisposeInUse /\ UnusedIsDisposed /\ SnapshotsSound /\ ViewsSound
  BY DEF LiveInv
<1>1. OperationsCounted'
  <2>1. \A p \in Slots : \A r \in Runtimes : p \in OperatingOn(r)' <=> p \in OperatingOn(r)
    BY DEF OperatingOn
  <2> QED
    BY <1>0, <2>1, OperationsKept
<1>2. NoDisposeInUse'
  <2>1. \A p \in Slots : At(p, "operate")' => At(p, "operate") /\ requests'[p].live = requests[p].live
    BY DEF At
  <2>2. InUseIsCounted'
    BY <1>1, InUseCounted, PTL
  <2>3. InUseIsCounted
    BY <1>0, InUseCounted
  <2> SUFFICES ASSUME NEW p \in Slots, requests'[p].pc = "operate", ~isClosing'
      PROVE  live'[requests'[p].live].disposing = "none"
    BY DEF NoDisposeInUse, At
  <2>4. /\ requests[p].live \in Runtimes /\ live[requests[p].live].state = "open"
        /\ requests'[p].live = requests[p].live /\ At(p, "operate")
    BY <2>1, <2>3 DEF InUseIsCounted, At
  <2>5. live[requests[p].live].disposing = "none"
    BY <1>0, <2>4 DEF NoDisposeInUse
  <2> QED
    BY <2>4, <2>5
<1>3. UnusedIsDisposed'
  <2>1. \A r \in Runtimes :
          live'[r].state = "open" /\ Unneeded(live'[r]) /\ ~isClosing' =>
            \/ /\ live[r].state = "open" /\ Unneeded(live[r])
               /\ \A p \in Slots : requests[p].pc \in Resumed /\ requests[p].live = r =>
                    requests'[p] = requests[p]
            \/ \E p \in Slots : requests'[p].pc \in Resumed /\ requests'[p].live = r
    BY RuntimesAreIndices
  <2> QED
    BY <1>0, <2>1, UnusedKept
<1>4. SnapshotsSound' /\ ViewsSound'
  <2>1. \A p \in Slots : At(p, "snapshot") => requests'[p] = requests[p]
    BY DEF At
  <2>2. \A p \in Slots : At(p, "snapshot")' =>
          requests'[p] = requests[p] \/ requests'[p].revision <= revision[requests'[p].session]
    BY DEF At
  <2>3. ViewsQuiet
    BY <2>1, <2>2 DEF ViewsQuiet
  <2> QED
    BY <1>0, <2>3, ViewsQuietKeeps DEF ManagerInv
<1> QED
  BY <1>1, <1>2, <1>3, <1>4

(* A runtime that is not open counts no operation.                         *)
LEMMA UnopenedIsUnused ==
  ASSUME LiveTyped, UsesSound, OperationsCounted, NEW r \in Runtimes, live[r].state # "open"
  PROVE  live[r].operationCount = 0
<1>1. \A q \in OperatingOn(r) : q \in Slots /\ requests[q].pc \in Uses /\ requests[q].live = r
  BY PcKinds DEF OperatingOn
<1>2. OperatingOn(r) = {}
  BY <1>1 DEF UsesSound
<1> QED
  BY <1>2, OperatingIsFinite DEF OperationsCounted

(* A round of acquire.                                                     *)
LEMMA AcquireRoundKeeps ==
  ASSUME LiveInv, NEW q \in Slots, NEW c \in Conns, NEW s \in Sessions, Acquire(q, c, s),
         \/ requests[q].pc = "free" /\ stage[c] = "ready"
         \/ requests[q].pc = "acquire" /\ requests[q].session = s,
         received' \in 0..MaxRequests, lost' = lost
  PROVE  LiveInv'
<1>0. /\ LiveTyped /\ ManagerInv /\ UsesSound /\ OperationsCounted
      /\ NoDisposeInUse /\ UnusedIsDisposed /\ SnapshotsSound /\ ViewsSound
  BY DEF LiveInv
<1>1. /\ stage' = stage /\ sessionIds' = sessionIds /\ live' = live
      /\ liveSessions' = liveSessions
      /\ view' = view /\ revision' = revision /\ broadcasts' = broadcasts
      /\ closing' = closing /\ closeWaits' = closeWaits /\ closeFinds' = closeFinds
  BY DEF Acquire, connVars, snapshotVars, closeVars
<1> DEFINE r == liveSessions[s]
           wait(pc) == [pc |-> pc, kind |-> "attach", conn |-> c, session |-> s,
                        live |-> r, revision |-> 0]
<1>2. liveSessions[s] # 0 =>
        /\ liveSessions[s] \in Runtimes /\ live[liveSessions[s]].state = "open"
        /\ live[liveSessions[s]].session = s
        /\ live[liveSessions[s]].disposing \in {"none", "pending"}
  BY <1>0, RegisteredIsOpen DEF ManagerInv, RegisteredSound
<1>3. \E x \in Request :
        /\ requests' = [requests EXCEPT ![q] = x]
        /\ \/ x.pc = "free" /\ openingSessions' = openingSessions
           \/ /\ x.pc \in {"awaitDisposing", "found", "awaitOpening"} /\ x.session = s
              /\ x.kind = "attach" /\ openingSessions' = openingSessions
              /\ x.pc # "awaitOpening" => x.live = liveSessions[s] /\ liveSessions[s] # 0
              /\ x.pc = "awaitDisposing" => live[liveSessions[s]].disposing = "pending"
              /\ x.pc = "found" => ~live[liveSessions[s]].terminal
           \/ /\ x.pc = "open" /\ x.session = s /\ x.kind = "attach"
              /\ liveSessions[s] = 0 /\ openingSessions[s] = None
              /\ openingSessions' = [openingSessions EXCEPT ![s] = q]
  <2>1. \A pc \in {"awaitDisposing", "found", "awaitOpening", "open"} :
          /\ wait(pc) \in Request /\ wait(pc).pc = pc /\ wait(pc).session = s
          /\ wait(pc).kind = "attach" /\ wait(pc).live = r
    <3>1. /\ {"awaitDisposing", "found", "awaitOpening", "open"} \subseteq Awaits
          /\ 0 \in Revisions /\ r \in 0..MaxRuntimes
      BY <1>0, RuntimesAreIndices DEF Awaits, Resumed, LiveTyped
    <3> QED
      BY <3>1 DEF Request
  <2>2. CASE r # 0 /\ live[r].terminal
    <3>1. requests' = [requests EXCEPT ![q] = NoRequest] /\ openingSessions' = openingSessions
      BY <2>2 DEF Acquire
    <3> QED
      BY <3>1, NoRequestTyped
  <2>3. CASE r # 0 /\ ~live[r].terminal /\ live[r].disposing # "none"
    <3>1. requests' = [requests EXCEPT ![q] = wait("awaitDisposing")]
          /\ openingSessions' = openingSessions
      BY <2>3 DEF Acquire, Wait
    <3>2. live[r].disposing = "pending"
      BY <2>3, <1>2
    <3> HIDE DEF wait
    <3> QED
      BY <2>1, <2>3, <3>1, <3>2
  <2>4. CASE r # 0 /\ ~live[r].terminal /\ live[r].disposing = "none"
    <3>1. requests' = [requests EXCEPT ![q] = wait("found")] /\ openingSessions' = openingSessions
      BY <2>4 DEF Acquire, Wait
    <3> HIDE DEF wait
    <3> QED
      BY <2>1, <2>4, <3>1
  <2>5. CASE r = 0 /\ openingSessions[s] # None
    <3>1. requests' = [requests EXCEPT ![q] = wait("awaitOpening")]
          /\ openingSessions' = openingSessions
      BY <2>5 DEF Acquire, Wait
    <3> HIDE DEF wait
    <3> QED
      BY <2>1, <2>5, <3>1
  <2>6. CASE r = 0 /\ openingSessions[s] = None
    <3>1. requests' = [requests EXCEPT ![q] = wait("open")]
          /\ openingSessions' = [openingSessions EXCEPT ![s] = q]
      BY <2>6 DEF Acquire, Wait
    <3> HIDE DEF wait
    <3> QED
      BY <2>1, <2>6, <3>1
  <2> QED
    BY <2>2, <2>3, <2>4, <2>5, <2>6
<1> HIDE DEF r, wait
<1>4. PICK x \in Request :
        /\ requests' = [requests EXCEPT ![q] = x]
        /\ \/ x.pc = "free" /\ openingSessions' = openingSessions
           \/ /\ x.pc \in {"awaitDisposing", "found", "awaitOpening"} /\ x.session = s
              /\ x.kind = "attach" /\ openingSessions' = openingSessions
              /\ x.pc # "awaitOpening" => x.live = liveSessions[s] /\ liveSessions[s] # 0
              /\ x.pc = "awaitDisposing" => live[liveSessions[s]].disposing = "pending"
              /\ x.pc = "found" => ~live[liveSessions[s]].terminal
           \/ /\ x.pc = "open" /\ x.session = s /\ x.kind = "attach"
              /\ liveSessions[s] = 0 /\ openingSessions[s] = None
              /\ openingSessions' = [openingSessions EXCEPT ![s] = q]
  BY <1>3
<1>5. /\ requests'[q] = x /\ \A p \in Slots : p # q => requests'[p] = requests[p]
      /\ x.pc # "acquire" /\ requests[q].pc \in {"free", "acquire"}
  BY <1>0, <1>4 DEF LiveTyped
<1>6. LiveTyped'
  <2>1. requests' \in [Slots -> Request]
    BY <1>0, <1>4 DEF LiveTyped
  <2>2. openingSessions' \in [Sessions -> Slots \cup {None}]
    BY <1>0, <1>4 DEF LiveTyped
  <2> QED
    BY <2>1, <2>2, <1>0, <1>1 DEF LiveTyped
<1>7. \A t \in Sessions : openingSessions[t] # None =>
        /\ openingSessions'[t] = openingSessions[t] /\ openingSessions[t] \in Slots
        /\ openingSessions[t] # q /\ requests'[openingSessions[t]] = requests[openingSessions[t]]
  <2> TAKE t \in Sessions
  <2> HAVE openingSessions[t] # None
  <2>1. openingSessions[t] \in Slots
    BY <1>0 DEF LiveTyped
  <2>2. openingSessions[t] # q
    BY <1>0, <1>5, PcKinds DEF ManagerInv, OpeningsSound
  <2>3. openingSessions'[t] = openingSessions[t]
    BY <1>0, <1>4 DEF LiveTyped
  <2> QED
    BY <2>1, <2>2, <2>3, <1>5
<1>8. \A r1 \in Runtimes : TakenDown(r1) => live[r1].session # s
  <2> SUFFICES ASSUME NEW r1 \in Runtimes, TakenDown(r1), live[r1].session = s PROVE FALSE
    OBVIOUS
  <2>1. \A d \in Conns : stage[d] = "closed"
    BY <1>0 DEF TakenDown, ManagerInv, CloseSound
  <2>2. ~At(q, "acquire") \/ requests[q].session # s
    BY DEF TakenDown
  <2> QED
    BY <2>1, <2>2 DEF At
<1>9. RuntimesSound'
  <2>1. \A r1 \in Runtimes, at \in {"openSnapshot", "discard"} :
          OpenedBy(r1, at) => OpenedBy(r1, at)'
    BY <1>0, <1>1, <1>7, RuntimeTyped DEF OpenedBy, Opener
  <2>2. \A r1 \in Runtimes : TakenDown(r1) => TakenDown(r1)'
    <3> SUFFICES ASSUME NEW r1 \in Runtimes, TakenDown(r1) PROVE TakenDown(r1)'
      OBVIOUS
    <3>1. live[r1].session \in Sessions /\ live[r1].session # s
      BY <1>0, <1>8, RuntimeTyped
    <3>2. openingSessions'[live[r1].session] = None
      BY <3>1, <1>0, <1>4 DEF TakenDown, LiveTyped
    <3>3. \A p \in Slots : At(p, "acquire")' => At(p, "acquire") /\ requests'[p] = requests[p]
      BY <1>5 DEF At
    <3> QED
      BY <3>2, <3>3, <1>1 DEF TakenDown
  <2> SUFFICES ASSUME NEW r1 \in Runtimes
      PROVE  /\ live[r1].state = "opening" =>
                  live[r1].disposing = "none" /\ live[r1].connections = {} /\ ~live[r1].terminal
                  /\ OpenedBy(r1, "openSnapshot")'
             /\ live[r1].state = "discarded" /\ live[r1].disposing \in {"none", "pending"} =>
                  OpenedBy(r1, "discard")'
             /\ live[r1].state = "open" /\ live[r1].disposing = "none" /\ ~live[r1].terminal =>
                  live[r1].subscribed
             /\ live[r1].state = "open" /\ live[r1].disposing \in {"none", "pending"} =>
                  liveSessions[live[r1].session] = r1 \/ TakenDown(r1)'
    BY <1>1 DEF RuntimesSound
  <2> QED
    BY <2>1, <2>2, <1>0 DEF ManagerInv, RuntimesSound
<1>10. OpeningsSound'
  <2>1. \A t \in Sessions : openingSessions'[t] # None =>
          /\ requests'[openingSessions'[t]].pc \in Opens
          /\ requests'[openingSessions'[t]].session = t
          /\ liveSessions'[t] = 0
    <3> TAKE t \in Sessions
    <3> HAVE openingSessions'[t] # None
    <3>1. CASE openingSessions[t] # None
      BY <3>1, <1>0, <1>1, <1>7 DEF ManagerInv, OpeningsSound
    <3>2. CASE openingSessions[t] = None
      <4>1. t = s /\ openingSessions'[t] = q /\ x.pc = "open" /\ x.session = s /\ liveSessions[s] = 0
        BY <3>2, <1>0, <1>4 DEF LiveTyped
      <4> QED
        BY <4>1, <1>1, <1>5 DEF Opens
    <3> QED
      BY <3>1, <3>2
  <2>2. \A p \in Slots : requests'[p].pc \in Opens => openingSessions'[requests'[p].session] = p
    <3> TAKE p \in Slots
    <3> HAVE requests'[p].pc \in Opens
    <3>1. CASE p # q
      <4>1. openingSessions[requests[p].session] = p /\ requests[p].session \in Sessions
        BY <3>1, <1>0, <1>5, RequestTyped DEF ManagerInv, OpeningsSound
      <4> QED
        BY <4>1, <3>1, <1>5, <1>7, RuntimesAreIndices
    <3>2. CASE p = q
      <4>1. x.pc = "open"
        BY <3>2, <1>4, <1>5 DEF Opens
      <4> QED
        BY <4>1, <3>2, <1>0, <1>4, <1>5 DEF LiveTyped
    <3> QED
      BY <3>1, <3>2
  <2>3. \A p \in Slots : requests'[p].pc \in {"openSnapshot", "discard"} =>
          p # q /\ requests'[p] = requests[p]
    BY <1>4, <1>5
  <2> QED
    BY <2>1, <2>2, <2>3, <1>0, <1>1 DEF ManagerInv, OpeningsSound, At
<1>11. RegisteredSound' /\ CloseSound'
  BY <1>0, <1>1 DEF ManagerInv, RegisteredSound, CloseSound
<1>12. UsesSound'
  <2> SUFFICES ASSUME NEW p \in Slots
      PROVE  /\ requests'[p].pc \in Uses =>
                  /\ requests'[p].live # 0 /\ live[requests'[p].live].state = "open"
                  /\ live[requests'[p].live].session = requests'[p].session
             /\ requests'[p].pc = "awaitDisposing" => live[requests'[p].live].disposing = "pending"
             /\ requests'[p].pc = "acquire" => requests'[p].live = 0
             /\ requests'[p].pc = "operate" => requests'[p].kind = "operation"
             /\ requests'[p].pc \in Opens \cup {"awaitOpening"} => requests'[p].kind = "attach"
             /\ requests'[p].pc \in Joins =>
                  requests'[p].kind = "attach" /\ ~live[requests'[p].live].terminal
    BY <1>1 DEF UsesSound, At
  <2>1. CASE p # q
    BY <2>1, <1>0, <1>5 DEF UsesSound, At
  <2>2. CASE p = q
    BY <2>2, <1>2, <1>4, <1>5 DEF Uses, Joins, Opens
  <2> QED
    BY <2>1, <2>2
<1>13. /\ OperationsCounted' /\ NoDisposeInUse' /\ UnusedIsDisposed'
       /\ SnapshotsSound' /\ ViewsSound'
  <2>1. \A p \in Slots :
           \/ requests'[p] = requests[p]
           \/ /\ requests[p].pc \notin {"operate", "snapshot"}
              /\ requests'[p].pc \notin {"operate", "snapshot"}
              /\ requests[p].pc \in Resumed => requests[p].live = 0
    <3> TAKE p \in Slots
    <3>1. CASE p = q
      <4>1. requests[q].pc = "acquire" => requests[q].live = 0
        BY <1>0 DEF UsesSound, At
      <4>2. x.pc \notin {"operate", "snapshot"}
        BY <1>4
      <4> QED
        BY <3>1, <4>1, <4>2, <1>5, PcKinds
    <3> QED
      BY <3>1, <1>5
  <2>2. isClosing' <=> isClosing
    BY <1>1 DEF isClosing
  <2>3. \A r1 \in Runtimes :
           /\ live'[r1].connections \subseteq live[r1].connections
           /\ live'[r1].terminal => live[r1].terminal
           /\ live'[r1].operationCount = live[r1].operationCount
           /\ live[r1].state = "open" =>
                /\ live'[r1].state = "open" /\ live'[r1].session = live[r1].session
                /\ isClosing' \/ live'[r1].disposing = live[r1].disposing \/ live[r1].disposing # "none"
           /\ live'[r1].state = "open" /\ Unneeded(live'[r1]) /\ ~isClosing' =>
                \/ live[r1].state = "open" /\ Unneeded(live[r1])
                \/ \E p \in Slots : requests'[p].pc \in Resumed /\ requests'[p].live = r1
    BY <1>1
  <2>4. \A t \in Sessions : liveSessions'[t] # 0 =>
           liveSessions'[t] = liveSessions[t] \/ live'[liveSessions'[t]].connections = {}
    BY <1>1
  <2> QED
    BY <1>1, <1>6, <1>12, <2>1, <2>2, <2>3, <2>4, RestKept
<1> QED
  BY <1>6, <1>9, <1>10, <1>11, <1>12, <1>13 DEF LiveInv, ManagerInv

(* A request that opens a session.                                         *)
LEMMA OpenerKnown ==
  ASSUME LiveTyped, ManagerInv, NEW q \in Slots, requests[q].pc \in Opens
  PROVE  /\ requests[q].session \in Sessions /\ openingSessions[requests[q].session] = q
         /\ liveSessions[requests[q].session] = 0 /\ q # None
         /\ \A t \in Sessions : openingSessions[t] = q => t = requests[q].session
         /\ requests[q].pc \in {"openSnapshot", "discard"} => requests[q].live \in Runtimes
         /\ \A r \in Runtimes, at \in {"openSnapshot", "discard"} :
              /\ live[r].session = requests[q].session /\ OpenedBy(r, at) =>
                   requests[q].pc = at /\ requests[q].live = r
              /\ live[r].session # requests[q].session => Opener(r) # q
<1>1. requests[q].session \in Sessions /\ q # None
  BY RequestTyped, RuntimesAreIndices
<1>2. openingSessions[requests[q].session] = q
  BY DEF ManagerInv, OpeningsSound
<1>3. /\ liveSessions[requests[q].session] = 0
      /\ \A t \in Sessions : openingSessions[t] = q => t = requests[q].session
  BY <1>1, <1>2 DEF ManagerInv, OpeningsSound
<1>4. requests[q].pc \in {"openSnapshot", "discard"} => requests[q].live \in Runtimes
  BY RequestTyped DEF ManagerInv, OpeningsSound, At
<1>5. \A r \in Runtimes : live[r].session \in Sessions
  BY RuntimeTyped
<1> QED
  BY <1>1, <1>2, <1>3, <1>4, <1>5 DEF OpenedBy, Opener

(* create rejects: nobody opens the session any more.                      *)
LEMMA OpeningFailsKeeps ==
  ASSUME LiveInv, NEW q \in Slots, OpenFails(q) \/ Discard(q)
  PROVE  LiveInv'
<1>0. /\ LiveTyped /\ ManagerInv /\ UsesSound /\ OperationsCounted
      /\ NoDisposeInUse /\ UnusedIsDisposed /\ SnapshotsSound /\ ViewsSound
  BY DEF LiveInv
<1>1. /\ stage' = stage /\ sessionIds' = sessionIds /\ liveSessions' = liveSessions
      /\ view' = view /\ revision' = revision /\ broadcasts' = broadcasts
      /\ closing' = closing /\ closeFinds' = closeFinds /\ closeWaits' = closeWaits \ {q}
      /\ received' = received /\ lost' = lost
      /\ requests[q].pc \in {"open", "discard"} /\ requests[q].pc \in Opens
      /\ requests' = [p \in Slots |-> IF Opening(q)[p] THEN NoRequest ELSE requests[p]]
      /\ openingSessions' = [openingSessions EXCEPT ![requests[q].session] = None]
  BY DEF OpenFails, Discard, OpenEnds, connVars, snapshotVars, countVars, At, Opens
<1>2. PICK s \in Sessions : s = requests[q].session
  BY <1>0, RequestTyped
<1>3. /\ openingSessions[s] = q /\ liveSessions[s] = 0 /\ q # None
      /\ \A t \in Sessions : openingSessions[t] = q => t = s
      /\ requests[q].pc = "discard" =>
           requests[q].live \in Runtimes /\ live[requests[q].live].state = "discarded"
      /\ \A r \in Runtimes, at \in {"openSnapshot", "discard"} :
           /\ live[r].session = s /\ OpenedBy(r, at) => requests[q].pc = at /\ requests[q].live = r
           /\ live[r].session # s => Opener(r) # q
  BY <1>0, <1>1, <1>2, OpenerKnown DEF ManagerInv, OpeningsSound, At
<1>4. \A p \in Slots :
        \/ requests'[p] = requests[p] /\ p # q
        \/ requests'[p] = NoRequest /\ requests[p].pc \in {"open", "discard", "awaitOpening"}
  BY <1>1 DEF Opening, At
<1>5. \A r \in Runtimes :
        \/ live'[r] = live[r] /\ ~(requests[q].pc = "discard" /\ requests[q].live = r)
        \/ /\ live[r].state = "discarded" /\ live'[r].state = "discarded"
           /\ requests[q].pc = "discard" /\ requests[q].live = r
           /\ live'[r] \in RuntimeRecord /\ live'[r].session = live[r].session
           /\ live'[r].disposing \in {"resolved", "rejected"}
           /\ live'[r].connections = live[r].connections
           /\ live'[r].operationCount = live[r].operationCount
           /\ live'[r].terminal = live[r].terminal
  <2>1. CASE OpenFails(q)
    BY <2>1 DEF OpenFails, At
  <2>2. CASE Discard(q)
    <3>1. PICK outcome \in {"resolved", "rejected"} :
            live' = [live EXCEPT ![requests[q].live].disposing = outcome]
      BY <2>2 DEF Discard
    <3>2. requests[q].pc = "discard"
      BY <2>2 DEF Discard, At
    <3>3. requests[q].live \in Runtimes /\ live[requests[q].live].state = "discarded"
      BY <3>2, <1>3
    <3>4. live[requests[q].live] \in RuntimeRecord
      BY <3>3, <1>0, RuntimeTyped
    <3>5. outcome \in Disposals
      BY DEF Disposals
    <3>6. \A r \in Runtimes : r # requests[q].live => live'[r] = live[r]
      BY <3>1, <1>0 DEF LiveTyped
    <3>7. live'[requests[q].live] = [live[requests[q].live] EXCEPT !.disposing = outcome]
      BY <3>1, <3>3, <1>0 DEF LiveTyped
    <3>8. LET k == live[requests[q].live] IN
          /\ [k EXCEPT !.disposing = outcome] \in RuntimeRecord
          /\ [k EXCEPT !.disposing = outcome].state = k.state
          /\ [k EXCEPT !.disposing = outcome].session = k.session
          /\ [k EXCEPT !.disposing = outcome].disposing = outcome
          /\ [k EXCEPT !.disposing = outcome].connections = k.connections
          /\ [k EXCEPT !.disposing = outcome].operationCount = k.operationCount
          /\ [k EXCEPT !.disposing = outcome].terminal = k.terminal
      BY <3>4, <3>5 DEF RuntimeRecord
    <3> QED
      BY <3>2, <3>3, <3>6, <3>7, <3>8
  <2> QED
    BY <2>1, <2>2
<1>6. LiveTyped'
  <2>1. requests' \in [Slots -> Request]
    <3>1. \A p \in Slots : requests'[p] \in Request
      BY <1>0, <1>4, NoRequestTyped DEF LiveTyped
    <3> QED
      BY <3>1, <1>1
  <2>2. live' \in [Runtimes -> RuntimeRecord]
    <3>1. \E outcome : live' = live \/ live' = [live EXCEPT ![requests[q].live].disposing = outcome]
      BY DEF OpenFails, Discard
    <3>2. \A r \in Runtimes : live'[r] \in RuntimeRecord
      BY <1>0, <1>5 DEF LiveTyped
    <3> QED
      BY <3>1, <3>2, <1>0 DEF LiveTyped
  <2>3. openingSessions' \in [Sessions -> Slots \cup {None}] /\ closeWaits' \subseteq Slots
    BY <1>0, <1>1 DEF LiveTyped
  <2> QED
    BY <2>1, <2>2, <2>3, <1>0, <1>1 DEF LiveTyped
<1>7. /\ openingSessions'[s] = None
      /\ \A t \in Sessions : t # s => openingSessions'[t] = openingSessions[t]
      /\ NoRequest.pc = "free"
  BY <1>0, <1>1, <1>2, NoRequestTyped DEF LiveTyped
<1>8. \A p \in Slots : requests[p].pc \in Opens =>
        p = q \/ (requests'[p] = requests[p] /\ requests[p].session # s)
  <2> SUFFICES ASSUME NEW p \in Slots, requests[p].pc \in Opens, p # q
      PROVE  requests'[p] = requests[p] /\ requests[p].session # s
    OBVIOUS
  <2>1. requests[p].session # s
    BY <1>0, <1>3 DEF ManagerInv, OpeningsSound
  <2>2. ~Opening(q)[p]
    BY PcKinds DEF Opening, At
  <2> QED
    BY <2>1, <2>2, <1>1
<1>9. \A r \in Runtimes : live'[r].session = live[r].session /\ live'[r].state = live[r].state
                          /\ live[r].session \in Sessions
  BY <1>0, <1>5, RuntimeTyped
<1>10. RuntimesSound'
  <2> SUFFICES ASSUME NEW r \in Runtimes
      PROVE  /\ live'[r].state = "opening" =>
                  live'[r].disposing = "none" /\ live'[r].connections = {} /\ ~live'[r].terminal
                  /\ OpenedBy(r, "openSnapshot")'
             /\ live'[r].state = "discarded" /\ live'[r].disposing \in {"none", "pending"} =>
                  OpenedBy(r, "discard")'
             /\ live'[r].state = "open" /\ live'[r].disposing = "none" /\ ~live'[r].terminal =>
                  live'[r].subscribed
             /\ live'[r].state = "open" /\ live'[r].disposing \in {"none", "pending"} =>
                  liveSessions'[live'[r].session] = r \/ TakenDown(r)'
    BY DEF RuntimesSound
  <2>1. CASE live'[r] # live[r]
    BY <2>1, <1>5
  <2>2. CASE live'[r] = live[r]
    <3>1. \A at \in {"openSnapshot", "discard"} :
            OpenedBy(r, at) /\ ~(requests[q].pc = "discard" /\ requests[q].live = r) =>
              OpenedBy(r, at)'
      <4> TAKE at \in {"openSnapshot", "discard"}
      <4> HAVE OpenedBy(r, at) /\ ~(requests[q].pc = "discard" /\ requests[q].live = r)
      <4>1. live[r].session # s
        BY <1>1, <1>3
      <4>2. /\ Opener(r) \in Slots /\ Opener(r) # q /\ requests[Opener(r)].pc \in Opens
        BY <4>1, <1>0, <1>3, <1>9 DEF OpenedBy, Opener, Opens, LiveTyped
      <4>3. requests'[Opener(r)] = requests[Opener(r)]
        BY <4>2, <1>8
      <4>4. openingSessions'[live'[r].session] = Opener(r)
        BY <4>1, <1>7, <1>9 DEF Opener
      <4> QED
        BY <4>3, <4>4 DEF OpenedBy, Opener
    <3>2. TakenDown(r) => TakenDown(r)'
      <4>1. \A p \in Slots : At(p, "acquire")' => At(p, "acquire") /\ requests'[p] = requests[p]
        BY <1>4, <1>7 DEF At
      <4>2. openingSessions[live[r].session] = None => openingSessions'[live[r].session] = None
        BY <1>7, <1>9
      <4> QED
        BY <4>1, <4>2, <2>2, <1>1 DEF TakenDown
    <3>3. live[r].disposing \in {"none", "pending"} =>
            ~(requests[q].pc = "discard" /\ requests[q].live = r)
      BY <2>2, <1>5
    <3> QED
      BY <2>2, <3>1, <3>2, <3>3, <1>0, <1>1 DEF ManagerInv, RuntimesSound
  <2> QED
    BY <2>1, <2>2
<1>11. OpeningsSound'
  <2>1. \A t \in Sessions : openingSessions'[t] # None =>
          /\ requests'[openingSessions'[t]].pc \in Opens
          /\ requests'[openingSessions'[t]].session = t
          /\ liveSessions'[t] = 0
    <3> TAKE t \in Sessions
    <3> HAVE openingSessions'[t] # None
    <3>1. t # s /\ openingSessions'[t] = openingSessions[t] /\ openingSessions[t] \in Slots
          /\ openingSessions[t] # q
      BY <1>0, <1>3, <1>7 DEF LiveTyped
    <3>2. requests'[openingSessions[t]] = requests[openingSessions[t]]
      BY <3>1, <1>0, <1>8 DEF ManagerInv, OpeningsSound
    <3> QED
      BY <3>1, <3>2, <1>0, <1>1 DEF ManagerInv, OpeningsSound
  <2>2. ASSUME NEW p \in Slots, requests'[p].pc \in Opens
        PROVE  requests'[p] = requests[p] /\ p # q /\ openingSessions'[requests'[p].session] = p
    <3>1. requests'[p] = requests[p] /\ p # q
      BY <2>2, <1>4, <1>7, PcKinds
    <3>2. requests[p].session # s /\ requests[p].session \in Sessions
      BY <2>2, <3>1, <1>0, <1>8, RequestTyped
    <3> QED
      BY <2>2, <3>1, <3>2, <1>0, <1>7 DEF ManagerInv, OpeningsSound
  <2>3. ASSUME NEW p \in Slots, At(p, "openSnapshot")'
        PROVE  /\ requests'[p].live # 0 /\ live'[requests'[p].live].state = "opening"
               /\ live'[requests'[p].live].session = requests'[p].session
               /\ closing' \notin Ended /\ (closing' = "openings" => p \in closeWaits')
    <3>1. requests'[p] = requests[p] /\ p # q /\ At(p, "openSnapshot")
      BY <2>3, <2>2 DEF At, Opens
    <3>2. requests[p].live \in Runtimes
      BY <3>1, <1>0, RequestTyped DEF ManagerInv, OpeningsSound
    <3> QED
      BY <3>1, <3>2, <1>0, <1>1, <1>9 DEF ManagerInv, OpeningsSound
  <2>4. ASSUME NEW p \in Slots, At(p, "discard")'
        PROVE  /\ requests'[p].live # 0 /\ live'[requests'[p].live].state = "discarded"
               /\ live'[requests'[p].live].session = requests'[p].session
               /\ live'[requests'[p].live].disposing = "pending"
    <3>1. requests'[p] = requests[p] /\ p # q /\ At(p, "discard") /\ requests[p].session # s
      BY <2>4, <2>2, <1>8 DEF At, Opens
    <3>2. requests[p].live \in Runtimes
      BY <3>1, <1>0, RequestTyped DEF ManagerInv, OpeningsSound
    <3>3. requests[q].pc = "discard" => live[requests[q].live].session = s
      BY <1>0, <1>2 DEF ManagerInv, OpeningsSound, At
    <3>4. live'[requests[p].live] = live[requests[p].live]
      BY <3>1, <3>2, <3>3, <1>0, <1>5 DEF ManagerInv, OpeningsSound
    <3> QED
      BY <3>1, <3>4, <1>0 DEF ManagerInv, OpeningsSound
  <2> QED
    BY <2>1, <2>2, <2>3, <2>4 DEF OpeningsSound
<1>12. RegisteredSound' /\ CloseSound'
  <2>1. \A r \in Runtimes : live[r].state = "open" => live'[r] = live[r]
    BY <1>5
  <2>2. RegisteredSound'
    <3>1. \A t \in Sessions : liveSessions[t] # 0 => live'[liveSessions[t]] = live[liveSessions[t]]
      BY <2>1, <1>0, RegisteredIsOpen
    <3> QED
      BY <3>1, <1>0, <1>1 DEF ManagerInv, RegisteredSound
  <2>3. CloseSound'
    <3>1. \A r \in closeFinds : live'[r] = live[r]
      BY <2>1, <1>0 DEF ManagerInv, CloseSound, LiveTyped
    <3> QED
      BY <3>1, <1>0, <1>1 DEF ManagerInv, CloseSound
  <2> QED
    BY <2>2, <2>3
<1>13. UsesSound'
  <2> SUFFICES ASSUME NEW p \in Slots
      PROVE  /\ requests'[p].pc \in Uses =>
                  /\ requests'[p].live # 0 /\ live'[requests'[p].live].state = "open"
                  /\ live'[requests'[p].live].session = requests'[p].session
             /\ requests'[p].pc = "awaitDisposing" => live'[requests'[p].live].disposing = "pending"
             /\ requests'[p].pc = "acquire" => requests'[p].live = 0
             /\ requests'[p].pc = "operate" => requests'[p].kind = "operation"
             /\ requests'[p].pc \in Opens \cup {"awaitOpening"} => requests'[p].kind = "attach"
             /\ requests'[p].pc \in Joins =>
                  requests'[p].kind = "attach" /\ ~live'[requests'[p].live].terminal
    BY DEF UsesSound, At
  <2>1. CASE requests'[p] = requests[p]
    <3>1. requests[p].pc \in Uses => live'[requests[p].live] = live[requests[p].live]
      BY <1>0, <1>5, InHand
    <3> QED
      BY <2>1, <3>1, <1>0, PcKinds DEF UsesSound, At
  <2>2. CASE requests'[p] # requests[p]
    BY <2>2, <1>4, <1>7, PcKinds
  <2> QED
    BY <2>1, <2>2
<1>14. /\ OperationsCounted' /\ NoDisposeInUse' /\ UnusedIsDisposed'
       /\ SnapshotsSound' /\ ViewsSound'
  <2>1. \A p \in Slots :
           \/ requests'[p] = requests[p]
           \/ /\ requests[p].pc \notin {"operate", "snapshot"}
              /\ requests'[p].pc \notin {"operate", "snapshot"}
              /\ requests[p].pc \in Resumed => requests[p].live = 0
    BY <1>4, <1>7, PcKinds DEF Opens
  <2>2. isClosing' <=> isClosing
    BY <1>1 DEF isClosing
  <2>3. \A r \in Runtimes :
           /\ live'[r].connections \subseteq live[r].connections
           /\ live'[r].terminal => live[r].terminal
           /\ live'[r].operationCount = live[r].operationCount
           /\ live[r].state = "open" =>
                /\ live'[r].state = "open" /\ live'[r].session = live[r].session
                /\ isClosing' \/ live'[r].disposing = live[r].disposing \/ live[r].disposing # "none"
           /\ live'[r].state = "open" /\ Unneeded(live'[r]) /\ ~isClosing' =>
                \/ live[r].state = "open" /\ Unneeded(live[r])
                \/ \E p \in Slots : requests'[p].pc \in Resumed /\ requests'[p].live = r
    BY <1>5
  <2>4. \A t \in Sessions : liveSessions'[t] # 0 =>
           liveSessions'[t] = liveSessions[t] \/ live'[liveSessions'[t]].connections = {}
    BY <1>1
  <2> QED
    BY <1>1, <1>6, <1>13, <2>1, <2>2, <2>3, <2>4, RestKept
<1> QED
  BY <1>6, <1>10, <1>11, <1>12, <1>13, <1>14 DEF LiveInv, ManagerInv

(* The opening request q moves on with its runtime k, which is not open.    *)
LEMMA OpeningMovesKeeps ==
  ASSUME LiveInv, NEW q \in Slots, Quiet, OpenRuntime(q) \/ OpenSnapshotFails(q)
  PROVE  LiveInv'
<1>0. /\ LiveTyped /\ ManagerInv /\ UsesSound /\ OperationsCounted
      /\ NoDisposeInUse /\ UnusedIsDisposed /\ SnapshotsSound /\ ViewsSound
  BY DEF LiveInv
<1>1. /\ stage' = stage /\ sessionIds' = sessionIds /\ liveSessions' = liveSessions
      /\ openingSessions' = openingSessions
      /\ view' = view /\ revision' = revision /\ broadcasts' = broadcasts
      /\ closing' = closing /\ closeFinds' = closeFinds /\ closeWaits' = closeWaits
      /\ received' = received /\ lost' = lost
      /\ requests[q].pc \in {"open", "openSnapshot"} /\ requests[q].pc \in Opens
  BY DEF OpenRuntime, OpenSnapshotFails, connVars, managerVars, snapshotVars, closeVars,
    countVars, At, Opens
<1>2. PICK s \in Sessions : s = requests[q].session
  BY <1>0, RequestTyped
<1>3. /\ openingSessions[s] = q /\ liveSessions[s] = 0 /\ q # None
      /\ \A t \in Sessions : openingSessions[t] = q => t = s
      /\ \A r \in Runtimes, at \in {"openSnapshot", "discard"} :
           /\ live[r].session = s /\ OpenedBy(r, at) => requests[q].pc = at /\ requests[q].live = r
           /\ live[r].session # s => Opener(r) # q
  BY <1>0, <1>1, <1>2, OpenerKnown
<1>4. \E k \in Runtimes, l \in RuntimeRecord, x \in Request :
        /\ live' = [live EXCEPT ![k] = l] /\ requests' = [requests EXCEPT ![q] = x]
        /\ requests[q].pc = "openSnapshot" => requests[q].live = k
        /\ live[k].state \in {"unused", "opening"}
        /\ live[k].state = "opening" => requests[q].pc = "openSnapshot"
        /\ x.live = k /\ x.session = s /\ x.kind = requests[q].kind
        /\ l.session = s /\ l.connections = {} /\ ~l.terminal /\ l.operationCount = 0
        /\ \/ /\ l.state = "opening" /\ l.disposing = "none" /\ x.pc = "openSnapshot"
              /\ ~isClosing
           \/ l.state = "discarded" /\ l.disposing = "pending" /\ x.pc = "discard"
  <2>1. CASE OpenRuntime(q)
    <3>1. PICK k \in Runtimes :
             /\ live[k].state = "unused"
             /\ live' = [live EXCEPT ![k] =
                  [Unused(requests[q].session) EXCEPT
                     !.state = IF isClosing THEN "discarded" ELSE "opening",
                     !.disposing = IF isClosing THEN "pending" ELSE "none"]]
             /\ requests' = [requests EXCEPT
                  ![q].pc = IF isClosing THEN "discard" ELSE "openSnapshot",
                  ![q].live = k]
      BY <2>1 DEF OpenRuntime
    <3> DEFINE l == [Unused(s) EXCEPT
                       !.state = IF isClosing THEN "discarded" ELSE "opening",
                       !.disposing = IF isClosing THEN "pending" ELSE "none"]
               x == [requests[q] EXCEPT !.pc = IF isClosing THEN "discard" ELSE "openSnapshot",
                                        !.live = k]
    <3>2. live' = [live EXCEPT ![k] = l]
      BY <3>1, <1>2
    <3>3. requests' = [requests EXCEPT ![q] = x]
      BY <3>1, <1>0 DEF LiveTyped
    <3>4. /\ l \in RuntimeRecord /\ l.session = s /\ l.connections = {} /\ ~l.terminal
          /\ l.operationCount = 0
          /\ l.state = (IF isClosing THEN "discarded" ELSE "opening")
          /\ l.disposing = (IF isClosing THEN "pending" ELSE "none")
      <4>1. Unused(s) \in RuntimeRecord
        BY DEF Unused, RuntimeRecord, RuntimeStates, Disposals
      <4>2. /\ (IF isClosing THEN "discarded" ELSE "opening") \in RuntimeStates
            /\ (IF isClosing THEN "pending" ELSE "none") \in Disposals
        BY DEF RuntimeStates, Disposals
      <4> QED
        BY <4>1, <4>2 DEF Unused, RuntimeRecord
    <3>5. /\ x \in Request /\ x.live = k /\ x.session = s /\ x.kind = requests[q].kind
          /\ x.pc = (IF isClosing THEN "discard" ELSE "openSnapshot")
      <4>1. requests[q] \in Request
        BY <1>0, RequestTyped
      <4>2. (IF isClosing THEN "discard" ELSE "openSnapshot") \in Awaits /\ k \in 0..MaxRuntimes
        BY RuntimesAreIndices DEF Awaits
      <4> QED
        BY <4>1, <4>2, <1>2 DEF Request
    <3>6. requests[q].pc = "open"
      BY <2>1 DEF OpenRuntime, At
    <3>7. \/ /\ l.state = "opening" /\ l.disposing = "none" /\ x.pc = "openSnapshot"
             /\ ~isClosing
          \/ l.state = "discarded" /\ l.disposing = "pending" /\ x.pc = "discard"
      <4> HIDE DEF l, x
      <4> QED
        BY <3>4, <3>5
    <3>8. live[k].state = "unused"
      BY <3>1
    <3> HIDE DEF l, x
    <3> QED
      BY <3>2, <3>3, <3>4, <3>5, <3>6, <3>7, <3>8
  <2>2. CASE OpenSnapshotFails(q)
    <3>1. requests[q].pc = "openSnapshot"
      BY <2>2 DEF OpenSnapshotFails, At
    <3>2. PICK k \in Runtimes : k = requests[q].live
      BY <3>1, <1>0, RequestTyped DEF ManagerInv, OpeningsSound, At
    <3>3. live[k].state = "opening" /\ live[k].session = s
      BY <3>1, <3>2, <1>0, <1>2 DEF ManagerInv, OpeningsSound, At
    <3>4. live[k].connections = {} /\ ~live[k].terminal /\ live[k].operationCount = 0
      BY <3>3, <1>0, UnopenedIsUnused DEF ManagerInv, RuntimesSound
    <3> DEFINE l == [live[k] EXCEPT !.state = "discarded", !.disposing = "pending"]
               x == [requests[q] EXCEPT !.pc = "discard"]
    <3>5. live' = [live EXCEPT ![k] = l] /\ requests' = [requests EXCEPT ![q] = x]
      BY <2>2, <3>2, <1>0 DEF OpenSnapshotFails, LiveTyped
    <3>6. /\ l \in RuntimeRecord /\ l.session = s /\ l.connections = {} /\ ~l.terminal
          /\ l.operationCount = 0 /\ l.state = "discarded" /\ l.disposing = "pending"
      <4>1. live[k] \in RuntimeRecord
        BY <1>0, RuntimeTyped
      <4>2. "discarded" \in RuntimeStates /\ "pending" \in Disposals
        BY DEF RuntimeStates, Disposals
      <4> QED
        BY <4>1, <4>2, <3>3, <3>4 DEF RuntimeRecord
    <3>7. /\ x \in Request /\ x.live = k /\ x.session = s /\ x.kind = requests[q].kind
          /\ x.pc = "discard"
      <4>1. requests[q] \in Request
        BY <1>0, RequestTyped
      <4>2. "discard" \in Awaits
        BY DEF Awaits
      <4> QED
        BY <4>1, <4>2, <3>2, <1>2 DEF Request
    <3> HIDE DEF l, x
    <3> QED
      BY <3>1, <3>2, <3>3, <3>5, <3>6, <3>7
  <2> QED
    BY <2>1, <2>2
<1>5. PICK k \in Runtimes, l \in RuntimeRecord, x \in Request :
        /\ live' = [live EXCEPT ![k] = l] /\ requests' = [requests EXCEPT ![q] = x]
        /\ requests[q].pc = "openSnapshot" => requests[q].live = k
        /\ live[k].state \in {"unused", "opening"}
        /\ live[k].state = "opening" => requests[q].pc = "openSnapshot"
        /\ x.live = k /\ x.session = s /\ x.kind = requests[q].kind
        /\ l.session = s /\ l.connections = {} /\ ~l.terminal /\ l.operationCount = 0
        /\ \/ /\ l.state = "opening" /\ l.disposing = "none" /\ x.pc = "openSnapshot"
              /\ ~isClosing
           \/ l.state = "discarded" /\ l.disposing = "pending" /\ x.pc = "discard"
  BY <1>4
<1>6. /\ requests'[q] = x /\ \A p \in Slots : p # q => requests'[p] = requests[p]
      /\ live'[k] = l /\ \A r \in Runtimes : r # k => live'[r] = live[r]
      /\ live[k].state # "open"
      /\ requests[q].pc = "openSnapshot" => requests[q].live = k
      /\ x.pc \in {"openSnapshot", "discard"}
  BY <1>0, <1>5 DEF LiveTyped
<1>7. LiveTyped'
  <2>1. live' \in [Runtimes -> RuntimeRecord] /\ requests' \in [Slots -> Request]
    BY <1>0, <1>5 DEF LiveTyped
  <2> QED
    BY <2>1, <1>0, <1>1 DEF LiveTyped
<1>8. \A p \in Slots : p # q /\ requests[p].pc \in {"openSnapshot", "discard"} =>
        /\ requests[p].live \in Runtimes /\ requests[p].live # k
  <2> SUFFICES ASSUME NEW p \in Slots, p # q, requests[p].pc \in {"openSnapshot", "discard"}
      PROVE  requests[p].live \in Runtimes /\ requests[p].live # k
    OBVIOUS
  <2>1. requests[p].pc \in Opens
    BY DEF Opens
  <2>2. requests[p].live \in Runtimes
    BY <2>1, <1>0, OpenerKnown
  <2>3. requests[p].session # s
    BY <2>1, <1>0, <1>3 DEF ManagerInv, OpeningsSound
  <2>4. live[requests[p].live].session = requests[p].session
        /\ live[requests[p].live].state \in {"opening", "discarded"}
    BY <1>0 DEF ManagerInv, OpeningsSound, At
  <2>5. live[k].state = "opening" => live[k].session = s
    BY <1>0, <1>2, <1>5 DEF ManagerInv, OpeningsSound, At
  <2> QED
    BY <2>2, <2>3, <2>4, <2>5, <1>5
<1>9. RuntimesSound'
  <2> SUFFICES ASSUME NEW r \in Runtimes
      PROVE  /\ live'[r].state = "opening" =>
                  live'[r].disposing = "none" /\ live'[r].connections = {} /\ ~live'[r].terminal
                  /\ OpenedBy(r, "openSnapshot")'
             /\ live'[r].state = "discarded" /\ live'[r].disposing \in {"none", "pending"} =>
                  OpenedBy(r, "discard")'
             /\ live'[r].state = "open" /\ live'[r].disposing = "none" /\ ~live'[r].terminal =>
                  live'[r].subscribed
             /\ live'[r].state = "open" /\ live'[r].disposing \in {"none", "pending"} =>
                  liveSessions'[live'[r].session] = r \/ TakenDown(r)'
    BY DEF RuntimesSound
  <2>1. CASE r = k
    <3>1. OpenedBy(k, x.pc)'
      BY <1>1, <1>3, <1>5, <1>6 DEF OpenedBy, Opener
    <3> QED
      BY <2>1, <3>1, <1>5, <1>6
  <2>2. CASE r # k
    <3>0. live'[r] = live[r] /\ live[r].session \in Sessions
      BY <2>2, <1>0, <1>6, RuntimeTyped
    <3>1. \A at \in {"openSnapshot", "discard"} : OpenedBy(r, at) => OpenedBy(r, at)'
      <4> TAKE at \in {"openSnapshot", "discard"}
      <4> HAVE OpenedBy(r, at)
      <4>1. live[r].session # s
        BY <2>2, <1>1, <1>3, <1>6
      <4>2. Opener(r) \in Slots /\ Opener(r) # q
        BY <4>1, <3>0, <1>0, <1>3 DEF OpenedBy, Opener, LiveTyped
      <4> QED
        BY <4>2, <3>0, <1>1, <1>6 DEF OpenedBy, Opener
    <3>2. TakenDown(r) => TakenDown(r)'
      <4>1. \A p \in Slots : At(p, "acquire")' => At(p, "acquire") /\ requests'[p] = requests[p]
        BY <1>6 DEF At
      <4> QED
        BY <4>1, <3>0, <1>1 DEF TakenDown
    <3> QED
      BY <3>0, <3>1, <3>2, <1>0, <1>1 DEF ManagerInv, RuntimesSound
  <2> QED
    BY <2>1, <2>2
<1>10. OpeningsSound'
  <2>1. \A t \in Sessions : openingSessions'[t] # None =>
          /\ requests'[openingSessions'[t]].pc \in Opens
          /\ requests'[openingSessions'[t]].session = t
          /\ liveSessions'[t] = 0
    <3> TAKE t \in Sessions
    <3> HAVE openingSessions'[t] # None
    <3>1. openingSessions[t] \in Slots
      BY <1>0, <1>1 DEF LiveTyped
    <3>2. CASE openingSessions[t] = q
      BY <3>2, <1>1, <1>3, <1>5, <1>6 DEF Opens
    <3>3. CASE openingSessions[t] # q
      BY <3>1, <3>3, <1>0, <1>1, <1>6 DEF ManagerInv, OpeningsSound
    <3> QED
      BY <3>2, <3>3
  <2>2. \A p \in Slots : requests'[p].pc \in Opens => openingSessions'[requests'[p].session] = p
    BY <1>0, <1>1, <1>3, <1>5, <1>6 DEF ManagerInv, OpeningsSound
  <2>3. ASSUME NEW p \in Slots, At(p, "openSnapshot")'
        PROVE  /\ requests'[p].live # 0 /\ live'[requests'[p].live].state = "opening"
               /\ live'[requests'[p].live].session = requests'[p].session
               /\ closing' \notin Ended /\ (closing' = "openings" => p \in closeWaits')
    <3>1. CASE p = q
      <4>1. closing = "no" /\ l.state = "opening"
        BY <2>3, <3>1, <1>5, <1>6 DEF isClosing, At
      <4> QED
        BY <4>1, <3>1, <1>1, <1>5, <1>6, RuntimesAreIndices DEF Ended
    <3>2. CASE p # q
      <4>1. requests'[p] = requests[p] /\ At(p, "openSnapshot")
        BY <2>3, <3>2, <1>6 DEF At
      <4>2. live'[requests[p].live] = live[requests[p].live]
        BY <4>1, <3>2, <1>6, <1>8 DEF At
      <4> QED
        BY <4>1, <4>2, <1>0, <1>1 DEF ManagerInv, OpeningsSound
    <3> QED
      BY <3>1, <3>2
  <2>4. ASSUME NEW p \in Slots, At(p, "discard")'
        PROVE  /\ requests'[p].live # 0 /\ live'[requests'[p].live].state = "discarded"
               /\ live'[requests'[p].live].session = requests'[p].session
               /\ live'[requests'[p].live].disposing = "pending"
    <3>1. CASE p = q
      <4>1. l.state = "discarded" /\ l.disposing = "pending"
        BY <2>4, <3>1, <1>5, <1>6 DEF At
      <4> QED
        BY <4>1, <3>1, <1>5, <1>6, RuntimesAreIndices
    <3>2. CASE p # q
      <4>1. requests'[p] = requests[p] /\ At(p, "discard")
        BY <2>4, <3>2, <1>6 DEF At
      <4>2. live'[requests[p].live] = live[requests[p].live]
        BY <4>1, <3>2, <1>6, <1>8 DEF At
      <4> QED
        BY <4>1, <4>2, <1>0, <1>1 DEF ManagerInv, OpeningsSound
    <3> QED
      BY <3>1, <3>2
  <2> QED
    BY <2>1, <2>2, <2>3, <2>4 DEF OpeningsSound
<1>11. RegisteredSound' /\ CloseSound'
  <2>1. \A r \in Runtimes : live[r].state = "open" => live'[r] = live[r]
    BY <1>6
  <2>2. RegisteredSound'
    <3>1. \A t \in Sessions : liveSessions[t] # 0 => live'[liveSessions[t]] = live[liveSessions[t]]
      BY <2>1, <1>0, RegisteredIsOpen
    <3> QED
      BY <3>1, <1>0, <1>1 DEF ManagerInv, RegisteredSound
  <2>3. CloseSound'
    <3>1. \A r \in closeFinds : live'[r] = live[r]
      BY <2>1, <1>0 DEF ManagerInv, CloseSound, LiveTyped
    <3> QED
      BY <3>1, <1>0, <1>1 DEF ManagerInv, CloseSound
  <2> QED
    BY <2>2, <2>3
<1>12. UsesSound'
  <2> SUFFICES ASSUME NEW p \in Slots
      PROVE  /\ requests'[p].pc \in Uses =>
                  /\ requests'[p].live # 0 /\ live'[requests'[p].live].state = "open"
                  /\ live'[requests'[p].live].session = requests'[p].session
             /\ requests'[p].pc = "awaitDisposing" => live'[requests'[p].live].disposing = "pending"
             /\ requests'[p].pc = "acquire" => requests'[p].live = 0
             /\ requests'[p].pc = "operate" => requests'[p].kind = "operation"
             /\ requests'[p].pc \in Opens \cup {"awaitOpening"} => requests'[p].kind = "attach"
             /\ requests'[p].pc \in Joins =>
                  requests'[p].kind = "attach" /\ ~live'[requests'[p].live].terminal
    BY DEF UsesSound, At
  <2>1. CASE p # q
    <3>1. requests[p].pc \in Uses => live'[requests[p].live] = live[requests[p].live]
      BY <1>0, <1>6, InHand
    <3> QED
      BY <2>1, <3>1, <1>0, <1>6, PcKinds DEF UsesSound, At
  <2>2. CASE p = q
    <3>1. requests[q].kind = "attach"
      BY <1>0, <1>1 DEF UsesSound
    <3>2. x.pc \in Opens
      BY <1>6 DEF Opens
    <3> QED
      BY <2>2, <3>1, <3>2, <1>5, <1>6, PcKinds
  <2> QED
    BY <2>1, <2>2
<1>13. /\ OperationsCounted' /\ NoDisposeInUse' /\ UnusedIsDisposed'
       /\ SnapshotsSound' /\ ViewsSound'
  <2>1. \A p \in Slots :
           \/ requests'[p] = requests[p]
           \/ /\ requests[p].pc \notin {"operate", "snapshot"}
              /\ requests'[p].pc \notin {"operate", "snapshot"}
              /\ requests[p].pc \in Resumed => requests[p].live = 0
    BY <1>1, <1>6, PcKinds
  <2>2. isClosing' <=> isClosing
    BY <1>1 DEF isClosing
  <2>3. live[k].operationCount = 0
    BY <1>0, <1>6, UnopenedIsUnused
  <2>4. \A r \in Runtimes :
           /\ live'[r].connections \subseteq live[r].connections
           /\ live'[r].terminal => live[r].terminal
           /\ live'[r].operationCount = live[r].operationCount
           /\ live[r].state = "open" =>
                /\ live'[r].state = "open" /\ live'[r].session = live[r].session
                /\ isClosing' \/ live'[r].disposing = live[r].disposing \/ live[r].disposing # "none"
           /\ live'[r].state = "open" /\ Unneeded(live'[r]) /\ ~isClosing' =>
                \/ live[r].state = "open" /\ Unneeded(live[r])
                \/ \E p \in Slots : requests'[p].pc \in Resumed /\ requests'[p].live = r
    <3> TAKE r \in Runtimes
    <3>1. CASE r = k
      BY <3>1, <2>3, <1>5, <1>6
    <3>2. CASE r # k
      <4>1. live'[r] = live[r]
        BY <3>2, <1>6
      <4> QED
        BY <4>1
    <3> QED
      BY <3>1, <3>2
  <2>5. \A t \in Sessions : liveSessions'[t] # 0 =>
           liveSessions'[t] = liveSessions[t] \/ live'[liveSessions'[t]].connections = {}
    BY <1>1
  <2> QED
    BY <1>1, <1>7, <1>12, <2>1, <2>2, <2>4, <2>5, RestKept
<1> QED
  BY <1>7, <1>9, <1>10, <1>11, <1>12, <1>13 DEF LiveInv, ManagerInv

(* The session is open: the opener and those that joined it go on.          *)
LEMMA OpenSnapshotKeeps ==
  ASSUME LiveInv, NEW q \in Slots, OpenSnapshot(q)
  PROVE  LiveInv'
<1>0. /\ LiveTyped /\ ManagerInv /\ UsesSound /\ OperationsCounted
      /\ NoDisposeInUse /\ UnusedIsDisposed /\ SnapshotsSound /\ ViewsSound
  BY DEF LiveInv
<1>1. /\ stage' = stage /\ sessionIds' = sessionIds
      /\ view' = view /\ revision' = revision /\ broadcasts' = broadcasts
      /\ closing' = closing /\ closeFinds' = closeFinds /\ closeWaits' = closeWaits \ {q}
      /\ received' = received /\ lost' = lost /\ Quiet
      /\ requests[q].pc = "openSnapshot" /\ requests[q].pc \in Opens
      /\ openingSessions' = [openingSessions EXCEPT ![requests[q].session] = None]
  BY DEF OpenSnapshot, OpenEnds, connVars, snapshotVars, countVars, At, Opens
<1>2. PICK s \in Sessions : s = requests[q].session
  BY <1>0, RequestTyped
<1>3. /\ openingSessions[s] = q /\ liveSessions[s] = 0 /\ q # None
      /\ \A t \in Sessions : openingSessions[t] = q => t = s
      /\ \A r \in Runtimes, at \in {"openSnapshot", "discard"} :
           /\ live[r].session = s /\ OpenedBy(r, at) => requests[q].pc = at /\ requests[q].live = r
           /\ live[r].session # s => Opener(r) # q
  BY <1>0, <1>1, <1>2, OpenerKnown
<1>4. PICK k \in Runtimes : k = requests[q].live
  BY <1>0, <1>1, OpenerKnown
<1>5. /\ live[k].state = "opening" /\ live[k].session = s /\ closing \notin Ended
      /\ live[k].disposing = "none" /\ live[k].connections = {} /\ ~live[k].terminal
  BY <1>0, <1>1, <1>2, <1>4 DEF ManagerInv, OpeningsSound, RuntimesSound, At
<1> DEFINE l == [live[k] EXCEPT !.state = "open", !.subscribed = TRUE]
           went(p) == [requests[p] EXCEPT !.pc = IF p = q THEN "opened" ELSE "joined",
                                          !.live = k]
<1>6. /\ live' = [live EXCEPT ![k] = l]
      /\ liveSessions' = [liveSessions EXCEPT ![s] = k]
      /\ requests' = [p \in Slots |-> IF Opening(q)[p] THEN went(p) ELSE requests[p]]
  BY <1>0, <1>2, <1>4 DEF OpenSnapshot, LiveTyped
<1>7. /\ l \in RuntimeRecord /\ l.state = "open" /\ l.subscribed /\ l.session = s
      /\ l.disposing = "none" /\ l.connections = {} /\ ~l.terminal
      /\ l.operationCount = live[k].operationCount
  <2>1. live[k] \in RuntimeRecord /\ "open" \in RuntimeStates
    BY <1>0, RuntimeTyped DEF RuntimeStates
  <2> QED
    BY <2>1, <1>5 DEF RuntimeRecord
<1> HIDE DEF l
<1>8. ASSUME NEW p \in Slots
      PROVE  \/ requests'[p] = requests[p] /\ p # q
             \/ /\ p = q \/ requests[p].pc = "awaitOpening"
                /\ requests[p].pc \in {"openSnapshot", "awaitOpening"}
                /\ requests'[p] \in Request /\ requests'[p].live = k
                /\ requests'[p].pc \in {"opened", "joined"}
                /\ requests'[p].kind = "attach" /\ requests'[p].session = s
  <2>1. CASE ~Opening(q)[p]
    BY <2>1, <1>6 DEF Opening
  <2>2. CASE Opening(q)[p]
    <3>1. requests'[p] = went(p)
      BY <2>2, <1>6
    <3>2. requests[p].session = s /\ (p = q \/ requests[p].pc = "awaitOpening")
      BY <2>2, <1>2 DEF Opening, At
    <3>3. requests[p].kind = "attach"
      BY <3>2, <1>0, <1>1 DEF UsesSound
    <3>4. requests[p] \in Request
      BY <1>0, RequestTyped
    <3>5. "opened" \in Awaits /\ "joined" \in Awaits /\ k \in 0..MaxRuntimes
      BY RuntimesAreIndices DEF Awaits, Resumed
    <3>6. /\ went(p) \in Request /\ went(p).live = k /\ went(p).pc \in {"opened", "joined"}
          /\ went(p).kind = requests[p].kind /\ went(p).session = requests[p].session
      BY <3>4, <3>5 DEF Request
    <3> HIDE DEF went
    <3> QED
      BY <3>1, <3>2, <3>3, <3>6, <1>1
  <2> QED
    BY <2>1, <2>2
<1> HIDE DEF went
<1>9. /\ live'[k] = l /\ \A r \in Runtimes : r # k => live'[r] = live[r]
      /\ liveSessions'[s] = k /\ openingSessions'[s] = None
      /\ \A t \in Sessions : t # s =>
           liveSessions'[t] = liveSessions[t] /\ openingSessions'[t] = openingSessions[t]
  BY <1>0, <1>1, <1>2, <1>6 DEF LiveTyped
<1>10. LiveTyped'
  <2>1. requests' \in [Slots -> Request]
    <3>1. \A p \in Slots : requests'[p] \in Request
      BY <1>0, <1>8 DEF LiveTyped
    <3> QED
      BY <3>1, <1>6
  <2>2. live' \in [Runtimes -> RuntimeRecord]
    BY <1>0, <1>6, <1>7 DEF LiveTyped
  <2>3. liveSessions' \in [Sessions -> 0..MaxRuntimes]
    <3>1. k \in 0..MaxRuntimes
      BY RuntimesAreIndices
    <3> QED
      BY <3>1, <1>0, <1>6 DEF LiveTyped
  <2>4. openingSessions' \in [Sessions -> Slots \cup {None}] /\ closeWaits' \subseteq Slots
    BY <1>0, <1>1 DEF LiveTyped
  <2> QED
    BY <2>1, <2>2, <2>3, <2>4, <1>0, <1>1 DEF LiveTyped
<1>11. \A p \in Slots : requests[p].pc \in Opens =>
        p = q \/ (requests'[p] = requests[p] /\ requests[p].session # s)
  <2> SUFFICES ASSUME NEW p \in Slots, requests[p].pc \in Opens, p # q
      PROVE  requests'[p] = requests[p] /\ requests[p].session # s
    OBVIOUS
  <2>1. requests[p].session # s
    BY <1>0, <1>3 DEF ManagerInv, OpeningsSound
  <2> QED
    BY <2>1, <1>8, PcKinds DEF Opens
<1>12. RuntimesSound'
  <2> SUFFICES ASSUME NEW r \in Runtimes
      PROVE  /\ live'[r].state = "opening" =>
                  live'[r].disposing = "none" /\ live'[r].connections = {} /\ ~live'[r].terminal
                  /\ OpenedBy(r, "openSnapshot")'
             /\ live'[r].state = "discarded" /\ live'[r].disposing \in {"none", "pending"} =>
                  OpenedBy(r, "discard")'
             /\ live'[r].state = "open" /\ live'[r].disposing = "none" /\ ~live'[r].terminal =>
                  live'[r].subscribed
             /\ live'[r].state = "open" /\ live'[r].disposing \in {"none", "pending"} =>
                  liveSessions'[live'[r].session] = r \/ TakenDown(r)'
    BY DEF RuntimesSound
  <2>1. CASE r = k
    BY <2>1, <1>7, <1>9
  <2>2. CASE r # k
    <3>0. live'[r] = live[r] /\ live[r].session \in Sessions
      BY <2>2, <1>0, <1>9, RuntimeTyped
    <3>1. \A at \in {"openSnapshot", "discard"} : OpenedBy(r, at) => OpenedBy(r, at)'
      <4> TAKE at \in {"openSnapshot", "discard"}
      <4> HAVE OpenedBy(r, at)
      <4>1. live[r].session # s
        BY <2>2, <1>3, <1>4
      <4>2. /\ Opener(r) \in Slots /\ Opener(r) # q /\ requests[Opener(r)].pc \in Opens
        BY <4>1, <3>0, <1>0, <1>3 DEF OpenedBy, Opener, Opens, LiveTyped
      <4>3. requests'[Opener(r)] = requests[Opener(r)]
        BY <4>2, <1>11
      <4>4. openingSessions'[live'[r].session] = Opener(r)
        BY <4>1, <3>0, <1>9 DEF Opener
      <4> QED
        BY <4>3, <4>4 DEF OpenedBy, Opener
    <3>2. live[r].state = "open" /\ live[r].disposing \in {"none", "pending"} =>
            liveSessions[live[r].session] = r /\ live[r].session # s
      BY <1>0, <1>3, <1>5, RuntimesAreIndices DEF ManagerInv, RuntimesSound, TakenDown
    <3> QED
      BY <3>0, <3>1, <3>2, <1>0, <1>9 DEF ManagerInv, RuntimesSound
  <2> QED
    BY <2>1, <2>2
<1>13. OpeningsSound'
  <2>1. \A t \in Sessions : openingSessions'[t] # None =>
          /\ requests'[openingSessions'[t]].pc \in Opens
          /\ requests'[openingSessions'[t]].session = t
          /\ liveSessions'[t] = 0
    <3> TAKE t \in Sessions
    <3> HAVE openingSessions'[t] # None
    <3>1. t # s /\ openingSessions'[t] = openingSessions[t] /\ openingSessions[t] \in Slots
          /\ openingSessions[t] # q /\ liveSessions'[t] = liveSessions[t]
      BY <1>0, <1>3, <1>9 DEF LiveTyped
    <3>2. requests'[openingSessions[t]] = requests[openingSessions[t]]
      BY <3>1, <1>0, <1>11 DEF ManagerInv, OpeningsSound
    <3> QED
      BY <3>1, <3>2, <1>0 DEF ManagerInv, OpeningsSound
  <2>2. ASSUME NEW p \in Slots, requests'[p].pc \in Opens
        PROVE  /\ requests'[p] = requests[p] /\ p # q /\ requests[p].session # s
               /\ openingSessions'[requests'[p].session] = p
    <3>1. requests'[p] = requests[p] /\ p # q
      BY <2>2, <1>8 DEF Opens
    <3>2. requests[p].session # s /\ requests[p].session \in Sessions
      BY <2>2, <3>1, <1>0, <1>11, RequestTyped
    <3> QED
      BY <2>2, <3>1, <3>2, <1>0, <1>9 DEF ManagerInv, OpeningsSound
  <2>3. \A p \in Slots : requests[p].pc \in {"openSnapshot", "discard"} /\ requests[p].session # s =>
          live'[requests[p].live] = live[requests[p].live]
    <3> TAKE p \in Slots
    <3> HAVE requests[p].pc \in {"openSnapshot", "discard"} /\ requests[p].session # s
    <3>1. requests[p].live \in Runtimes
      BY <1>0, OpenerKnown DEF Opens
    <3>2. live[requests[p].live].session = requests[p].session
      BY <1>0 DEF ManagerInv, OpeningsSound, At
    <3> QED
      BY <3>1, <3>2, <1>5, <1>9
  <2>4. ASSUME NEW p \in Slots, At(p, "openSnapshot")'
        PROVE  /\ requests'[p].live # 0 /\ live'[requests'[p].live].state = "opening"
               /\ live'[requests'[p].live].session = requests'[p].session
               /\ closing' \notin Ended /\ (closing' = "openings" => p \in closeWaits')
    <3>1. requests'[p] = requests[p] /\ p # q /\ At(p, "openSnapshot") /\ requests[p].session # s
      BY <2>4, <2>2 DEF At, Opens
    <3>2. live'[requests[p].live] = live[requests[p].live]
      BY <3>1, <2>3 DEF At
    <3> QED
      BY <3>1, <3>2, <1>0, <1>1 DEF ManagerInv, OpeningsSound
  <2>5. ASSUME NEW p \in Slots, At(p, "discard")'
        PROVE  /\ requests'[p].live # 0 /\ live'[requests'[p].live].state = "discarded"
               /\ live'[requests'[p].live].session = requests'[p].session
               /\ live'[requests'[p].live].disposing = "pending"
    <3>1. requests'[p] = requests[p] /\ p # q /\ At(p, "discard") /\ requests[p].session # s
      BY <2>5, <2>2 DEF At, Opens
    <3>2. live'[requests[p].live] = live[requests[p].live]
      BY <3>1, <2>3 DEF At
    <3> QED
      BY <3>1, <3>2, <1>0 DEF ManagerInv, OpeningsSound
  <2> QED
    BY <2>1, <2>2, <2>4, <2>5 DEF OpeningsSound
<1>14. RegisteredSound'
  <2> SUFFICES ASSUME NEW t \in Sessions, liveSessions'[t] # 0
      PROVE  /\ live'[liveSessions'[t]].state = "open" /\ live'[liveSessions'[t]].session = t
             /\ live'[liveSessions'[t]].disposing \in {"none", "pending"}
             /\ closing' \notin Ended
    BY DEF RegisteredSound
  <2>1. CASE t = s
    BY <2>1, <1>1, <1>5, <1>7, <1>9
  <2>2. CASE t # s
    <3>1. liveSessions'[t] = liveSessions[t]
      BY <2>2, <1>9
    <3>2. liveSessions[t] \in Runtimes /\ live[liveSessions[t]].state = "open"
      BY <3>1, <1>0, RegisteredIsOpen
    <3>3. live'[liveSessions[t]] = live[liveSessions[t]]
      BY <3>2, <1>5, <1>9
    <3> QED
      BY <3>1, <3>3, <1>0, <1>1 DEF ManagerInv, RegisteredSound
  <2> QED
    BY <2>1, <2>2
<1>15. CloseSound'
  <2>1. \A r \in closeFinds : live'[r] = live[r]
    BY <1>0, <1>5, <1>9 DEF ManagerInv, CloseSound, LiveTyped
  <2> QED
    BY <2>1, <1>0, <1>1 DEF ManagerInv, CloseSound
<1>16. UsesSound'
  <2> SUFFICES ASSUME NEW p \in Slots
      PROVE  /\ requests'[p].pc \in Uses =>
                  /\ requests'[p].live # 0 /\ live'[requests'[p].live].state = "open"
                  /\ live'[requests'[p].live].session = requests'[p].session
             /\ requests'[p].pc = "awaitDisposing" => live'[requests'[p].live].disposing = "pending"
             /\ requests'[p].pc = "acquire" => requests'[p].live = 0
             /\ requests'[p].pc = "operate" => requests'[p].kind = "operation"
             /\ requests'[p].pc \in Opens \cup {"awaitOpening"} => requests'[p].kind = "attach"
             /\ requests'[p].pc \in Joins =>
                  requests'[p].kind = "attach" /\ ~live'[requests'[p].live].terminal
    BY DEF UsesSound, At
  <2>1. CASE requests'[p] = requests[p] /\ p # q
    <3>1. requests[p].pc \in Uses => live'[requests[p].live] = live[requests[p].live]
      BY <1>0, <1>5, <1>9, InHand
    <3> QED
      BY <2>1, <3>1, <1>0, PcKinds DEF UsesSound, At
  <2>2. CASE /\ requests'[p].live = k /\ requests'[p].pc \in {"opened", "joined"}
             /\ requests'[p].kind = "attach" /\ requests'[p].session = s
    BY <2>2, <1>7, <1>9, RuntimesAreIndices, PcKinds DEF Opens
  <2> QED
    BY <2>1, <2>2, <1>8
<1>17. /\ OperationsCounted' /\ NoDisposeInUse' /\ UnusedIsDisposed'
       /\ SnapshotsSound' /\ ViewsSound'
  <2>1. \A p \in Slots :
           \/ requests'[p] = requests[p]
           \/ /\ requests[p].pc \notin {"operate", "snapshot"}
              /\ requests'[p].pc \notin {"operate", "snapshot"}
              /\ requests[p].pc \in Resumed => requests[p].live = 0
    <3> TAKE p \in Slots
    <3>1. requests[p].pc \notin Resumed
      BY <1>1 DEF Quiet
    <3> QED
      BY <3>1, <1>8
  <2>2. isClosing' <=> isClosing
    BY <1>1 DEF isClosing
  <2>3. requests'[q].pc \in Resumed /\ requests'[q].live = k
    BY <1>8 DEF Resumed
  <2>4. \A r \in Runtimes :
           /\ live'[r].connections \subseteq live[r].connections
           /\ live'[r].terminal => live[r].terminal
           /\ live'[r].operationCount = live[r].operationCount
           /\ live[r].state = "open" =>
                /\ live'[r].state = "open" /\ live'[r].session = live[r].session
                /\ isClosing' \/ live'[r].disposing = live[r].disposing \/ live[r].disposing # "none"
           /\ live'[r].state = "open" /\ Unneeded(live'[r]) /\ ~isClosing' =>
                \/ live[r].state = "open" /\ Unneeded(live[r])
                \/ \E p \in Slots : requests'[p].pc \in Resumed /\ requests'[p].live = r
    <3> TAKE r \in Runtimes
    <3>1. CASE r = k
      BY <3>1, <2>3, <1>5, <1>7, <1>9
    <3>2. CASE r # k
      <4>1. live'[r] = live[r]
        BY <3>2, <1>9
      <4> QED
        BY <4>1
    <3> QED
      BY <3>1, <3>2
  <2>5. \A t \in Sessions : liveSessions'[t] # 0 =>
           liveSessions'[t] = liveSessions[t] \/ live'[liveSessions'[t]].connections = {}
    <3> TAKE t \in Sessions
    <3>1. CASE t = s
      BY <3>1, <1>7, <1>9
    <3>2. CASE t # s
      BY <3>2, <1>9
    <3> QED
      BY <3>1, <3>2
  <2> QED
    BY <1>1, <1>10, <1>16, <2>1, <2>2, <2>4, <2>5, RestKept
<1> QED
  BY <1>10, <1>12, <1>13, <1>14, <1>15, <1>16, <1>17 DEF LiveInv, ManagerInv

(* Two held open runtimes of one session are one.                          *)
LEMMA OneRuntime ==
  ASSUME LiveTyped, ManagerInv, NEW r1 \in Runtimes, NEW r2 \in Runtimes,
         Held(r1), Held(r2), live[r1].session = live[r2].session
  PROVE  r1 = r2
<1>1. \A r \in Runtimes : Held(r) =>
        /\ live[r].state \in {"opening", "discarded", "open"}
        /\ live[r].state \in {"opening", "discarded"} =>
             Opener(r) # None /\ requests[Opener(r)].live = r /\ liveSessions[live[r].session] = 0
        /\ live[r].state = "open" =>
             \/ liveSessions[live[r].session] = r /\ Opener(r) = None
             \/ /\ closing \in Ended /\ r \in closeFinds /\ Opener(r) = None
                /\ liveSessions[live[r].session] = 0
  <2> TAKE r \in Runtimes
  <2> HAVE Held(r)
  <2>1. live[r].session \in Sessions /\ live[r].state \in RuntimeStates
    BY RuntimeTyped
  <2>2. live[r].state \in {"opening", "discarded", "open"}
    BY <2>1 DEF Held, RuntimeStates
  <2>3. live[r].state \in {"opening", "discarded"} =>
          Opener(r) # None /\ requests[Opener(r)].live = r
    BY DEF ManagerInv, RuntimesSound, OpenedBy, Held
  <2>4. Opener(r) # None => liveSessions[live[r].session] = 0
    BY <2>1 DEF ManagerInv, OpeningsSound, Opener
  <2>5. live[r].state = "open" => liveSessions[live[r].session] = r \/ TakenDown(r)
    BY DEF ManagerInv, RuntimesSound, Held
  <2>6. closing \in Ended => liveSessions[live[r].session] = 0
    BY <2>1 DEF ManagerInv, RegisteredSound
  <2> QED
    BY <2>2, <2>3, <2>4, <2>5, <2>6, RuntimesAreIndices DEF TakenDown, Opener
<1>2. Opener(r1) = Opener(r2)
  BY DEF Opener
<1>3. r1 \in closeFinds /\ r2 \in closeFinds => r1 = r2
  BY DEF ManagerInv, CloseSound
<1> QED
  BY <1>1, <1>2, <1>3, RuntimesAreIndices

(* A disposal settles.                                                     *)
LEMMA DisposeSettlesKeeps ==
  ASSUME LiveInv, NEW k \in Runtimes, DisposeSettles(k)
  PROVE  LiveInv'
<1>0. /\ LiveTyped /\ ManagerInv /\ UsesSound /\ OperationsCounted
      /\ NoDisposeInUse /\ UnusedIsDisposed /\ SnapshotsSound /\ ViewsSound
  BY DEF LiveInv
<1>1. PICK outcome \in {"resolved", "rejected"} :
        /\ live' = [live EXCEPT ![k].disposing = outcome]
        /\ requests' = [p \in Slots |->
             CASE (requests[p].pc = "awaitDisposing" /\ requests[p].live = k)
                    /\ outcome = "resolved" ->
                    [requests[p] EXCEPT !.pc = "acquire", !.live = 0]
               [] \/ (requests[p].pc = "awaitDisposing" /\ requests[p].live = k)
                       /\ outcome = "rejected"
                  \/ requests[p].pc = "awaitDetach" /\ requests[p].live = k -> NoRequest
               [] OTHER -> requests[p]]
  BY DEF DisposeSettles, At
<1>a. \A p \in Slots :
         requests'[p] =
           IF requests[p].pc = "awaitDisposing" /\ requests[p].live = k /\ outcome = "resolved"
           THEN [requests[p] EXCEPT !.pc = "acquire", !.live = 0]
           ELSE IF requests[p].pc \in {"awaitDisposing", "awaitDetach"} /\ requests[p].live = k
           THEN NoRequest ELSE requests[p]
  <2> TAKE p \in Slots
  <2>1. CASE (requests[p].pc = "awaitDisposing" /\ requests[p].live = k) /\ outcome = "resolved"
    BY <1>1, <2>1
  <2>2. CASE ~((requests[p].pc = "awaitDisposing" /\ requests[p].live = k) /\ outcome = "resolved")
             /\ requests[p].pc \in {"awaitDisposing", "awaitDetach"} /\ requests[p].live = k
    BY <1>1, <2>2
  <2>3. CASE ~(requests[p].pc \in {"awaitDisposing", "awaitDetach"} /\ requests[p].live = k)
    BY <1>1, <2>3
  <2> QED
    BY <2>1, <2>2, <2>3
<1>2. PICK s \in Sessions : s = live[k].session
  BY <1>0, RuntimeTyped
<1>3. /\ stage' = stage /\ sessionIds' = sessionIds /\ openingSessions' = openingSessions
      /\ view' = view /\ revision' = revision /\ broadcasts' = broadcasts
      /\ closing' = closing /\ closeFinds' = closeFinds /\ closeWaits' = closeWaits
      /\ received' = received /\ lost' = lost /\ Quiet
      /\ live[k].state = "open" /\ live[k].disposing = "pending"
      /\ liveSessions' = [liveSessions EXCEPT ![s] = IF @ = k THEN 0 ELSE @]
  BY <1>2 DEF DisposeSettles, connVars, snapshotVars, closeVars, countVars
<1> DEFINE l == [live[k] EXCEPT !.disposing = outcome]
<1>4. /\ l \in RuntimeRecord /\ l.state = "open" /\ l.session = s /\ l.disposing = outcome
      /\ l.connections = live[k].connections /\ l.terminal = live[k].terminal
      /\ l.operationCount = live[k].operationCount
  <2>1. live[k] \in RuntimeRecord /\ outcome \in Disposals
    BY <1>0, RuntimeTyped DEF Disposals
  <2> QED
    BY <2>1, <1>2, <1>3 DEF RuntimeRecord
<1>5. live' = [live EXCEPT ![k] = l]
  BY <1>0, <1>1 DEF LiveTyped
<1> HIDE DEF l
<1>6. live'[k] = l /\ \A r \in Runtimes : r # k => live'[r] = live[r]
  BY <1>0, <1>5 DEF LiveTyped
<1>7. ASSUME NEW p \in Slots
      PROVE  \/ /\ requests'[p] = requests[p]
                /\ ~(requests[p].pc = "awaitDisposing" /\ requests[p].live = k)
             \/ /\ requests[p].pc \in {"awaitDisposing", "awaitDetach"} /\ requests[p].live = k
                /\ requests'[p] \in Request
                /\ \/ requests'[p].pc = "free"
                   \/ requests'[p].pc = "acquire" /\ requests'[p].live = 0
                      /\ requests'[p].session = s
  <2>0. requests[p] \in Request
    BY <1>0, RequestTyped
  <2>1. CASE requests[p].pc = "awaitDisposing" /\ requests[p].live = k /\ outcome = "resolved"
    <3>1. requests'[p] = [requests[p] EXCEPT !.pc = "acquire", !.live = 0]
      BY <2>1, <1>a
    <3>2. "acquire" \in Awaits /\ 0 \in 0..MaxRuntimes
      BY RuntimesAreIndices DEF Awaits, Resumed
    <3>3. requests[p].session = s
      BY <2>1, <1>0, <1>2, InHand, PcKinds
    <3> QED
      BY <2>0, <2>1, <3>1, <3>2, <3>3 DEF Request
  <2>2. CASE ~(requests[p].pc = "awaitDisposing" /\ requests[p].live = k /\ outcome = "resolved")
    BY <2>2, <1>a, NoRequestTyped
  <2> QED
    BY <2>1, <2>2
<1>8. \A t \in Sessions : liveSessions'[t] = (IF t = s /\ liveSessions[s] = k THEN 0 ELSE liveSessions[t])
  BY <1>0, <1>3 DEF LiveTyped
<1>9. LiveTyped'
  <2>1. requests' \in [Slots -> Request]
    <3>1. \A p \in Slots : requests'[p] \in Request
      BY <1>0, <1>7 DEF LiveTyped
    <3> QED
      BY <3>1, <1>1
  <2>2. live' \in [Runtimes -> RuntimeRecord]
    BY <1>0, <1>4, <1>5 DEF LiveTyped
  <2>3. liveSessions' \in [Sessions -> 0..MaxRuntimes]
    BY <1>0, <1>3, RuntimesAreIndices DEF LiveTyped
  <2> QED
    BY <2>1, <2>2, <2>3, <1>0, <1>3, SMTT(30) DEF LiveTyped
<1>10. \A p \in Slots : /\ requests[p].pc \in Opens => requests'[p] = requests[p]
                        /\ requests'[p].pc \in Opens => requests'[p] = requests[p]
  BY <1>7, PcKinds
<1>11. RuntimesSound'
  <2> SUFFICES ASSUME NEW r \in Runtimes
      PROVE  /\ live'[r].state = "opening" =>
                  live'[r].disposing = "none" /\ live'[r].connections = {} /\ ~live'[r].terminal
                  /\ OpenedBy(r, "openSnapshot")'
             /\ live'[r].state = "discarded" /\ live'[r].disposing \in {"none", "pending"} =>
                  OpenedBy(r, "discard")'
             /\ live'[r].state = "open" /\ live'[r].disposing = "none" /\ ~live'[r].terminal =>
                  live'[r].subscribed
             /\ live'[r].state = "open" /\ live'[r].disposing \in {"none", "pending"} =>
                  liveSessions'[live'[r].session] = r \/ TakenDown(r)'
    BY DEF RuntimesSound
  <2>1. CASE r = k
    BY <2>1, <1>4, <1>6
  <2>2. CASE r # k
    <3>0. live'[r] = live[r] /\ live[r].session \in Sessions
      BY <2>2, <1>0, <1>6, RuntimeTyped
    <3>1. \A at \in {"openSnapshot", "discard"} : OpenedBy(r, at) => OpenedBy(r, at)'
      BY <3>0, <1>0, <1>3, <1>10 DEF OpenedBy, Opener, Opens, LiveTyped
    <3>2. live[r].state = "open" /\ TakenDown(r) => TakenDown(r)'
      <4> HAVE live[r].state = "open" /\ TakenDown(r)
      <4>1. live[r].session # s
        BY <2>2, <1>0, <1>2, <1>3, OneRuntime DEF Held, TakenDown
      <4>2. \A p \in Slots : At(p, "acquire")' => requests'[p].session # live[r].session
        <5> TAKE p \in Slots
        <5>1. CASE requests'[p] = requests[p]
          BY <5>1 DEF TakenDown, At
        <5>2. CASE requests'[p].pc = "free" \/ requests'[p].session = s
          BY <5>2, <4>1 DEF At
        <5> QED
          BY <5>1, <5>2, <1>7
      <4> QED
        BY <4>2, <3>0, <1>3 DEF TakenDown
    <3>3. liveSessions[live[r].session] = r => liveSessions'[live[r].session] = r
      BY <2>2, <3>0, <1>8
    <3> QED
      BY <3>0, <3>1, <3>2, <3>3, <1>0 DEF ManagerInv, RuntimesSound
  <2> QED
    BY <2>1, <2>2
<1>12. OpeningsSound'
  <2>1. \A t \in Sessions : openingSessions'[t] # None =>
          /\ requests'[openingSessions'[t]].pc \in Opens
          /\ requests'[openingSessions'[t]].session = t
          /\ liveSessions'[t] = 0
    <3> TAKE t \in Sessions
    <3> HAVE openingSessions'[t] # None
    <3>1. openingSessions'[t] = openingSessions[t] /\ openingSessions[t] \in Slots
      BY <1>0, <1>3 DEF LiveTyped
    <3>2. requests'[openingSessions[t]] = requests[openingSessions[t]]
      BY <3>1, <1>0, <1>10 DEF ManagerInv, OpeningsSound
    <3>3. liveSessions'[t] = 0
      BY <3>1, <1>0, <1>8 DEF ManagerInv, OpeningsSound
    <3> QED
      BY <3>1, <3>2, <3>3, <1>0 DEF ManagerInv, OpeningsSound
  <2>2. \A p \in Slots : requests'[p].pc \in Opens => openingSessions'[requests'[p].session] = p
    BY <1>0, <1>3, <1>10 DEF ManagerInv, OpeningsSound
  <2>3. \A p \in Slots : requests[p].pc \in {"openSnapshot", "discard"} =>
          live'[requests[p].live] = live[requests[p].live]
    <3> TAKE p \in Slots
    <3> HAVE requests[p].pc \in {"openSnapshot", "discard"}
    <3>1. requests[p].live \in Runtimes
      BY <1>0, OpenerKnown DEF Opens
    <3>2. live[requests[p].live].state # "open"
      BY <1>0 DEF ManagerInv, OpeningsSound, At
    <3> QED
      BY <3>1, <3>2, <1>3, <1>6
  <2>4. \A p \in Slots : requests'[p].pc \in {"openSnapshot", "discard"} => requests'[p] = requests[p]
    BY <1>10 DEF Opens
  <2>5. ASSUME NEW p \in Slots, At(p, "openSnapshot")'
        PROVE  /\ requests'[p].live # 0 /\ live'[requests'[p].live].state = "opening"
               /\ live'[requests'[p].live].session = requests'[p].session
               /\ closing' \notin Ended /\ (closing' = "openings" => p \in closeWaits')
    BY <2>3, <2>4, <2>5, <1>0, <1>3 DEF ManagerInv, OpeningsSound, At
  <2>6. ASSUME NEW p \in Slots, At(p, "discard")'
        PROVE  /\ requests'[p].live # 0 /\ live'[requests'[p].live].state = "discarded"
               /\ live'[requests'[p].live].session = requests'[p].session
               /\ live'[requests'[p].live].disposing = "pending"
    BY <2>3, <2>4, <2>6, <1>0, <1>3 DEF ManagerInv, OpeningsSound, At
  <2> QED
    BY <2>1, <2>2, <2>5, <2>6 DEF OpeningsSound
<1>13. RegisteredSound'
  <2> SUFFICES ASSUME NEW t \in Sessions, liveSessions'[t] # 0
      PROVE  /\ live'[liveSessions'[t]].state = "open" /\ live'[liveSessions'[t]].session = t
             /\ live'[liveSessions'[t]].disposing \in {"none", "pending"}
             /\ closing' \notin Ended
    BY DEF RegisteredSound
  <2>1. liveSessions'[t] = liveSessions[t] /\ liveSessions[t] # 0
    BY <1>8
  <2>2. liveSessions[t] \in Runtimes /\ live[liveSessions[t]].session = t
    BY <2>1, <1>0, RegisteredIsOpen
  <2>3. liveSessions[t] # k
    BY <2>1, <2>2, <1>2, <1>8, RuntimesAreIndices
  <2> QED
    BY <2>1, <2>2, <2>3, <1>0, <1>3, <1>6 DEF ManagerInv, RegisteredSound
<1>14. CloseSound'
  <2>1. \A r \in closeFinds :
          /\ r \in Runtimes /\ live'[r].state = live[r].state
          /\ live'[r].session = live[r].session
          /\ live[r].disposing = "resolved" => live'[r].disposing = "resolved"
    BY <1>0, <1>2, <1>3, <1>4, <1>6 DEF LiveTyped
  <2>2. CloseSound /\ closeFinds' = closeFinds /\ closing' = closing /\ stage' = stage
    BY <1>0, <1>3 DEF ManagerInv
  <2>3. \A r \in closeFinds' : live'[r].state = "open"
    BY <2>1, <2>2 DEF CloseSound
  <2>4. \A r1, r2 \in closeFinds' : live'[r1].session = live'[r2].session => r1 = r2
    BY <2>1, <2>2 DEF CloseSound
  <2>5. closing' = "done" => \A r \in closeFinds' : live'[r].disposing = "resolved"
    BY <2>1, <2>2 DEF CloseSound
  <2>6. closing' \in Ended \cup {"openings"} => \A c \in Conns : stage'[c] = "closed"
    BY <2>2 DEF CloseSound
  <2> QED
    BY <2>3, <2>4, <2>5, <2>6 DEF CloseSound
<1>15. UsesSound'
  <2> SUFFICES ASSUME NEW p \in Slots
      PROVE  /\ requests'[p].pc \in Uses =>
                  /\ requests'[p].live # 0 /\ live'[requests'[p].live].state = "open"
                  /\ live'[requests'[p].live].session = requests'[p].session
             /\ requests'[p].pc = "awaitDisposing" => live'[requests'[p].live].disposing = "pending"
             /\ requests'[p].pc = "acquire" => requests'[p].live = 0
             /\ requests'[p].pc = "operate" => requests'[p].kind = "operation"
             /\ requests'[p].pc \in Opens \cup {"awaitOpening"} => requests'[p].kind = "attach"
             /\ requests'[p].pc \in Joins =>
                  requests'[p].kind = "attach" /\ ~live'[requests'[p].live].terminal
    BY DEF UsesSound, At
  <2>1. CASE requests'[p] = requests[p] /\ ~(requests[p].pc = "awaitDisposing" /\ requests[p].live = k)
    <3>1. requests[p].pc \in Uses =>
            /\ requests[p].live \in Runtimes
            /\ live'[requests[p].live].state = live[requests[p].live].state
            /\ live'[requests[p].live].session = live[requests[p].live].session
            /\ live'[requests[p].live].terminal = live[requests[p].live].terminal
            /\ requests[p].live # k => live'[requests[p].live] = live[requests[p].live]
      BY <1>0, <1>2, <1>3, <1>4, <1>6, InHand
    <3> QED
      BY <2>1, <3>1, <1>0, PcKinds DEF UsesSound, At
  <2>2. CASE requests'[p].pc = "free" \/ (requests'[p].pc = "acquire" /\ requests'[p].live = 0)
    BY <2>2, PcKinds
  <2> QED
    BY <2>1, <2>2, <1>7
<1>16. /\ OperationsCounted' /\ NoDisposeInUse' /\ UnusedIsDisposed'
       /\ SnapshotsSound' /\ ViewsSound'
  <2>1. \A p \in Slots :
           \/ requests'[p] = requests[p]
           \/ /\ requests[p].pc \notin {"operate", "snapshot"}
              /\ requests'[p].pc \notin {"operate", "snapshot"}
              /\ requests[p].pc \in Resumed => requests[p].live = 0
    BY <1>7, PcKinds
  <2>2. isClosing' <=> isClosing
    BY <1>3 DEF isClosing
  <2>4. \A r \in Runtimes :
           /\ live'[r].connections \subseteq live[r].connections
           /\ live'[r].terminal => live[r].terminal
           /\ live'[r].operationCount = live[r].operationCount
           /\ live[r].state = "open" =>
                /\ live'[r].state = "open" /\ live'[r].session = live[r].session
                /\ isClosing' \/ live'[r].disposing = live[r].disposing \/ live[r].disposing # "none"
           /\ live'[r].state = "open" /\ Unneeded(live'[r]) /\ ~isClosing' =>
                \/ live[r].state = "open" /\ Unneeded(live[r])
                \/ \E p \in Slots : requests'[p].pc \in Resumed /\ requests'[p].live = r
    <3> TAKE r \in Runtimes
    <3>1. CASE r = k
      <4>1. ~Unneeded(l)
        BY <1>4 DEF Unneeded
      <4> QED
        BY <3>1, <4>1, <1>2, <1>3, <1>4, <1>6
    <3>2. CASE r # k
      <4>1. live'[r] = live[r]
        BY <3>2, <1>6
      <4> QED
        BY <4>1
    <3> QED
      BY <3>1, <3>2
  <2>5. \A t \in Sessions : liveSessions'[t] # 0 =>
           liveSessions'[t] = liveSessions[t] \/ live'[liveSessions'[t]].connections = {}
    BY <1>8
  <2> QED
    BY <1>3, <1>9, <1>15, <2>1, <2>2, <2>4, <2>5, RestKept
<1> QED
  BY <1>9, <1>11, <1>12, <1>13, <1>14, <1>15, <1>16, SMTT(30) DEF LiveInv, ManagerInv

-----------------------------------------------------------------------------
(* LiveSessionManager.close.                                               *)

LEMMA CloseManagerKeeps ==
  ASSUME LiveInv, CloseManager
  PROVE  LiveInv'
<1>0. /\ LiveTyped /\ ManagerInv /\ UsesSound /\ OperationsCounted
      /\ NoDisposeInUse /\ UnusedIsDisposed /\ SnapshotsSound /\ ViewsSound
  BY DEF LiveInv
<1>1. /\ stage' = stage /\ sessionIds' = sessionIds /\ live' = live /\ requests' = requests
      /\ liveSessions' = liveSessions /\ openingSessions' = openingSessions
      /\ view' = view /\ revision' = revision /\ broadcasts' = broadcasts
      /\ closeFinds' = closeFinds /\ received' = received /\ lost' = lost
      /\ closing = "connections" /\ closing' = "openings"
      /\ \A c \in Conns : stage[c] = "closed"
      /\ closeWaits' = {openingSessions[s] : s \in Sessions} \ {None}
  BY DEF CloseManager, connVars, managerVars, snapshotVars, countVars
<1>2. LiveTyped'
  <2>1. closing' \in CloseStages /\ closeWaits' \subseteq Slots
    BY <1>0, <1>1 DEF CloseStages, LiveTyped
  <2> QED
    BY <2>1, <1>0, <1>1 DEF LiveTyped
<1>3. RuntimesSound'
  <2>1. \A r \in Runtimes : ~TakenDown(r)
    BY <1>1 DEF TakenDown, Ended
  <2> QED
    BY <2>1, <1>0, <1>1 DEF ManagerInv, RuntimesSound, OpenedBy, Opener
<1>4. OpeningsSound'
  <2>1. \A q \in Slots : At(q, "openSnapshot") => q \in closeWaits'
    <3> TAKE q \in Slots
    <3> HAVE At(q, "openSnapshot")
    <3>1. requests[q].session \in Sessions /\ openingSessions[requests[q].session] = q /\ q # None
      BY <1>0, OpenerKnown DEF At, Opens
    <3> QED
      BY <3>1, <1>1
  <2>2. closing' \notin Ended
    BY <1>1 DEF Ended
  <2> QED
    BY <2>1, <2>2, <1>0, <1>1 DEF ManagerInv, OpeningsSound, At
<1>5. RegisteredSound' /\ CloseSound'
  BY <1>0, <1>1 DEF ManagerInv, RegisteredSound, CloseSound, Ended
<1>6. UsesSound'
  BY <1>0, <1>1 DEF UsesSound, At
<1>7. /\ OperationsCounted' /\ NoDisposeInUse' /\ UnusedIsDisposed'
      /\ SnapshotsSound' /\ ViewsSound'
  <2>1. isClosing' /\ isClosing
    BY <1>1 DEF isClosing
  <2> QED
    BY <2>1, <1>1, <1>2, <1>6, RestKept
<1> QED
  BY <1>2, <1>3, <1>4, <1>5, <1>6, <1>7 DEF LiveInv, ManagerInv

LEMMA CloseSessionsKeeps ==
  ASSUME LiveInv, CloseSessions
  PROVE  LiveInv'
<1>0. /\ LiveTyped /\ ManagerInv /\ UsesSound /\ OperationsCounted
      /\ NoDisposeInUse /\ UnusedIsDisposed /\ SnapshotsSound /\ ViewsSound
  BY DEF LiveInv
<1> DEFINE found == {liveSessions[s] : s \in Sessions} \ {0}
<1>1. /\ stage' = stage /\ sessionIds' = sessionIds /\ requests' = requests
      /\ openingSessions' = openingSessions /\ Quiet
      /\ view' = view /\ revision' = revision /\ broadcasts' = broadcasts
      /\ closeWaits' = closeWaits /\ received' = received /\ lost' = lost
      /\ closing = "openings" /\ closeWaits = {} /\ closing' = "sessions"
      /\ closeFinds' = found /\ liveSessions' = [s \in Sessions |-> 0]
      /\ live' = [r \in Runtimes |->
                    IF r \in found /\ live[r].disposing = "none"
                    THEN [live[r] EXCEPT !.subscribed = FALSE, !.disposing = "pending"]
                    ELSE live[r]]
  BY DEF CloseSessions, connVars, snapshotVars, countVars
<1>2. \A r \in found : \E s \in Sessions : s = live[r].session /\ r = liveSessions[s]
        /\ r \in Runtimes /\ live[r].state = "open" /\ live[r].disposing \in {"none", "pending"}
  <2> TAKE r \in found
  <2>1. PICK s \in Sessions : r = liveSessions[s] /\ liveSessions[s] # 0
    OBVIOUS
  <2> QED
    BY <2>1, <1>0, RegisteredIsOpen DEF ManagerInv, RegisteredSound
<1>3. \A s \in Sessions : liveSessions[s] # 0 => liveSessions[s] \in found
  OBVIOUS
<1> HIDE DEF found
<1>4. ASSUME NEW r \in Runtimes
      PROVE  /\ live'[r] \in RuntimeRecord /\ live'[r].state = live[r].state
             /\ live'[r].session = live[r].session /\ live'[r].connections = live[r].connections
             /\ live'[r].terminal = live[r].terminal
             /\ live'[r].operationCount = live[r].operationCount
             /\ r \in found => live'[r].disposing = "pending"
             /\ r \notin found => live'[r] = live[r]
  <2>1. live[r] \in RuntimeRecord /\ "pending" \in Disposals
    BY <1>0, RuntimeTyped DEF Disposals
  <2>2. CASE r \in found /\ live[r].disposing = "none"
    <3>1. live'[r] = [live[r] EXCEPT !.subscribed = FALSE, !.disposing = "pending"]
      BY <2>2, <1>1
    <3> QED
      BY <2>1, <2>2, <3>1 DEF RuntimeRecord
  <2>3. CASE ~(r \in found /\ live[r].disposing = "none")
    <3>1. live'[r] = live[r]
      BY <2>3, <1>1
    <3> QED
      BY <2>1, <2>3, <3>1, <1>2
  <2> QED
    BY <2>2, <2>3
<1>5. LiveTyped'
  <2>1. live' \in [Runtimes -> RuntimeRecord]
    BY <1>1, <1>4
  <2>2. closing' \in CloseStages /\ closeFinds' \subseteq Runtimes
    BY <1>1, <1>2 DEF CloseStages
  <2>3. liveSessions' \in [Sessions -> 0..MaxRuntimes]
    <3>1. 0 \in 0..MaxRuntimes
      BY RuntimesAreIndices
    <3> QED
      BY <3>1, <1>1
  <2> QED
    BY <2>1, <2>2, <2>3, <1>0, <1>1 DEF LiveTyped
<1>6. \A q \in Slots : ~At(q, "openSnapshot") /\ ~At(q, "acquire")
  BY <1>0, <1>1 DEF ManagerInv, OpeningsSound, Quiet, At, Resumed
<1>7. RuntimesSound'
  <2> SUFFICES ASSUME NEW r \in Runtimes
      PROVE  /\ live'[r].state = "opening" =>
                  live'[r].disposing = "none" /\ live'[r].connections = {} /\ ~live'[r].terminal
                  /\ OpenedBy(r, "openSnapshot")'
             /\ live'[r].state = "discarded" /\ live'[r].disposing \in {"none", "pending"} =>
                  OpenedBy(r, "discard")'
             /\ live'[r].state = "open" /\ live'[r].disposing = "none" /\ ~live'[r].terminal =>
                  live'[r].subscribed
             /\ live'[r].state = "open" /\ live'[r].disposing \in {"none", "pending"} =>
                  liveSessions'[live'[r].session] = r \/ TakenDown(r)'
    BY DEF RuntimesSound
  <2>1. CASE r \in found
    <3>1. PICK s \in Sessions : s = live[r].session /\ r = liveSessions[s] /\ live[r].state = "open"
      BY <2>1, <1>2
    <3>2. openingSessions[s] = None
      BY <3>1, <1>0, RuntimesAreIndices, SMTT(30) DEF ManagerInv, OpeningsSound
    <3>3. TakenDown(r)'
      BY <2>1, <3>1, <3>2, <1>1, <1>4, <1>6 DEF TakenDown, Ended, At
    <3> QED
      BY <2>1, <3>1, <3>3, <1>4
  <2>2. CASE r \notin found
    <3>1. live'[r] = live[r] /\ live[r].session \in Sessions
      BY <2>2, <1>0, <1>4, RuntimeTyped
    <3>2. ~(live[r].state = "open" /\ live[r].disposing \in {"none", "pending"})
      BY <2>2, <3>1, <1>0, <1>1, <1>3, RuntimesAreIndices
        DEF ManagerInv, RuntimesSound, TakenDown, Ended
    <3>3. \A at \in {"openSnapshot", "discard"} : OpenedBy(r, at) => OpenedBy(r, at)'
      BY <3>1, <1>1 DEF OpenedBy, Opener
    <3> QED
      BY <3>1, <3>2, <3>3, <1>0 DEF ManagerInv, RuntimesSound
  <2> QED
    BY <2>1, <2>2
<1>8. OpeningsSound'
  <2>1. \A s \in Sessions : liveSessions'[s] = 0
    BY <1>1
  <2>2. \A q \in Slots : At(q, "discard") => live'[requests[q].live] = live[requests[q].live]
    <3> TAKE q \in Slots
    <3> HAVE At(q, "discard")
    <3>1. requests[q].live \in Runtimes /\ live[requests[q].live].state = "discarded"
      BY <1>0, RequestTyped DEF ManagerInv, OpeningsSound
    <3> QED
      BY <3>1, <1>2, <1>4
  <2>3. OpeningsSound
    BY <1>0 DEF ManagerInv
  <2>4. \A s \in Sessions : openingSessions'[s] # None =>
          /\ requests'[openingSessions'[s]].pc \in Opens
          /\ requests'[openingSessions'[s]].session = s
          /\ liveSessions'[s] = 0
    BY <2>1, <2>3, <1>1 DEF OpeningsSound
  <2>5. \A q \in Slots : requests'[q].pc \in Opens => openingSessions'[requests'[q].session] = q
    BY <2>3, <1>1 DEF OpeningsSound
  <2>6. \A q \in Slots : ~At(q, "openSnapshot")'
    BY <1>1, <1>6 DEF At
  <2>7. ASSUME NEW q \in Slots, At(q, "discard")'
        PROVE  /\ requests'[q].live # 0 /\ live'[requests'[q].live].state = "discarded"
               /\ live'[requests'[q].live].session = requests'[q].session
               /\ live'[requests'[q].live].disposing = "pending"
    <3>1. At(q, "discard") /\ requests' = requests
      BY <2>7, <1>1 DEF At
    <3> QED
      BY <3>1, <2>2, <2>3 DEF OpeningsSound
  <2> QED
    BY <2>4, <2>5, <2>6, <2>7 DEF OpeningsSound
<1>9. RegisteredSound'
  BY <1>1 DEF RegisteredSound
<1>10. CloseSound'
  <2>1. \A c \in Conns : stage[c] = "closed"
    BY <1>0, <1>1 DEF ManagerInv, CloseSound
  <2>2. \A r \in found : live'[r].state = "open"
    BY <1>2, <1>4
  <2>3. \A r1, r2 \in found : live'[r1].session = live'[r2].session => r1 = r2
    BY <1>2, <1>4
  <2> QED
    BY <2>1, <2>2, <2>3, <1>1 DEF CloseSound
<1>11. UsesSound'
  <2> SUFFICES ASSUME NEW p \in Slots
      PROVE  /\ requests'[p].pc \in Uses =>
                  /\ requests'[p].live # 0 /\ live'[requests'[p].live].state = "open"
                  /\ live'[requests'[p].live].session = requests'[p].session
             /\ requests'[p].pc = "awaitDisposing" => live'[requests'[p].live].disposing = "pending"
             /\ requests'[p].pc = "acquire" => requests'[p].live = 0
             /\ requests'[p].pc = "operate" => requests'[p].kind = "operation"
             /\ requests'[p].pc \in Opens \cup {"awaitOpening"} => requests'[p].kind = "attach"
             /\ requests'[p].pc \in Joins =>
                  requests'[p].kind = "attach" /\ ~live'[requests'[p].live].terminal
    BY DEF UsesSound, At
  <2>1. requests' = requests /\ UsesSound
    BY <1>0, <1>1
  <2>2. ASSUME requests[p].pc \in Uses
        PROVE  /\ live'[requests[p].live].state = live[requests[p].live].state
               /\ live'[requests[p].live].session = live[requests[p].live].session
               /\ live'[requests[p].live].terminal = live[requests[p].live].terminal
               /\ live[requests[p].live].disposing = "pending" =>
                    live'[requests[p].live].disposing = "pending"
    <3>1. requests[p].live \in Runtimes
      BY <2>2, <1>0, InHand
    <3> QED
      BY <3>1, <1>4
  <2>3. /\ requests[p].pc = "awaitDisposing" => requests[p].pc \in Uses
        /\ requests[p].pc \in Joins => requests[p].pc \in Uses
    BY DEF Uses
  <2> QED
    BY <2>1, <2>2, <2>3 DEF UsesSound, At
<1>12. /\ OperationsCounted' /\ NoDisposeInUse' /\ UnusedIsDisposed'
       /\ SnapshotsSound' /\ ViewsSound'
  <2>1. isClosing'
    BY <1>1 DEF isClosing
  <2>2. \A r \in Runtimes :
           /\ live'[r].connections \subseteq live[r].connections
           /\ live'[r].terminal => live[r].terminal
           /\ live'[r].operationCount = live[r].operationCount
           /\ live[r].state = "open" =>
                /\ live'[r].state = "open" /\ live'[r].session = live[r].session
                /\ isClosing' \/ live'[r].disposing = live[r].disposing \/ live[r].disposing # "none"
           /\ live'[r].state = "open" /\ Unneeded(live'[r]) /\ ~isClosing' =>
                \/ live[r].state = "open" /\ Unneeded(live[r])
                \/ \E p \in Slots : requests'[p].pc \in Resumed /\ requests'[p].live = r
    BY <2>1, <1>4
  <2>3. \A s \in Sessions : liveSessions'[s] = 0
    BY <1>1
  <2> QED
    BY <2>1, <2>2, <2>3, <1>1, <1>5, <1>11, RestKept
<1> QED
  BY <1>5, <1>7, <1>8, <1>9, <1>10, <1>11, <1>12 DEF LiveInv, ManagerInv

LEMMA CloseEndsKeeps ==
  ASSUME LiveInv, CloseEnds
  PROVE  LiveInv'
<1>0. /\ LiveTyped /\ ManagerInv /\ UsesSound /\ OperationsCounted
      /\ NoDisposeInUse /\ UnusedIsDisposed /\ SnapshotsSound /\ ViewsSound
  BY DEF LiveInv
<1>1. /\ stage' = stage /\ sessionIds' = sessionIds /\ live' = live /\ requests' = requests
      /\ liveSessions' = liveSessions /\ openingSessions' = openingSessions
      /\ view' = view /\ revision' = revision /\ broadcasts' = broadcasts
      /\ closeWaits' = closeWaits /\ closeFinds' = closeFinds
      /\ received' = received /\ lost' = lost
      /\ closing = "sessions" /\ closing' \in {"done", "failed"}
      /\ closing' = "done" => \A r \in closeFinds : live[r].disposing = "resolved"
  BY DEF CloseEnds, connVars, managerVars, snapshotVars, countVars
<1>2. closing \in Ended /\ closing' \in Ended /\ closing' \in CloseStages
      /\ closing' # "openings"
  BY <1>1 DEF Ended, CloseStages
<1>3. LiveTyped'
  BY <1>0, <1>1, <1>2 DEF LiveTyped
<1>4. RuntimesSound'
  <2>1. \A r \in Runtimes : TakenDown(r) => TakenDown(r)'
    BY <1>1, <1>2 DEF TakenDown, At
  <2>2. \A r \in Runtimes, at \in {"openSnapshot", "discard"} : OpenedBy(r, at) => OpenedBy(r, at)'
    BY <1>1 DEF OpenedBy, Opener
  <2> QED
    BY <2>1, <2>2, <1>0, <1>1 DEF ManagerInv, RuntimesSound
<1>5. OpeningsSound'
  BY <1>0, <1>1, <1>2 DEF ManagerInv, OpeningsSound, At
<1>6. RegisteredSound' /\ CloseSound'
  BY <1>0, <1>1, <1>2 DEF ManagerInv, RegisteredSound, CloseSound
<1>7. UsesSound'
  BY <1>0, <1>1 DEF UsesSound, At
<1>8. /\ OperationsCounted' /\ NoDisposeInUse' /\ UnusedIsDisposed'
      /\ SnapshotsSound' /\ ViewsSound'
  <2>1. isClosing' /\ isClosing
    BY <1>1 DEF isClosing
  <2> QED
    BY <2>1, <1>1, <1>3, <1>7, RestKept
<1> QED
  BY <1>3, <1>4, <1>5, <1>6, <1>7, <1>8 DEF LiveInv, ManagerInv

-----------------------------------------------------------------------------
(* The invariant.                                                          *)

LEMMA LiveInvHoldsAtFirst ==
  ASSUME LiveInit
  PROVE  LiveInv
<1>1. (CHOOSE s \in Sessions : TRUE) \in Sessions
  BY LiveAssumption
<1>2. PICK s0 \in Sessions : s0 = (CHOOSE s \in Sessions : TRUE)
  BY <1>1
<1>3. /\ stage = [c \in Conns |-> "ready"] /\ sessionIds = [c \in Conns |-> {}]
      /\ live = [r \in Runtimes |-> Unused(s0)]
      /\ liveSessions = [s \in Sessions |-> 0] /\ openingSessions = [s \in Sessions |-> None]
      /\ requests = [q \in Slots |-> NoRequest] /\ revision = [s \in Sessions |-> 0]
      /\ broadcasts = {} /\ view = [c \in Conns |-> [s \in Sessions |-> -1]]
      /\ closing = "no" /\ closeWaits = {} /\ closeFinds = {} /\ received = 0 /\ lost = 0
  BY <1>2 DEF LiveInit
<1>4. /\ Unused(s0) \in RuntimeRecord /\ Unused(s0).state = "unused"
      /\ Unused(s0).operationCount = 0 /\ ~Unused(s0).terminal
  BY DEF Unused, RuntimeRecord, RuntimeStates, Disposals
<1>5. /\ 0 \in 0..MaxRuntimes /\ 0 \in Revisions /\ 0 \in 0..MaxRequests /\ 0 \in 0..MaxLost
      /\ -1 \in -1..MaxRevision /\ "no" \in CloseStages
  BY LiveAssumption, RuntimesAreIndices DEF CloseStages
<1>6. \A q \in Slots : requests[q].pc = "free" /\ requests[q] \in Request
  BY <1>3, NoRequestTyped
<1>7. \A r \in Runtimes : live[r] = Unused(s0)
  BY <1>3
<1>8. LiveTyped
  <2>1. requests \in [Slots -> Request] /\ live \in [Runtimes -> RuntimeRecord]
    BY <1>3, <1>4, NoRequestTyped
  <2>2. view \in [Conns -> [Sessions -> -1..MaxRevision]] /\ revision \in [Sessions -> Revisions]
    BY <1>3, <1>5
  <2> QED
    BY <2>1, <2>2, <1>3, <1>5 DEF LiveTyped
<1>9. ManagerInv
  <2>1. RuntimesSound /\ RegisteredSound /\ CloseSound
    BY <1>3, <1>4, <1>7 DEF RuntimesSound, RegisteredSound, CloseSound, Ended
  <2>2. OpeningsSound
    BY <1>3, <1>6 DEF OpeningsSound, Opens, At
  <2> QED
    BY <2>1, <2>2 DEF ManagerInv
<1>10. UsesSound /\ NoDisposeInUse
  BY <1>6, PcKinds DEF UsesSound, NoDisposeInUse, At, Uses, Opens, Joins
<1>11. OperationsCounted
  <2> SUFFICES ASSUME NEW r \in Runtimes
      PROVE  live[r].operationCount = Cardinality(OperatingOn(r))
    BY DEF OperationsCounted
  <2>1. OperatingOn(r) = {}
    BY <1>6 DEF OperatingOn
  <2> QED
    BY <2>1, <1>4, <1>7, FS_EmptySet
<1>12. UnusedIsDisposed
  BY <1>4, <1>7 DEF UnusedIsDisposed
<1>13. SnapshotsSound
  <2>1. \A c \in Conns, s \in Sessions : view[c][s] = -1 /\ revision[s] = 0
    BY <1>3
  <2> QED
    BY <2>1, <1>3, <1>4, <1>6, <1>7 DEF SnapshotsSound, At
<1>14. ViewsSound
  BY <1>3 DEF ViewsSound
<1> QED
  BY <1>8, <1>9, <1>10, <1>11, <1>12, <1>13, <1>14 DEF LiveInv

LEMMA LiveInvKept ==
  ASSUME LiveInv, [LiveNext]_liveVars
  PROVE  LiveInv'
<1>0. LiveTyped
  BY DEF LiveInv
<1>1. ASSUME NEW q \in Slots, NEW c \in Conns, NEW s \in Sessions, ReceiveAttach(q, c, s)
      PROVE  LiveInv'
  <2>1. /\ Acquire(q, c, s) /\ requests[q].pc = "free" /\ stage[c] = "ready"
        /\ received' = received + 1 /\ received < MaxRequests /\ lost' = lost
    BY <1>1 DEF ReceiveAttach, Receive, At
  <2>2. received' \in 0..MaxRequests
    BY <2>1, <1>0, LiveAssumption DEF LiveTyped
  <2> QED
    BY <2>1, <2>2, AcquireRoundKeeps
<1>2. ASSUME NEW q \in Slots, Reacquire(q)
      PROVE  LiveInv'
  <2>1. PICK c \in Conns, s \in Sessions : c = requests[q].conn /\ s = requests[q].session
    BY <1>0, RequestTyped
  <2>2. /\ Acquire(q, c, s) /\ requests[q].pc = "acquire" /\ requests[q].session = s
        /\ received' = received /\ lost' = lost
    BY <1>2, <2>1 DEF Reacquire, At, countVars
  <2>3. received' \in 0..MaxRequests
    BY <2>2, <1>0 DEF LiveTyped
  <2> QED
    BY <2>2, <2>3, AcquireRoundKeeps
<1>3. ASSUME Client
      PROVE  LiveInv'
  BY <1>1, <1>3, ReceiveDetachKeeps, ReceiveOperationKeeps DEF Client
<1>4. ASSUME NEW q \in Slots,
             \/ Reacquire(q) \/ Attach(q)
             \/ OpenRuntime(q) \/ OpenFails(q)
             \/ OpenSnapshot(q) \/ OpenSnapshotFails(q) \/ Discard(q)
             \/ OperationSucceeds(q) \/ OperationFails(q)
             \/ SnapshotDone(q) \/ SnapshotFails(q)
      PROVE  LiveInv'
  <2>1. CASE OpenRuntime(q) \/ OpenSnapshotFails(q)
    <3>1. Quiet
      BY <2>1 DEF OpenRuntime, OpenSnapshotFails
    <3> QED
      BY <2>1, <3>1, OpeningMovesKeeps
  <2>2. CASE Reacquire(q)
    BY <2>2, <1>2
  <2>3. CASE Attach(q)
    BY <2>3, AttachKeeps
  <2>4. CASE OpenFails(q) \/ Discard(q)
    BY <2>4, OpeningFailsKeeps
  <2>5. CASE OpenSnapshot(q)
    BY <2>5, OpenSnapshotKeeps
  <2>6. CASE OperationSucceeds(q)
    BY <2>6, OperationSucceedsKeeps
  <2>7. CASE OperationFails(q)
    BY <2>7, OperationFailsKeeps
  <2>8. CASE SnapshotDone(q)
    BY <2>8, SnapshotDoneKeeps
  <2>9. CASE SnapshotFails(q)
    BY <2>9, SnapshotFailsKeeps
  <2> QED
    BY <1>4, <2>1, <2>2, <2>3, <2>4, <2>5, <2>6, <2>7, <2>8, <2>9
<1>5. ASSUME Progress
      PROVE  LiveInv'
  BY <1>4, <1>5, DisposeSettlesKeeps, BroadcastDoneKeeps, DisconnectKeeps, CloseBeginsKeeps,
     CloseManagerKeeps, CloseSessionsKeeps, CloseEndsKeeps
  DEF Progress
<1>6. ASSUME Environment
      PROVE  LiveInv'
  BY <1>6, RuntimeUpdateKeeps, TerminateKeeps, DisconnectKeeps, CloseBeginsKeeps DEF Environment
<1>7. ASSUME UNCHANGED liveVars
      PROVE  LiveInv'
  <2>1. /\ stage' = stage /\ sessionIds' = sessionIds /\ live' = live
        /\ liveSessions' = liveSessions /\ openingSessions' = openingSessions
        /\ requests' = requests /\ revision' = revision /\ broadcasts' = broadcasts
        /\ view' = view /\ closing' = closing /\ closeWaits' = closeWaits
        /\ closeFinds' = closeFinds /\ received' = received /\ lost' = lost
    BY <1>7 DEF liveVars
  <2>2. LiveTyped'
    BY <2>1, <1>0 DEF LiveTyped
  <2> QED
    BY <2>1, <2>2, Untouched
<1> QED
  BY <1>3, <1>5, <1>6, <1>7 DEF LiveNext

(* The inductive invariant of the live sessions: who holds a runtime, who   *)
(* opens one, what operationCount counts, what close still waits for and    *)
(* where the last revision of a session is on its way to its clients.       *)
THEOREM LiveInvariant == LiveSpec => []LiveInv
<1> QED
  BY LiveInvHoldsAtFirst, LiveInvKept, PTL DEF LiveSpec

LEMMA LiveInvTypes ==
  ASSUME LiveInv
  PROVE  LiveTypeOK
<1>0. LiveTyped /\ OperationsCounted
  BY DEF LiveInv
<1>1. \A r \in Runtimes : live[r] \in LiveSession
  <2> TAKE r \in Runtimes
  <2>1. live[r] \in RuntimeRecord
    BY <1>0, RuntimeTyped
  <2>2. live[r].operationCount \in 0..Cardinality(Slots)
    <3>1. live[r].operationCount = Cardinality(OperatingOn(r))
      BY <1>0 DEF OperationsCounted
    <3>2. /\ Cardinality(OperatingOn(r)) \in Nat /\ Cardinality(Slots) \in Nat
          /\ Cardinality(OperatingOn(r)) <= Cardinality(Slots)
      BY OperatingIsFinite
    <3> QED
      BY <3>1, <3>2
  <2> QED
    BY <2>1, <2>2 DEF RuntimeRecord, LiveSession
<1>2. live \in [Runtimes -> LiveSession]
  BY <1>0, <1>1 DEF LiveTyped
<1> QED
  BY <1>0, <1>2 DEF LiveTyped, LiveTypeOK

(* Every variable keeps its type; operationCount, which runOperation only   *)
(* increments and decrements, stays between nothing and every request.      *)
THEOREM LiveTypeCorrect == LiveSpec => []LiveTypeOK
<1> QED
  BY LiveInvTypes, LiveInvariant, PTL

(* A session is acquired exclusively and a runtime with an operation under  *)
(* way is not disposed of (create, acquire, runOperation, maybeDispose).    *)
THEOREM RuntimesAlwaysExclusive == LiveSpec => []RuntimesExclusive
<1>1. ASSUME LiveInv
      PROVE  RuntimesExclusive
  BY <1>1, OneRuntime DEF LiveInv, RuntimesExclusive, SingleRuntime
<1> QED
  BY <1>1, LiveInvariant, PTL

(* A runtime nobody uses is given back, and a close that resolved left      *)
(* nothing but what a late open disposes of (maybeDispose, close).          *)
THEOREM NothingIsLeftBehind == LiveSpec => []NothingLeftBehind
<1>1. ASSUME LiveInv
      PROVE  NothingLeftBehind
  <2>0. LiveTyped /\ ManagerInv /\ UnusedIsDisposed
    BY <1>1 DEF LiveInv
  <2> SUFFICES ASSUME closing = "done", NEW r \in Runtimes, Held(r)
      PROVE  live[r].state = "discarded"
    BY <2>0 DEF NothingLeftBehind, ClosedLeavesNothing
  <2>1. closing \in Ended
    BY DEF Ended
  <2>2. live[r].session \in Sessions /\ live[r].state \in RuntimeStates
    BY <2>0, RuntimeTyped
  <2>3. live[r].state # "opening"
    <3> SUFFICES ASSUME live[r].state = "opening"
        PROVE  FALSE
      OBVIOUS
    <3>1. OpenedBy(r, "openSnapshot")
      BY <2>0 DEF ManagerInv, RuntimesSound
    <3>2. Opener(r) \in Slots /\ At(Opener(r), "openSnapshot")
      BY <3>1, <2>0, <2>2 DEF OpenedBy, Opener, At, LiveTyped
    <3> QED
      BY <3>2, <2>0, <2>1 DEF ManagerInv, OpeningsSound
  <2>4. live[r].state # "open"
    <3> SUFFICES ASSUME live[r].state = "open"
        PROVE  FALSE
      OBVIOUS
    <3>1. liveSessions[live[r].session] = 0
      BY <2>0, <2>1, <2>2 DEF ManagerInv, RegisteredSound
    <3>2. TakenDown(r)
      BY <3>1, <2>0, RuntimesAreIndices DEF ManagerInv, RuntimesSound, Held
    <3> QED
      BY <3>2, <2>0 DEF TakenDown, ManagerInv, CloseSound
  <2> QED
    BY <2>2, <2>3, <2>4 DEF Held, RuntimeStates
<1> QED
  BY <1>1, LiveInvariant, PTL

LEMMA LiveInvViews ==
  ASSUME LiveInv
  PROVE  ViewsConverge
<1>0. LiveTyped /\ ManagerInv /\ UsesSound /\ ViewsSound
  BY DEF LiveInv
<1> SUFFICES ASSUME NEW s \in Sessions, liveSessions[s] # 0, ~Broadcasting(s), lost = 0,
                    NEW c \in live[liveSessions[s]].connections, stage[c] = "ready"
    PROVE  view[c][s] = revision[s]
  BY DEF ViewsConverge
<1>1. liveSessions[s] \in Runtimes /\ live[liveSessions[s]].session = s
  BY <1>0, RegisteredIsOpen
<1>2. Arrives(c, liveSessions[s], revision[s])
  BY <1>0 DEF ViewsSound
<1>3. <<liveSessions[s], revision[s]>> \notin broadcasts
  BY <1>1 DEF Broadcasting
<1>4. \A q \in Slots : ~(At(q, "snapshot") /\ requests[q].live = liveSessions[s])
  <2> SUFFICES ASSUME NEW q \in Slots, At(q, "snapshot"), requests[q].live = liveSessions[s]
      PROVE  FALSE
    OBVIOUS
  <2>1. requests[q].session = s
    BY <1>0, <1>1, InHand DEF At, Uses
  <2> QED
    BY <2>1 DEF Broadcasting, At
<1> QED
  BY <1>1, <1>2, <1>3, <1>4 DEF Arrives

(* When the snapshots of a session are out and none failed, each client     *)
(* attached to it shows its last revision (broadcastSnapshot,               *)
(* handleRuntimeEvent, applySessionSnapshot).                               *)
THEOREM ViewsAlwaysConverge == LiveSpec => []ViewsConverge
<1> QED
  BY LiveInvViews, LiveInvariant, PTL

-----------------------------------------------------------------------------
(* The server and its clients together.                                    *)

ServerInv == LiveInv /\ SnapshotsInv /\ LeasesInv

(* The three parts keep each their invariant, whichever of them moves.      *)
THEOREM ServerInvariant == MCSafety => []ServerInv
<1>1. MCInit => ServerInv
  BY LiveInvHoldsAtFirst, SnapshotsStart, LeasesStart DEF MCInit, ServerInv
<1>2. ASSUME ServerInv, [MCNext]_mcVars
      PROVE  ServerInv'
  <2>1. /\ [LiveNext]_liveVars
        /\ [PublishNext]_snapshotsVars
        /\ [LeaseNext]_leaseVars
    BY <1>2 DEF MCNext, SessionsNext, SnapshotsNext, LeasesNext, mcVars
  <2> QED
    BY <1>2, <2>1, LiveInvKept, SnapshotsStep, LeasesStep DEF ServerInv
<1> QED
  BY <1>1, <1>2, PTL DEF MCSafety

(* Every variable of the server and of its clients keeps its type.         *)
THEOREM ServerTypeCorrect == MCSafety => []ServerTypeOK
<1>1. ServerInv => ServerTypeOK
  BY LiveInvTypes DEF ServerInv, ServerTypeOK, SnapshotsInv, LeasesInv, LeasesTyped
<1> QED
  BY <1>1, ServerInvariant, PTL

(* What a client shows of a session it is attached to, and of the list of   *)
(* sessions, is the last there is once everything is sent (snapshots.ts,    *)
(* broadcastSnapshot of sessions.ts, state.ts of the client).              *)
THEOREM ClientsAlwaysUpToDate == MCSafety => []ClientsUpToDate
<1>1. ServerInv => ClientsUpToDate
  BY LiveInvViews, ListShownOncePublished DEF ServerInv, ClientsUpToDate
<1> QED
  BY <1>1, ServerInvariant, PTL

=============================================================================
