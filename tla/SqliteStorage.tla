---------------------------- MODULE SqliteStorage ----------------------------
(***************************************************************************)
(* The SQLite session backend, packages/session-backends/sqlite-node: one  *)
(* session of a database that several processes write to.  A writer holds  *)
(* a lease with a fence, and every write renews it in its transaction; the *)
(* cached branches follow the entries; a fork reads its source piecewise.  *)
(*                                                                         *)
(* The rows of a session are a State of SessionState: sequence, entries,   *)
(* lanes, open operations and facts.  A transaction (BEGIN IMMEDIATE) is   *)
(* one step; one that throws is rolled back and leaves no trace.           *)
(***************************************************************************)
EXTENDS SessionState

CONSTANTS
  Processes,      \* repositories over the one database
  SqlCommands,    \* requests the callers may make, a subset of Requests
  MaxClaims,      \* leases claimed                              (bound)
  MaxRows,        \* mutations of the session                    (bound)
  MaxDeletes,     \* deletions of the session                    (bound)
  MaxRepairs      \* repairs of the branch cache                 (bound)

ASSUME SqlCommandsAssumption == SqlCommands \subseteq Requests

ASSUME SqlBoundsAssumption ==
  /\ MaxClaims \in Nat
  /\ MaxRows \in Nat
  /\ MaxDeletes \in Nat
  /\ MaxRepairs \in Nat

VARIABLES
  exists,     \* the session has its row in sessions
  rows,       \* the rows of the session
  cache,      \* branch_entries and branch_tips: a tip and members per branch
  leaseRow,   \* the row of the session in writer_leases, owner 0 for none
  storages,   \* the SqliteSessionStorage objects of the session
  fork,       \* a fork of the session under way
  claims,     \* history: leases claimed so far; the n-th has ownerId n
  authors,    \* history: the owner that created the session, then one per write
  deletes,    \* history: deletions so far
  repairs     \* history: repairs so far

sessionVars == <<exists, rows, cache>>
sqlVars == <<exists, rows, cache, leaseRow, storages, fork, claims, authors,
             deletes, repairs>>

Owners == 1..MaxClaims

(* SqliteSessionStorage: its lease and whether leaseError is set.          *)
Storage == [process : Processes, owner : Owners, fence : Owners, error : BOOLEAN]

CachedBranch == [tip : Ids, members : SUBSET Ids]

NoLeaseRow == [owner |-> 0, fence |-> 0, expired |-> FALSE]

(* What a fork has read; scope branch is the path to one entry.  of and     *)
(* cached are the deletions and repairs when it began and when it found its *)
(* branch.                                                                  *)
ForkStages == {"none", "lanes", "tips", "branch", "path", "facts", "commit", "done",
               "failed"}
NoFork == [pc |-> "none", scope |-> "tree", of |-> 0, cached |-> 0, entries |-> {},
           leafs |-> EmptyState.lanes, tips |-> {}, labels |-> {}]

SqlTypeOK ==
  /\ exists \in BOOLEAN
  /\ rows \in State
  /\ cache \subseteq CachedBranch
  /\ leaseRow \in [owner : 0..MaxClaims, fence : 0..MaxClaims, expired : BOOLEAN]
  /\ storages \subseteq Storage
  /\ fork \in [pc : ForkStages, scope : {"tree", "branch"}, of : 0..MaxDeletes,
               cached : 0..MaxRepairs, entries : SUBSET Ids,
               leafs : [Lanes -> Ids \cup {Null, Missing}], tips : SUBSET Ids,
               labels : SUBSET Ids]
  /\ claims \in 0..MaxClaims
  /\ authors \in Seq(Owners)
  /\ deletes \in 0..MaxDeletes
  /\ repairs \in 0..MaxRepairs

SqlInit ==
  /\ exists = FALSE
  /\ rows = EmptyState
  /\ cache = {}
  /\ leaseRow = NoLeaseRow
  /\ storages = {}
  /\ fork = NoFork
  /\ claims = 0
  /\ authors = <<>>
  /\ deletes = 0
  /\ repairs = 0

-----------------------------------------------------------------------------
(* storage/writer-leases.ts.                                               *)

(* acquireWriterLease: there is no row, or the row has expired.            *)
Claimable == leaseRow.owner = 0 \/ leaseRow.expired

\* Mutant: the fence skips a number.
NextFenceSkips == leaseRow.fence + 2

NextFence == leaseRow.fence + 1

\* Mutant: renewWriterLease compares the fence alone.
HoldsByFence(s) == leaseRow.fence = s.fence

Holds(s) == leaseRow.owner = s.owner /\ leaseRow.fence = s.fence

(* renewWriterLease: by its owner, and in time.                            *)
Renews(s) == Holds(s) /\ ~leaseRow.expired

(* claimWriterLease for a storage that process p keeps.                    *)
Claim(p) ==
  /\ Claimable /\ claims < MaxClaims
  /\ claims' = claims + 1
  /\ leaseRow' = [owner |-> claims + 1, fence |-> NextFence, expired |-> FALSE]
  /\ storages' = storages \cup {[process |-> p, owner |-> claims + 1,
                                 fence |-> NextFence, error |-> FALSE]}

-----------------------------------------------------------------------------
(* branch-cache.ts.                                                        *)

\* Mutant: the whole source branch is copied.
CopyWhole(b, i) == b.members

(* copyBranchEntriesThroughSeq.                                            *)
CopyThroughSeq(b, i) == {m \in b.members : rows.seqOf[m] <= rows.seqOf[i]}

(* appendEntryToBranchCache: a root starts a branch, the child of a tip    *)
(* extends its branch, any other child starts a branch with a copy of one  *)
(* that holds its parent.                                                  *)
AppendToCache(i, parent) ==
  \/ /\ parent = Null
     /\ cache' = cache \cup {[tip |-> i, members |-> {i}]}
  \/ \E b \in cache :
       /\ b.tip = parent
       /\ cache' = (cache \ {b}) \cup {[tip |-> i, members |-> b.members \cup {i}]}
  \/ /\ \A b \in cache : b.tip # parent
     /\ \E b \in cache :
          /\ parent \in b.members
          /\ cache' = cache \cup
               {[tip |-> i, members |-> CopyThroughSeq(b, parent) \cup {i}]}

(* The parents of an entry up to the root, with the entry itself.          *)
RootPath(s, i) ==
  LET path[k \in Ids] == IF s.parentOf[k] = Null THEN {k}
                         ELSE {k} \cup path[s.parentOf[k]]
  IN path[i]

Leaves(s) == {i \in Entries(s) : \A k \in Entries(s) : s.parentOf[k] # i}

(* rebuildBranchCache.                                                     *)
Rebuilt(s) == {[tip |-> i, members |-> RootPath(s, i)] : i \in Leaves(s)}

-----------------------------------------------------------------------------
(* SqliteSessionStorage.                                                   *)

FailedLease(s) == storages' = (storages \ {s}) \cup {[s EXCEPT !.error = TRUE]}

(* enqueueWrite around any of the operations that change the session; a    *)
(* request that is refused rolls the renewal back with it.                 *)
Write(s, r) ==
  LET m == MutationOf(rows, r) IN
  /\ ~s.error /\ Renews(s)
  /\ rows.sequence < MaxRows
  /\ Accepts(rows, r)
  /\ rows' = Apply(rows, m)
  /\ IF m.kind = "entry" THEN AppendToCache(m.id, m.ref) ELSE UNCHANGED cache
  /\ authors' = Append(authors, s.owner)
  /\ UNCHANGED <<exists, leaseRow, storages, fork, claims, deletes, repairs>>

(* A write or a heartbeat that finds the lease gone or expired.            *)
LoseLease(s) ==
  /\ ~s.error /\ ~Renews(s)
  /\ FailedLease(s)
  /\ UNCHANGED <<sessionVars, leaseRow, fork, claims, authors, deletes, repairs>>

(* finishRelease, by delete, repairBranchCache and close.                  *)
ReleaseStorage(s) ==
  /\ leaseRow' = IF Holds(s) THEN NoLeaseRow ELSE leaseRow
  /\ storages' = storages \ {s}
  /\ UNCHANGED <<sessionVars, fork, claims, authors, deletes, repairs>>

(* The process dies, or the transaction of its release fails: the row      *)
(* stays until it expires.                                                 *)
CrashStorage(s) ==
  /\ storages' = storages \ {s}
  /\ UNCHANGED <<sessionVars, leaseRow, fork, claims, authors, deletes, repairs>>

(* No heartbeat came in time.                                              *)
Expire ==
  /\ leaseRow.owner # 0 /\ ~leaseRow.expired
  /\ leaseRow' = [leaseRow EXCEPT !.expired = TRUE]
  /\ UNCHANGED <<sessionVars, storages, fork, claims, authors, deletes, repairs>>

-----------------------------------------------------------------------------
(* SqliteSessionRepository.                                                *)

OwnStorages(p) == {s \in storages : s.process = p}

CreateSession(p) ==
  /\ ~exists
  /\ Claim(p)
  /\ exists' = TRUE
  /\ rows' = EmptyState
  /\ cache' = {}
  /\ authors' = <<claims + 1>>
  /\ UNCHANGED <<fork, deletes, repairs>>

(* open: a storage the repository already has is handed out again, also    *)
(* one that lost its lease.                                                *)
OpenSession(p) ==
  /\ exists /\ OwnStorages(p) = {}
  /\ Claim(p)
  /\ UNCHANGED <<sessionVars, fork, authors, deletes, repairs>>

(* delete, once the storages of the repository are released.               *)
DeleteSession(p) ==
  /\ exists /\ OwnStorages(p) = {} /\ Claimable
  /\ deletes < MaxDeletes
  /\ deletes' = deletes + 1
  /\ exists' = FALSE
  /\ rows' = EmptyState
  /\ cache' = {}
  /\ leaseRow' = NoLeaseRow
  /\ authors' = <<>>
  /\ UNCHANGED <<storages, fork, claims, repairs>>

(* repairBranchCache: claims the lease and releases it in one transaction. *)
RepairBranchCache(p) ==
  /\ exists /\ OwnStorages(p) = {} /\ Claimable
  /\ repairs < MaxRepairs
  /\ repairs' = repairs + 1
  /\ cache' = Rebuilt(rows)
  /\ leaseRow' = NoLeaseRow
  /\ UNCHANGED <<exists, rows, storages, fork, claims, authors, deletes>>

-----------------------------------------------------------------------------
(* fork: what is copied is read one statement after the other, then        *)
(* everything is written in one transaction.  With scope tree: entries,    *)
(* lanes, tips and facts.                                                  *)

ReadRest == <<sessionVars, leaseRow, storages, claims, authors, deletes, repairs>>

ForkReadsEntries ==
  /\ fork.pc = "none" /\ exists
  /\ fork' = [fork EXCEPT !.pc = "lanes", !.of = deletes, !.entries = Entries(rows)]
  /\ UNCHANGED ReadRest

ForkReadsLanes ==
  /\ fork.pc = "lanes"
  /\ fork' = [fork EXCEPT !.pc = "tips", !.leafs =
       IF exists THEN rows.lanes ELSE [l \in Lanes |-> Missing]]
  /\ UNCHANGED ReadRest

ForkReadsTips ==
  /\ fork.pc = "tips"
  /\ fork' = [fork EXCEPT !.pc = "facts", !.tips = {b.tip : b \in cache}]
  /\ UNCHANGED ReadRest

(* With scope branch: main's leaf or any message, at it or before it; then  *)
(* one of the cached branches that hold it, then that branch up to it,      *)
(* which is gone when the cache was rebuilt or deleted meanwhile.           *)
ForkReadsTarget ==
  /\ fork.pc = "none" /\ exists
  /\ \E target \in rows.messages \cup ({rows.lanes[Main]} \cap {Null}) :
       \E at \in {target} \cup (IF target = Null THEN {} ELSE {rows.parentOf[target]}) :
         fork' = [fork EXCEPT !.pc = IF at = Null THEN "facts" ELSE "branch",
                              !.scope = "branch", !.of = deletes,
                              !.leafs = [@ EXCEPT ![Main] = at],
                              !.tips = {at} \ {Null}]
  /\ UNCHANGED ReadRest

ForkReadsBranch ==
  /\ fork.pc = "branch"
  /\ \/ /\ \A b \in cache : fork.leafs[Main] \notin b.members
        /\ fork' = [fork EXCEPT !.pc = "failed"]
     \/ \E b \in cache :
          /\ fork.leafs[Main] \in b.members
          /\ fork' = [fork EXCEPT !.pc = "path", !.cached = repairs,
                                  !.entries = CopyThroughSeq(b, fork.leafs[Main])]
  /\ UNCHANGED ReadRest

ForkReadsPath ==
  /\ fork.pc = "path"
  /\ fork' = [fork EXCEPT !.pc = "facts", !.entries =
       IF repairs = fork.cached /\ deletes = fork.of THEN @ ELSE {}]
  /\ UNCHANGED ReadRest

ForkReadsFacts ==
  /\ fork.pc = "facts"
  /\ fork' = [fork EXCEPT !.pc = "commit", !.labels =
       IF fork.scope = "tree" THEN rows.labels ELSE rows.labels \cap fork.entries]
  /\ UNCHANGED ReadRest

\* Mutant: the tips that were not copied are passed over.
ForkCommitAnyTip ==
  /\ fork.pc = "commit"
  /\ fork' = [fork EXCEPT !.pc = "done", !.tips = @ \cap fork.entries]
  /\ UNCHANGED ReadRest

(* buildCachedBranch of a tip that was not copied fails, and the fork.     *)
ForkCommit ==
  /\ fork.pc = "commit"
  /\ fork' = [fork EXCEPT !.pc = IF fork.tips \subseteq fork.entries THEN "done"
                                 ELSE "failed"]
  /\ UNCHANGED ReadRest

-----------------------------------------------------------------------------
SqlNext ==
  \/ \E s \in storages :
       \/ \E r \in SqlCommands : Write(s, r)
       \/ LoseLease(s) \/ ReleaseStorage(s) \/ CrashStorage(s)
  \/ Expire
  \/ \E p \in Processes :
       \/ CreateSession(p) \/ OpenSession(p) \/ DeleteSession(p)
       \/ RepairBranchCache(p)
  \/ ForkReadsEntries \/ ForkReadsLanes \/ ForkReadsTips
  \/ ForkReadsTarget \/ ForkReadsBranch \/ ForkReadsPath
  \/ ForkReadsFacts \/ ForkCommit

SqlSpec == SqlInit /\ [][SqlNext]_sqlVars

-----------------------------------------------------------------------------
(* Properties.                                                             *)

(* Leases fence: the writes of a session are those of one owner, then of    *)
(* the next.  Whoever lost its lease by expiry, take-over, release or the   *)
(* deletion of the session never writes again, however late it wakes up.    *)
OwnersDoNotInterleave ==
  \A i, j \in 1..Len(authors) : i <= j => authors[i] <= authors[j]

(* The members of a cached branch are linked: each is the child of the one  *)
(* before it and the first is a root.  What findEntriesOnBranch reads up to *)
(* any entry is then its path to the root, whichever branch it is read      *)
(* from, and validateCachedBranchRows never throws.                         *)
Linked(b) ==
  \A m \in b.members :
    LET earlier == {k \in b.members : rows.seqOf[k] < rows.seqOf[m]} IN
    IF rows.parentOf[m] = Null THEN earlier = {}
    ELSE /\ rows.parentOf[m] \in earlier
         /\ \A k \in earlier : rows.seqOf[k] <= rows.seqOf[rows.parentOf[m]]

(* After any appends, moves of lanes, repairs and deletions every entry is  *)
(* in the cache and every branch of the cache is linked.                    *)
CacheFaithful ==
  /\ \A i \in Entries(rows) : \E b \in cache : i \in b.members
  /\ \A b \in cache : b.members \subseteq Entries(rows) /\ Linked(b)

(* A fork that succeeds while others write can be used: its lanes point at  *)
(* entries it copied, and some branch of its cache leads to each of them.   *)
(* The exception is a source that was deleted between two of the reads.     *)
ForkResolves ==
  fork.pc = "done" /\ deletes = fork.of =>
    /\ \A l \in Lanes : fork.leafs[l] \in fork.entries \cup {Null, Missing}
    /\ fork.leafs[Main] # Missing
    /\ \A i \in fork.entries : \E t \in fork.tips : i \in RootPath(rows, t)

=============================================================================
