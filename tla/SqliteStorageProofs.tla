------------------------- MODULE SqliteStorageProofs -------------------------
(***************************************************************************)
(* Proofs about the SQLite backend, for any number of processes, claims,   *)
(* writes, expiries, deletions, repairs and forks: the writer leases fence,*)
(* the branch cache follows the entries, and a fork that succeeds resolves. *)
(***************************************************************************)
EXTENDS SqliteStorage, SessionStateProofs

-----------------------------------------------------------------------------
(* Owners are numbered in the order they claim.  Nobody who wrote claimed  *)
(* after the owner in the lease row, so that one may write next.           *)

LeaseType ==
  /\ claims \in 0..MaxClaims
  /\ leaseRow \in [owner : 0..MaxClaims, fence : 0..MaxClaims, expired : BOOLEAN]
  /\ storages \subseteq Storage
  /\ authors \in Seq(Owners)

Claimed ==
  /\ leaseRow.owner <= claims /\ leaseRow.fence <= claims
  /\ \A s \in storages : s.owner <= claims
  /\ \A i \in 1..Len(authors) : authors[i] <= claims

LastOwner ==
  leaseRow.owner # 0 => \A i \in 1..Len(authors) : authors[i] <= leaseRow.owner

LeaseInv == LeaseType /\ Claimed /\ LastOwner /\ OwnersDoNotInterleave

leaseVars == <<claims, leaseRow, storages, authors>>

LEMMA LeaseFrame == LeaseInv /\ UNCHANGED leaseVars => LeaseInv'
  BY DEF LeaseInv, LeaseType, Claimed, LastOwner, OwnersDoNotInterleave, leaseVars

(* A claim makes the newest owner the one in the row.                      *)
LEMMA ClaimOwner ==
  ASSUME LeaseInv, NEW p \in Processes, Claim(p)
  PROVE  /\ claims' = claims + 1 /\ claims' \in 0..MaxClaims
         /\ leaseRow' \in [owner : 0..MaxClaims, fence : 0..MaxClaims, expired : BOOLEAN]
         /\ leaseRow'.owner = claims' /\ leaseRow'.fence <= claims'
         /\ storages' \subseteq Storage
         /\ \A s \in storages' : s.owner <= claims'
<1>1. MaxClaims \in Nat
  BY SqlBoundsAssumption
<1>2. claims' = claims + 1 /\ claims' \in 0..MaxClaims /\ claims + 1 \in Owners
  BY <1>1 DEF Claim, LeaseInv, LeaseType, Owners
<1>3. leaseRow.fence \in 0..MaxClaims /\ leaseRow.fence <= claims
  BY DEF LeaseInv, LeaseType, Claimed
<1>4. NextFence \in Owners /\ NextFence <= claims'
  BY <1>1, <1>2, <1>3 DEF NextFence, Owners, LeaseInv, LeaseType
<1>5. [process |-> p, owner |-> claims + 1, fence |-> NextFence, error |-> FALSE]
        \in Storage
  BY <1>2, <1>4 DEF Storage
<1>6. \A s \in storages : s.owner \in Nat /\ s.owner <= claims
  BY <1>1 DEF LeaseInv, LeaseType, Claimed, Storage, Owners
<1>7. storages' \subseteq Storage
  BY <1>5 DEF Claim, LeaseInv, LeaseType
<1>8. \A s \in storages' : s.owner <= claims'
  BY <1>2, <1>6 DEF Claim, LeaseInv, LeaseType
<1>9. leaseRow' = [owner |-> claims + 1, fence |-> NextFence, expired |-> FALSE]
  BY DEF Claim
<1>10. claims + 1 \in 0..MaxClaims /\ NextFence \in 0..MaxClaims
  BY <1>1, <1>2, <1>4 DEF Owners
<1> QED
  BY <1>2, <1>4, <1>7, <1>8, <1>9, <1>10

(* CreateSession: its writer is the only author so far.                    *)
LEMMA CreateKeepsLease ==
  ASSUME LeaseInv, NEW p \in Processes, CreateSession(p)
  PROVE  LeaseInv'
<1>1. Claim(p) /\ authors' = <<claims + 1>>
  BY DEF CreateSession
<1>2. claims + 1 \in Owners /\ claims \in Nat
  BY <1>1, ClaimOwner, SqlBoundsAssumption DEF Owners, LeaseInv, LeaseType
<1>3. authors' \in Seq(Owners) /\ Len(authors') = 1 /\ authors'[1] = claims + 1
  BY <1>1, <1>2
<1>4. \A i \in 1..Len(authors') : authors'[i] = claims'
  BY <1>1, <1>3, ClaimOwner
<1>5. claims' \in Nat
  BY <1>1, <1>2, ClaimOwner
<1>6. LeaseType'
  BY <1>1, <1>3, ClaimOwner DEF LeaseType
<1>7. Claimed'
  <2>1. /\ leaseRow'.owner <= claims' /\ leaseRow'.fence <= claims'
        /\ \A s \in storages' : s.owner <= claims'
    BY <1>1, <1>5, ClaimOwner
  <2>2. \A i \in 1..Len(authors') : authors'[i] <= claims'
    BY <1>4, <1>5
  <2> QED
    BY <2>1, <2>2 DEF Claimed
<1>8. LastOwner' /\ OwnersDoNotInterleave'
  BY <1>1, <1>4, <1>5, ClaimOwner DEF LastOwner, OwnersDoNotInterleave
<1> QED
  BY <1>6, <1>7, <1>8 DEF LeaseInv

LEMMA OpenKeepsLease ==
  ASSUME LeaseInv, NEW p \in Processes, OpenSession(p)
  PROVE  LeaseInv'
<1>1. Claim(p) /\ authors' = authors
  BY DEF OpenSession
<1>2. claims \in Nat /\ \A i \in 1..Len(authors) : authors[i] \in Nat /\ authors[i] <= claims
  BY SqlBoundsAssumption DEF LeaseInv, LeaseType, Claimed, Owners
<1>3. LeaseType'
  BY <1>1, ClaimOwner DEF LeaseInv, LeaseType
<1>4. claims' = claims + 1 /\ leaseRow'.owner = claims'
  BY <1>1, ClaimOwner
<1>5. \A i \in 1..Len(authors') : authors'[i] <= claims'
  BY <1>1, <1>2, <1>4
<1>6. Claimed'
  <2>1. /\ leaseRow'.owner <= claims' /\ leaseRow'.fence <= claims'
        /\ \A s \in storages' : s.owner <= claims'
    BY <1>1, <1>2, <1>4, ClaimOwner
  <2> QED
    BY <2>1, <1>5 DEF Claimed
<1>7. LastOwner'
  BY <1>4, <1>5 DEF LastOwner
<1> QED
  BY <1>1, <1>3, <1>6, <1>7 DEF LeaseInv, OwnersDoNotInterleave

(* A write whose renewal went through is one of the owner in the row.      *)
LEMMA WriteKeepsLease ==
  ASSUME LeaseInv, NEW s \in storages, NEW r \in SqlCommands, Write(s, r)
  PROVE  LeaseInv'
<1>1. /\ leaseRow.owner = s.owner
      /\ authors' = Append(authors, s.owner)
      /\ claims' = claims /\ leaseRow' = leaseRow /\ storages' = storages
  BY DEF Write, Renews, Holds
<1>2. s.owner \in Owners /\ s.owner <= claims /\ s.owner # 0 /\ authors \in Seq(Owners)
  BY DEF LeaseInv, LeaseType, Claimed, Storage, Owners
<1>3. \A i \in 1..Len(authors) : authors[i] \in Owners /\ authors[i] <= s.owner
  BY <1>1, <1>2 DEF LeaseInv, LastOwner
<1>4. /\ authors' \in Seq(Owners) /\ Len(authors') = Len(authors) + 1
      /\ \A i \in 1..Len(authors) : authors'[i] = authors[i]
      /\ authors'[Len(authors) + 1] = s.owner
  BY <1>1, <1>2
<1>5. \A i \in 1..Len(authors') : authors'[i] <= s.owner
  BY <1>2, <1>3, <1>4 DEF Owners
<1>6. \A i \in 1..Len(authors') : authors'[i] \in Owners
  BY <1>4
<1>7. \A i \in 1..Len(authors') : authors'[i] <= claims
  BY <1>2, <1>5, <1>6, SqlBoundsAssumption DEF Owners, LeaseInv, LeaseType
<1>8. OwnersDoNotInterleave'
  <2> SUFFICES ASSUME NEW i \in 1..Len(authors'), NEW j \in 1..Len(authors'), i <= j
               PROVE  authors'[i] <= authors'[j]
    BY DEF OwnersDoNotInterleave
  <2>1. CASE j = Len(authors) + 1
    BY <2>1, <1>4, <1>5
  <2>2. CASE j # Len(authors) + 1
    <3>1. i \in 1..Len(authors) /\ j \in 1..Len(authors)
      BY <2>2, <1>2, <1>4
    <3> QED
      BY <3>1, <1>4 DEF LeaseInv, OwnersDoNotInterleave
  <2> QED
    BY <2>1, <2>2
<1>9. LeaseType' /\ Claimed'
  BY <1>1, <1>4, <1>7 DEF LeaseInv, LeaseType, Claimed
<1>10. LastOwner'
  BY <1>1, <1>5 DEF LastOwner
<1> QED
  BY <1>8, <1>9, <1>10 DEF LeaseInv

(* Whatever else happens to a lease leaves the row or clears it, and marks *)
(* a storage or drops it.                                                  *)
LEMMA OtherKeepsLease ==
  ASSUME LeaseInv, claims' = claims, authors' \in {authors, <<>>},
         storages' \subseteq Storage, \A s \in storages' : s.owner <= claims,
         leaseRow' \in {leaseRow, NoLeaseRow, [leaseRow EXCEPT !.expired = TRUE]}
  PROVE  LeaseInv'
<1>1. /\ leaseRow' \in [owner : 0..MaxClaims, fence : 0..MaxClaims, expired : BOOLEAN]
      /\ leaseRow'.owner <= claims /\ leaseRow'.fence <= claims
      /\ leaseRow'.owner # 0 => leaseRow'.owner = leaseRow.owner
  <2>1. /\ leaseRow \in [owner : 0..MaxClaims, fence : 0..MaxClaims, expired : BOOLEAN]
        /\ leaseRow.owner <= claims /\ leaseRow.fence <= claims
        /\ claims \in 0..MaxClaims /\ MaxClaims \in Nat
    BY SqlBoundsAssumption DEF LeaseInv, LeaseType, Claimed
  <2>2. CASE leaseRow' = leaseRow
    BY <2>1, <2>2
  <2>3. CASE leaseRow' = NoLeaseRow
    BY <2>1, <2>3 DEF NoLeaseRow
  <2>4. CASE leaseRow' = [leaseRow EXCEPT !.expired = TRUE]
    BY <2>1, <2>4
  <2> QED
    BY <2>2, <2>3, <2>4
<1>2. CASE authors' = authors
  BY <1>1, <1>2 DEF LeaseInv, LeaseType, Claimed, LastOwner, OwnersDoNotInterleave
<1>3. CASE authors' = <<>>
  BY <1>1, <1>3 DEF LeaseInv, LeaseType, Claimed, LastOwner, OwnersDoNotInterleave
<1> QED
  BY <1>2, <1>3

LEMMA LeaseStep == LeaseInv /\ [SqlNext]_sqlVars => LeaseInv'
<1> SUFFICES ASSUME LeaseInv, [SqlNext]_sqlVars PROVE LeaseInv'
  OBVIOUS
<1>0. storages \subseteq Storage /\ \A s \in storages : s.owner <= claims
  BY DEF LeaseInv, LeaseType, Claimed
<1>1. ASSUME NEW s \in storages, NEW r \in SqlCommands, Write(s, r) PROVE LeaseInv'
  BY <1>1, WriteKeepsLease
<1>2. ASSUME NEW s \in storages, LoseLease(s) PROVE LeaseInv'
  <2>1. [s EXCEPT !.error = TRUE] \in Storage /\ [s EXCEPT !.error = TRUE].owner = s.owner
    BY <1>0 DEF Storage
  <2> QED
    BY <1>0, <1>2, <2>1, OtherKeepsLease DEF LoseLease, FailedLease
<1>3. ASSUME NEW s \in storages, ReleaseStorage(s) PROVE LeaseInv'
  BY <1>0, <1>3, OtherKeepsLease DEF ReleaseStorage
<1>4. ASSUME NEW s \in storages, CrashStorage(s) PROVE LeaseInv'
  BY <1>0, <1>4, OtherKeepsLease DEF CrashStorage
<1>5. CASE Expire
  BY <1>0, <1>5, OtherKeepsLease DEF Expire
<1>6. ASSUME NEW p \in Processes, CreateSession(p) PROVE LeaseInv'
  BY <1>6, CreateKeepsLease
<1>7. ASSUME NEW p \in Processes, OpenSession(p) PROVE LeaseInv'
  BY <1>7, OpenKeepsLease
<1>8. ASSUME NEW p \in Processes, DeleteSession(p) PROVE LeaseInv'
  BY <1>0, <1>8, OtherKeepsLease DEF DeleteSession
<1>9. ASSUME NEW p \in Processes, RepairBranchCache(p) PROVE LeaseInv'
  BY <1>0, <1>9, OtherKeepsLease DEF RepairBranchCache
<1>10. CASE \/ ForkReadsEntries \/ ForkReadsLanes \/ ForkReadsTips \/ ForkReadsTarget
            \/ ForkReadsBranch \/ ForkReadsPath \/ ForkReadsFacts \/ ForkCommit
  BY <1>10, LeaseFrame
     DEF ForkReadsEntries, ForkReadsLanes, ForkReadsTips, ForkReadsTarget,
         ForkReadsBranch, ForkReadsPath, ForkReadsFacts, ForkCommit, ReadRest, leaseVars
<1>11. CASE UNCHANGED sqlVars
  BY <1>11, LeaseFrame DEF sqlVars, leaseVars
<1> QED
  BY <1>1, <1>2, <1>3, <1>4, <1>5, <1>6, <1>7, <1>8, <1>9, <1>10, <1>11 DEF SqlNext

LEMMA InitLease == SqlInit => LeaseInv
  BY SqlBoundsAssumption
     DEF SqlInit, LeaseInv, LeaseType, Claimed, LastOwner, OwnersDoNotInterleave,
         NoLeaseRow, Owners

(* A session is written by one owner after the other: renewWriterLease in   *)
(* the transaction of a write keeps out everyone whose lease was taken over,*)
(* however many processes there are and however often leases expire.       *)
THEOREM OwnersNeverInterleave == SqlSpec => []OwnersDoNotInterleave
<1>1. LeaseInv => OwnersDoNotInterleave
  BY DEF LeaseInv
<1> QED
  BY <1>1, InitLease, LeaseStep, PTL DEF SqlSpec

-----------------------------------------------------------------------------
(* The path of an entry.  What RootPath computes exists for any parents:   *)
(* the least set that holds the entry and the parent of each of its members.*)

Closed(s, S) == \A m \in S : s.parentOf[m] # Null => s.parentOf[m] \in S

LeastClosed(s, k) ==
  {m \in Ids : \A S \in SUBSET Ids : k \in S /\ Closed(s, S) => m \in S}

LEMMA LeastClosedEquation ==
  ASSUME NEW s \in State, NEW k \in Ids
  PROVE  LeastClosed(s, k) = IF s.parentOf[k] = Null THEN {k}
                             ELSE {k} \cup LeastClosed(s, s.parentOf[k])
<1>0. s.parentOf \in [Ids -> Ids \cup {Null}]
  BY DEF State
<1>1. CASE s.parentOf[k] = Null
  <2>1. {k} \in SUBSET Ids /\ Closed(s, {k})
    BY <1>1 DEF Closed
  <2> QED
    BY <1>1, <2>1 DEF LeastClosed
<1>2. CASE s.parentOf[k] # Null
  <2> DEFINE p == s.parentOf[k]
             S == {k} \cup LeastClosed(s, p)
  <2>1. p \in Ids /\ LeastClosed(s, p) \subseteq Ids /\ p \in LeastClosed(s, p)
    BY <1>0, <1>2 DEF LeastClosed
  <2>2. S \in SUBSET Ids
    BY <2>1
  <2>3. Closed(s, LeastClosed(s, p))
    BY <1>0 DEF LeastClosed, Closed
  <2>4. Closed(s, S)
    BY <2>1, <2>3 DEF Closed
  <2>5. LeastClosed(s, k) \subseteq S
    BY <2>2, <2>4 DEF LeastClosed
  <2>6. \A T \in SUBSET Ids : k \in T /\ Closed(s, T) => p \in T
    BY <1>2 DEF Closed
  <2>7. S \subseteq LeastClosed(s, k)
    BY <2>6 DEF LeastClosed
  <2> QED
    BY <1>2, <2>5, <2>7
<1> QED
  BY <1>1, <1>2

LEMMA RootPathEquation ==
  ASSUME NEW s \in State, NEW i \in Ids
  PROVE  RootPath(s, i) = IF s.parentOf[i] = Null THEN {i}
                          ELSE {i} \cup RootPath(s, s.parentOf[i])
<1> DEFINE Step(path) == [k \in Ids |-> IF s.parentOf[k] = Null THEN {k}
                                        ELSE {k} \cup path[s.parentOf[k]]]
           least == [k \in Ids |-> LeastClosed(s, k)]
           chosen == CHOOSE path : path = Step(path)
<1>0. s.parentOf \in [Ids -> Ids \cup {Null}]
  BY DEF State
<1>1. least = Step(least)
  <2>1. ASSUME NEW k \in Ids PROVE least[k] = Step(least)[k]
    <3>1. CASE s.parentOf[k] = Null
      BY <3>1, LeastClosedEquation
    <3>2. CASE s.parentOf[k] # Null
      <4>1. s.parentOf[k] \in Ids
        BY <1>0, <3>2
      <4> QED
        BY <3>2, <4>1, LeastClosedEquation
    <3> QED
      BY <3>1, <3>2
  <2> QED
    BY <2>1
<1>2. \E path : path = Step(path)
  BY <1>1
<1>3. chosen = Step(chosen)
  BY <1>2
<1>4. \A k : RootPath(s, k) = chosen[k]
  BY DEF RootPath
<1> HIDE DEF chosen
<1>5. chosen[i] = IF s.parentOf[i] = Null THEN {i} ELSE {i} \cup chosen[s.parentOf[i]]
  BY <1>3
<1> QED
  BY <1>4, <1>5

(* What holds of an entry if it holds of every earlier one holds of all.   *)
LEMMA EarliestEntry ==
  ASSUME NEW s \in State, NEW T \in SUBSET Entries(s), T # {}
  PROVE  \E i \in T : \A j \in Entries(s) : s.seqOf[j] < s.seqOf[i] => j \notin T
<1>1. \A i \in Entries(s) : s.seqOf[i] \in Nat
  BY DEF Entries, State
<1> DEFINE N == {s.seqOf[i] : i \in T}
<1>2. N \in SUBSET Nat /\ N # {}
  BY <1>1
<1>3. PICK m \in N : \A n \in N : m <= n
  BY <1>2, LeastNumber
<1>4. PICK i \in T : s.seqOf[i] = m
  OBVIOUS
<1>5. \A j \in T : s.seqOf[i] <= s.seqOf[j]
  BY <1>3, <1>4
<1> QED
  BY <1>1, <1>5

LEMMA LatestEntry ==
  ASSUME NEW s \in State, TreeSound(s), NEW T \in SUBSET Entries(s), T # {}
  PROVE  \E i \in T : \A j \in T : s.seqOf[j] <= s.seqOf[i]
<1>1. \A i \in Entries(s) : s.seqOf[i] \in Nat /\ s.seqOf[i] <= s.sequence
  BY DEF Entries, State, TreeSound
<1>2. s.sequence \in Nat
  BY DEF State
<1> DEFINE N == {s.sequence - s.seqOf[i] : i \in T}
<1>3. N \in SUBSET Nat /\ N # {}
  BY <1>1, <1>2
<1>4. PICK m \in N : \A n \in N : m <= n
  BY <1>3, LeastNumber
<1>5. PICK i \in T : s.sequence - s.seqOf[i] = m
  OBVIOUS
<1>6. \A j \in T : s.sequence - s.seqOf[i] <= s.sequence - s.seqOf[j]
  BY <1>4, <1>5
<1> QED
  BY <1>1, <1>2, <1>6

-----------------------------------------------------------------------------
(* Chains of a state: sets of entries in which each is the child of the one *)
(* before it, as Linked says of a branch of the cache.                      *)

Before(s, M, m) == {k \in M : s.seqOf[k] < s.seqOf[m]}

UpTo(s, M, m) == {k \in M : s.seqOf[k] <= s.seqOf[m]}

ChainAt(s, M, m) ==
  IF s.parentOf[m] = Null THEN Before(s, M, m) = {}
  ELSE /\ s.parentOf[m] \in Before(s, M, m)
       /\ \A k \in Before(s, M, m) : s.seqOf[k] <= s.seqOf[s.parentOf[m]]

Chain(s, M) == M \subseteq Entries(s) /\ \A m \in M : ChainAt(s, M, m)

Topped(s, M, t) == t \in M /\ \A m \in M : s.seqOf[m] <= s.seqOf[t]

LEMMA EntryFacts ==
  ASSUME NEW s \in State, Sound(s)
  PROVE  /\ Entries(s) \subseteq Ids
         /\ \A i \in Entries(s) :
              /\ s.seqOf[i] \in Nat
              /\ s.parentOf[i] # Null => /\ s.parentOf[i] \in Entries(s)
                                         /\ s.seqOf[s.parentOf[i]] < s.seqOf[i]
              /\ \A j \in Entries(s) : s.seqOf[i] = s.seqOf[j] => i = j
         /\ Null \notin Entries(s)
<1>1. Entries(s) \subseteq Ids /\ \A i \in Entries(s) : s.seqOf[i] \in Nat
  BY DEF Entries, State
<1>2. \A i, j \in Entries(s) : s.seqOf[i] = s.seqOf[j] => i = j
  BY DEF Sound, IdsSound
<1>3. \A i \in Entries(s) :
        s.parentOf[i] # Null => /\ s.parentOf[i] \in Entries(s)
                                /\ s.seqOf[s.parentOf[i]] < s.seqOf[i]
  BY DEF Sound, TreeSound
<1> QED
  BY <1>1, <1>2, <1>3, NullAssumption

(* What a chain holds up to one of its entries is the path of that entry.  *)
LEMMA ChainPath ==
  ASSUME NEW s \in State, Sound(s), NEW M, Chain(s, M), NEW i \in M
  PROVE  UpTo(s, M, i) = RootPath(s, i)
<1> DEFINE T == {m \in M : UpTo(s, M, m) # RootPath(s, m)}
<1>1. SUFFICES ASSUME T # {} PROVE FALSE
  OBVIOUS
<1>2. M \subseteq Entries(s) /\ \A m \in M : ChainAt(s, M, m)
  BY DEF Chain
<1>3. PICK m \in T : \A j \in Entries(s) : s.seqOf[j] < s.seqOf[m] => j \notin T
  <2>1. T \in SUBSET Entries(s)
    BY <1>2
  <2> HIDE DEF T
  <2> QED
    BY <1>1, <2>1, EarliestEntry
<1>4. m \in M /\ m \in Ids /\ UpTo(s, M, m) # RootPath(s, m) /\ ChainAt(s, M, m)
  BY <1>2, <1>3, EntryFacts
<1>5. UpTo(s, M, m) = {m} \cup Before(s, M, m)
  <2>1. \A k \in M : s.seqOf[k] \in Nat /\ (s.seqOf[k] = s.seqOf[m] => k = m)
    BY <1>2, <1>4, EntryFacts
  <2>2. \A k \in M : s.seqOf[k] <= s.seqOf[m] <=> s.seqOf[k] < s.seqOf[m] \/ k = m
    BY <1>4, <2>1
  <2> QED
    BY <1>4, <2>2 DEF UpTo, Before
<1>6. CASE s.parentOf[m] = Null
  BY <1>4, <1>5, <1>6, RootPathEquation DEF ChainAt
<1>7. CASE s.parentOf[m] # Null
  <2> DEFINE p == s.parentOf[m]
  <2>1. p \in Before(s, M, m) /\ \A k \in Before(s, M, m) : s.seqOf[k] <= s.seqOf[p]
    BY <1>4, <1>7 DEF ChainAt
  <2>2. p \in M /\ s.seqOf[p] < s.seqOf[m] /\ p \in Entries(s)
    BY <1>2, <2>1 DEF Before
  <2>3. Before(s, M, m) = UpTo(s, M, p)
    <3>1. \A k \in M : s.seqOf[k] \in Nat
      BY <1>2, EntryFacts
    <3> QED
      BY <1>4, <2>1, <2>2, <3>1 DEF Before, UpTo
  <2>4. UpTo(s, M, p) = RootPath(s, p)
    BY <1>3, <2>2
  <2>5. RootPath(s, m) = {m} \cup RootPath(s, p)
    BY <1>4, <1>7, RootPathEquation
  <2> QED
    BY <1>4, <1>5, <2>3, <2>4, <2>5
<1> QED
  BY <1>6, <1>7

LEMMA PathIsChain ==
  ASSUME NEW s \in State, Sound(s), NEW i \in Entries(s)
  PROVE  Chain(s, RootPath(s, i)) /\ Topped(s, RootPath(s, i), i)
<1> DEFINE Good(k) == Chain(s, RootPath(s, k)) /\ Topped(s, RootPath(s, k), k)
           T == {k \in Entries(s) : ~Good(k)}
<1>1. SUFFICES ASSUME T # {} PROVE FALSE
  OBVIOUS
<1>2. PICK m \in T : \A j \in Entries(s) : s.seqOf[j] < s.seqOf[m] => j \notin T
  <2>1. T \in SUBSET Entries(s)
    OBVIOUS
  <2> HIDE DEF T
  <2> QED
    BY <1>1, <2>1, EarliestEntry
<1>3. m \in Entries(s) /\ m \in Ids /\ ~Good(m) /\ s.seqOf[m] \in Nat
  BY <1>2, EntryFacts
<1>4. CASE s.parentOf[m] = Null
  <2>1. RootPath(s, m) = {m}
    BY <1>3, <1>4, RootPathEquation
  <2>2. Before(s, {m}, m) = {}
    BY <1>3 DEF Before
  <2> QED
    BY <1>3, <1>4, <2>1, <2>2 DEF Chain, ChainAt, Topped
<1>5. CASE s.parentOf[m] # Null
  <2> DEFINE p == s.parentOf[m]
             P == RootPath(s, p)
             M == {m} \cup P
  <2>1. p \in Entries(s) /\ s.seqOf[p] < s.seqOf[m] /\ s.seqOf[p] \in Nat
    BY <1>3, <1>5, EntryFacts
  <2>2. Chain(s, P) /\ Topped(s, P, p)
    BY <1>2, <2>1
  <2>3. RootPath(s, m) = M
    BY <1>3, <1>5, RootPathEquation
  <2>4. /\ P \subseteq Entries(s) /\ p \in P
        /\ \A k \in P : ChainAt(s, P, k) /\ s.seqOf[k] <= s.seqOf[p] /\ s.seqOf[k] \in Nat
    BY <2>2, EntryFacts DEF Chain, Topped
  <2> HIDE DEF P
  <2>5. \A k \in P : s.seqOf[k] < s.seqOf[m] /\ ~(s.seqOf[m] < s.seqOf[k])
    BY <1>3, <2>1, <2>4
  <2>6. \A k \in P : Before(s, M, k) = Before(s, P, k)
    BY <2>5 DEF Before
  <2>7. Before(s, M, m) = P
    BY <1>3, <2>5 DEF Before
  <2>8. \A k \in P : ChainAt(s, M, k)
    BY <2>4, <2>6 DEF ChainAt
  <2>9. ChainAt(s, M, m)
    BY <1>5, <2>4, <2>7 DEF ChainAt
  <2>10. Chain(s, M)
    BY <1>3, <2>4, <2>8, <2>9 DEF Chain
  <2>11. Topped(s, M, m)
    BY <1>3, <2>5, <2>4 DEF Topped
  <2> QED
    BY <1>3, <2>3, <2>10, <2>11
<1> QED
  BY <1>4, <1>5

(* An entry on a path has its own path on it.                              *)
LEMMA PathOfMember ==
  ASSUME NEW s \in State, Sound(s), NEW i \in Entries(s), NEW m \in RootPath(s, i)
  PROVE  /\ m \in Entries(s) /\ m \in RootPath(s, m)
         /\ RootPath(s, m) = UpTo(s, RootPath(s, i), m)
<1>1. Chain(s, RootPath(s, i)) /\ m \in Entries(s)
  BY PathIsChain DEF Chain
<1> QED
  BY <1>1, ChainPath, PathIsChain DEF Topped

(* Up to an entry, a chain is a chain that ends there.                     *)
LEMMA UpToIsChain ==
  ASSUME NEW s \in State, Sound(s), NEW M, Chain(s, M), NEW i \in M
  PROVE  Chain(s, UpTo(s, M, i)) /\ Topped(s, UpTo(s, M, i), i)
<1>1. i \in Entries(s)
  BY DEF Chain
<1> QED
  BY <1>1, ChainPath, PathIsChain

(* A chain with its last entry is the path of that entry.                  *)
LEMMA ToppedPath ==
  ASSUME NEW s \in State, Sound(s), NEW M, Chain(s, M), NEW t, Topped(s, M, t)
  PROVE  M = RootPath(s, t)
<1>1. UpTo(s, M, t) = M
  BY DEF UpTo, Topped
<1> QED
  BY <1>1, ChainPath DEF Topped

-----------------------------------------------------------------------------
(* How the rows grow: what was there stays, what is new is newer.          *)

Grows(s, t) ==
  /\ Entries(s) \subseteq Entries(t)
  /\ \A i \in Entries(s) : t.seqOf[i] = s.seqOf[i] /\ t.parentOf[i] = s.parentOf[i]
  /\ \A i \in Entries(t) \ Entries(s) : \A j \in Entries(s) : t.seqOf[j] < t.seqOf[i]

LEMMA GrowthKeepsPath ==
  ASSUME NEW s \in State, Sound(s), NEW t \in State, Grows(s, t), NEW i \in Entries(s)
  PROVE  RootPath(t, i) = RootPath(s, i)
<1> DEFINE T == {k \in Entries(s) : RootPath(t, k) # RootPath(s, k)}
<1>1. SUFFICES ASSUME T # {} PROVE FALSE
  OBVIOUS
<1>2. PICK m \in T : \A j \in Entries(s) : s.seqOf[j] < s.seqOf[m] => j \notin T
  <2>1. T \in SUBSET Entries(s)
    OBVIOUS
  <2> HIDE DEF T
  <2> QED
    BY <1>1, <2>1, EarliestEntry
<1>3. m \in Entries(s) /\ m \in Ids /\ t.parentOf[m] = s.parentOf[m]
  BY <1>2, EntryFacts DEF Grows
<1>4. CASE s.parentOf[m] = Null
  BY <1>2, <1>3, <1>4, RootPathEquation
<1>5. CASE s.parentOf[m] # Null
  <2>1. s.parentOf[m] \in Entries(s) /\ s.seqOf[s.parentOf[m]] < s.seqOf[m]
    BY <1>3, <1>5, EntryFacts
  <2>2. RootPath(t, s.parentOf[m]) = RootPath(s, s.parentOf[m])
    BY <1>2, <2>1
  <2>3. RootPath(s, m) = {m} \cup RootPath(s, s.parentOf[m])
    BY <1>3, <1>5, RootPathEquation
  <2>4. RootPath(t, m) = {m} \cup RootPath(t, t.parentOf[m])
    BY <1>3, <1>5, RootPathEquation
  <2> QED
    BY <1>2, <1>3, <2>2, <2>3, <2>4
<1> QED
  BY <1>4, <1>5

LEMMA GrowthKeepsChain ==
  ASSUME NEW s \in State, NEW t \in State, Grows(s, t), NEW M, Chain(s, M)
  PROVE  /\ Chain(t, M)
         /\ \A i : Topped(s, M, i) => Topped(t, M, i)
<1>1. /\ M \subseteq Entries(s) /\ M \subseteq Entries(t)
      /\ \A m \in M : t.seqOf[m] = s.seqOf[m] /\ t.parentOf[m] = s.parentOf[m]
  BY DEF Chain, Grows
<1>2. \A m \in M : Before(t, M, m) = Before(s, M, m)
  BY <1>1 DEF Before
<1>3. \A m \in M : ChainAt(t, M, m)
  <2> SUFFICES ASSUME NEW m \in M PROVE ChainAt(t, M, m)
    OBVIOUS
  <2>1. ChainAt(s, M, m) /\ Before(t, M, m) = Before(s, M, m) /\ Before(s, M, m) \subseteq M
    BY <1>2 DEF Chain, Before
  <2> QED
    BY <1>1, <2>1 DEF ChainAt
<1>4. \A i : Topped(s, M, i) => Topped(t, M, i)
  BY <1>1 DEF Topped
<1> QED
  BY <1>1, <1>3, <1>4 DEF Chain

(* A new entry lengthens a chain that ends at its parent.                  *)
LEMMA ChainGrows ==
  ASSUME NEW s \in State, NEW t \in State, Grows(s, t), Sound(s), Sound(t),
         NEW M, Chain(s, M), NEW p, Topped(s, M, p),
         NEW i \in Entries(t) \ Entries(s), t.parentOf[i] = p
  PROVE  Chain(t, M \cup {i}) /\ Topped(t, M \cup {i}, i)
<1>1. Chain(t, M) /\ Topped(t, M, p) /\ M \subseteq Entries(s)
  BY GrowthKeepsChain DEF Chain
<1>2. /\ t.seqOf[i] \in Nat
      /\ \A m \in M : m \in Entries(t) /\ t.seqOf[m] \in Nat /\ t.seqOf[m] < t.seqOf[i]
                      /\ ~(t.seqOf[i] < t.seqOf[m])
  <2>1. \A m \in Entries(t) : t.seqOf[m] \in Nat
    BY EntryFacts
  <2>2. \A m \in M : m \in Entries(t) /\ t.seqOf[m] < t.seqOf[i]
    BY <1>1 DEF Grows
  <2> QED
    BY <2>1, <2>2
<1> DEFINE N == M \cup {i}
<1>3. Before(t, N, i) = M /\ \A m \in M : Before(t, N, m) = Before(t, M, m)
  BY <1>2 DEF Before
<1>4. p \in M /\ p # Null
  BY <1>1, EntryFacts DEF Topped
<1>5. ChainAt(t, N, i)
  BY <1>1, <1>3, <1>4 DEF ChainAt, Topped
<1>6. \A m \in M : ChainAt(t, N, m)
  BY <1>1, <1>3 DEF Chain, ChainAt
<1>7. Chain(t, N)
  BY <1>2, <1>5, <1>6 DEF Chain
<1>8. Topped(t, N, i)
  BY <1>2 DEF Topped
<1> QED
  BY <1>7, <1>8

(* What a request that was accepted does to the rows.                      *)
LEMMA AppliedGrows ==
  ASSUME NEW s \in State, Sound(s), NEW r \in Requests, Accepts(s, r)
  PROVE  LET m == MutationOf(s, r)
             t == Apply(s, m)
         IN  /\ Grows(s, t)
             /\ m.kind = "entry" =>
                  /\ m.id \in Ids \ Entries(s) /\ Entries(t) = Entries(s) \cup {m.id}
                  /\ t.parentOf[m.id] = m.ref /\ m.ref \in Entries(s) \cup {Null}
             /\ m.kind # "entry" => Entries(t) = Entries(s)
             /\ s.lanes[Main] # Missing => t.lanes[Main] # Missing
<1> DEFINE m == MutationOf(s, r)
           t == Apply(s, m)
<1>1. /\ m.seq = s.sequence + 1 /\ s.sequence \in Nat
      /\ s.seqOf \in [Ids -> Nat] /\ s.parentOf \in [Ids -> Ids \cup {Null}]
      /\ s.lanes \in [Lanes -> Ids \cup {Null, Missing}] /\ Main \in Lanes
  BY MutationOfFields, LanesAssumption DEF State
<1>2. m \in Mutation /\ Valid(s, m)
  BY MutationOfType, AcceptedValid DEF Sound
<1>3. m.ref \in Ids \cup {Null} /\ m.ref # Missing
  BY <1>2, NullAssumption DEF Mutation
<1>4. CASE r.op = "appendEntry"
  <2>1. m.kind = "entry" /\ m.id \in Ids /\ t = ApplyEntry(s, m) /\ m.id # Missing
    BY <1>4, MutationOfFields, RequestFields, NullAssumption DEF Apply
  <2>2. m.id \notin Entries(s) /\ m.ref \in Entries(s) \cup {Null}
    BY <1>2, <2>1 DEF Valid, ValidEntry, Sound, IdsSound
  <2>3. /\ t.seqOf = [s.seqOf EXCEPT ![m.id] = s.sequence + 1]
        /\ t.parentOf = [s.parentOf EXCEPT ![m.id] = m.ref]
        /\ t.lanes[Main] \in {s.lanes[Main], m.id}
    BY <1>1, <2>1 DEF ApplyEntry, State
  <2>4. /\ t.seqOf[m.id] = s.sequence + 1 /\ t.parentOf[m.id] = m.ref
        /\ \A i \in Ids \ {m.id} : t.seqOf[i] = s.seqOf[i] /\ t.parentOf[i] = s.parentOf[i]
    BY <1>1, <2>1, <2>3
  <2>5. Entries(t) = Entries(s) \cup {m.id}
    BY <1>1, <2>1, <2>4 DEF Entries
  <2>6. \A i \in Entries(s) : i \in Ids \ {m.id} /\ s.seqOf[i] <= s.sequence /\ s.seqOf[i] \in Nat
    BY <1>1, <2>2 DEF Entries, Sound, TreeSound
  <2>7. \A i \in Entries(s) : t.seqOf[i] < t.seqOf[m.id]
    BY <1>1, <2>4, <2>6
  <2>8. Grows(s, t)
    BY <2>4, <2>5, <2>6, <2>7 DEF Grows
  <2> HIDE DEF m, t
  <2> QED
    BY <2>1, <2>2, <2>3, <2>4, <2>5, <2>8 DEF m, t
<1>5. CASE r.op # "appendEntry"
  <2>1. m.kind \in {"record", "lane", "name", "label"}
    BY <1>5, MutationOfFields, RequestFields
  <2>2. t.seqOf = s.seqOf /\ t.parentOf = s.parentOf /\ t.lanes[Main] \in {s.lanes[Main], m.ref}
    <3>1. CASE m.kind = "record"
      <4>1. t = ApplyRecord(s, m)
        BY <3>1 DEF Apply
      <4> HIDE DEF m, t
      <4> QED
        BY <4>1 DEF ApplyRecord, State
    <3>2. CASE m.kind = "lane"
      <4>1. t = ApplyLane(s, m)
        BY <3>2 DEF Apply
      <4> HIDE DEF m, t
      <4> QED
        BY <1>1, <4>1 DEF ApplyLane, State
    <3>3. CASE m.kind = "name"
      <4>1. t = ApplyName(s, m)
        BY <3>3 DEF Apply
      <4> HIDE DEF m, t
      <4> QED
        BY <4>1 DEF ApplyName, State
    <3>4. CASE m.kind = "label"
      <4>1. t = ApplyLabel(s, m)
        BY <3>4 DEF Apply
      <4> HIDE DEF m, t
      <4> QED
        BY <4>1 DEF ApplyLabel, State
    <3> QED
      BY <2>1, <3>1, <3>2, <3>3, <3>4
  <2>3. Entries(t) = Entries(s)
    BY <2>2 DEF Entries
  <2>4. Grows(s, t)
    BY <2>2, <2>3 DEF Grows
  <2> HIDE DEF m, t
  <2> QED
    BY <1>3, <2>1, <2>2, <2>3, <2>4 DEF m, t
<1> QED
  BY <1>4, <1>5

-----------------------------------------------------------------------------
(* The cache: its branches are chains that end at their tip, and reach     *)
(* every entry.                                                            *)

Branches(s, C) ==
  /\ C \subseteq CachedBranch
  /\ \A b \in C : Chain(s, b.members) /\ Topped(s, b.members, b.tip)
  /\ \A i \in Entries(s) : \E b \in C : i \in b.members

CacheInv == rows \in State /\ Sound(rows) /\ Branches(rows, cache)

LEMMA CacheInvFaithful == CacheInv => CacheFaithful
<1> SUFFICES ASSUME CacheInv PROVE CacheFaithful
  OBVIOUS
<1>1. \A b \in cache : b.members \subseteq Entries(rows) /\ \A m \in b.members : ChainAt(rows, b.members, m)
  BY DEF CacheInv, Branches, Chain
<1>2. \A b \in cache : Linked(b)
  BY <1>1 DEF Linked, ChainAt, Before
<1>3. \A i \in Entries(rows) : \E b \in cache : i \in b.members
  BY DEF CacheInv, Branches
<1> QED
  BY <1>1, <1>2, <1>3 DEF CacheFaithful

LEMMA GrowthKeepsBranches ==
  ASSUME NEW s \in State, NEW t \in State, Grows(s, t), Entries(t) = Entries(s),
         NEW C, Branches(s, C)
  PROVE  Branches(t, C)
  BY GrowthKeepsChain DEF Branches

LEMMA AppendKeepsBranches ==
  ASSUME rows \in State, Sound(rows), Branches(rows, cache), rows' \in State, Sound(rows'),
         NEW i \in Ids \ Entries(rows), NEW p \in Entries(rows) \cup {Null},
         Grows(rows, rows'), Entries(rows') = Entries(rows) \cup {i},
         rows'.parentOf[i] = p, AppendToCache(i, p)
  PROVE  Branches(rows', cache')
<1>1. /\ Entries(rows) \subseteq Ids /\ Null \notin Entries(rows)
      /\ \A k \in Entries(rows') : rows'.seqOf[k] \in Nat
  BY EntryFacts
<1>2. /\ cache \subseteq CachedBranch
      /\ \A b \in cache : /\ Chain(rows, b.members) /\ Topped(rows, b.members, b.tip)
                          /\ Chain(rows', b.members) /\ Topped(rows', b.members, b.tip)
                          /\ b.members \subseteq Entries(rows)
      /\ \A k \in Entries(rows) : \E b \in cache : k \in b.members
  BY GrowthKeepsChain DEF Branches, Chain
<1>3. ASSUME NEW b \in CachedBranch, b.tip = i, i \in b.members,
             Chain(rows', b.members), Topped(rows', b.members, i),
             NEW gone \in SUBSET cache, cache' = (cache \ gone) \cup {b},
             \A g \in gone : g.members \subseteq b.members
      PROVE  Branches(rows', cache')
  <2>1. cache' \subseteq CachedBranch
    BY <1>2, <1>3
  <2>2. \A c \in cache' : Chain(rows', c.members) /\ Topped(rows', c.members, c.tip)
    BY <1>2, <1>3
  <2>3. \A k \in Entries(rows') : \E c \in cache' : k \in c.members
    BY <1>2, <1>3
  <2> QED
    BY <2>1, <2>2, <2>3 DEF Branches
<1>4. ASSUME NEW M, Chain(rows, M), Topped(rows, M, p), p # Null,
             NEW gone \in SUBSET cache, \A g \in gone : g.members \subseteq M,
             cache' = (cache \ gone) \cup {[tip |-> i, members |-> M \cup {i}]}
      PROVE  Branches(rows', cache')
  <2> DEFINE b == [tip |-> i, members |-> M \cup {i}]
  <2>1. Chain(rows', M \cup {i}) /\ Topped(rows', M \cup {i}, i)
    BY <1>4, ChainGrows
  <2>2. b \in CachedBranch /\ b.tip = i /\ b.members = M \cup {i}
    BY <1>1, <1>4 DEF CachedBranch, Chain
  <2>3. \A g \in gone : g.members \subseteq b.members
    BY <1>4
  <2> HIDE DEF b
  <2> QED
    BY <1>3, <1>4, <2>1, <2>2, <2>3 DEF b
<1>5. CASE /\ p = Null
           /\ cache' = cache \cup {[tip |-> i, members |-> {i}]}
  <2> DEFINE b == [tip |-> i, members |-> {i}]
  <2>1. b \in CachedBranch /\ b.tip = i /\ b.members = {i}
    BY DEF CachedBranch
  <2>2. Chain(rows', {i}) /\ Topped(rows', {i}, i)
    <3>1. Before(rows', {i}, i) = {}
      BY <1>1 DEF Before
    <3>2. ChainAt(rows', {i}, i)
      BY <1>5, <3>1 DEF ChainAt
    <3> QED
      BY <1>1, <3>2 DEF Chain, Topped
  <2>3. cache' = (cache \ {}) \cup {b}
    BY <1>5
  <2>4. {} \in SUBSET cache /\ \A g \in {} : g.members \subseteq b.members
    OBVIOUS
  <2> HIDE DEF b
  <2> QED
    BY ONLY <1>3, <2>1, <2>2, <2>3, <2>4
<1>6. ASSUME NEW b \in cache, b.tip = p,
             cache' = (cache \ {b}) \cup {[tip |-> i, members |-> b.members \cup {i}]}
      PROVE  Branches(rows', cache')
  <2>1. Chain(rows, b.members) /\ Topped(rows, b.members, p)
    BY <1>2, <1>6
  <2>2. p # Null
    BY <1>1, <2>1 DEF Chain, Topped
  <2>3. {b} \in SUBSET cache /\ \A g \in {b} : g.members \subseteq b.members
    OBVIOUS
  <2> QED
    BY ONLY <1>4, <1>6, <2>1, <2>2, <2>3
<1>7. ASSUME NEW b \in cache, p \in b.members,
             cache' = cache \cup
               {[tip |-> i, members |-> CopyThroughSeq(b, p) \cup {i}]}
      PROVE  Branches(rows', cache')
  <2>1. CopyThroughSeq(b, p) = UpTo(rows, b.members, p)
    BY DEF CopyThroughSeq, UpTo
  <2>2. Chain(rows, UpTo(rows, b.members, p)) /\ Topped(rows, UpTo(rows, b.members, p), p)
    BY <1>2, <1>7, UpToIsChain
  <2>3. p # Null
    BY <1>1, <1>2, <1>7
  <2>4. cache' = (cache \ {}) \cup
                   {[tip |-> i, members |-> UpTo(rows, b.members, p) \cup {i}]}
    BY <1>7, <2>1
  <2>5. {} \in SUBSET cache /\ \A g \in {} : g.members \subseteq UpTo(rows, b.members, p)
    OBVIOUS
  <2> QED
    BY ONLY <1>4, <2>2, <2>3, <2>4, <2>5
<1> QED
  BY <1>5, <1>6, <1>7 DEF AppendToCache

(* A rebuilt cache: every entry is on the path of a leaf.                  *)
LEMMA RebuiltBranches ==
  ASSUME NEW s \in State, Sound(s)
  PROVE  Branches(s, Rebuilt(s))
<1>1. Leaves(s) \subseteq Entries(s) /\ Entries(s) \subseteq Ids
  BY EntryFacts DEF Leaves
<1>2. \A i \in Entries(s) : /\ Chain(s, RootPath(s, i)) /\ Topped(s, RootPath(s, i), i)
                            /\ RootPath(s, i) \subseteq Ids
  BY <1>1, PathIsChain DEF Chain
<1>3. Rebuilt(s) \subseteq CachedBranch
  BY <1>1, <1>2 DEF Rebuilt, CachedBranch
<1>4. \A b \in Rebuilt(s) : Chain(s, b.members) /\ Topped(s, b.members, b.tip)
  <2> SUFFICES ASSUME NEW i \in Leaves(s)
               PROVE  LET b == [tip |-> i, members |-> RootPath(s, i)]
                      IN  Chain(s, b.members) /\ Topped(s, b.members, b.tip)
    BY DEF Rebuilt
  <2> QED
    BY <1>1, <1>2
<1>5. ASSUME NEW i \in Entries(s)
      PROVE  \E b \in Rebuilt(s) : i \in b.members
  <2> DEFINE T == {k \in Entries(s) : i \in RootPath(s, k)}
  <2>1. T \in SUBSET Entries(s) /\ i \in T
    BY <1>2 DEF Topped
  <2>2. \E k \in T : \A j \in T : s.seqOf[j] <= s.seqOf[k]
    <3> HIDE DEF T
    <3> QED
      BY <2>1, LatestEntry DEF Sound
  <2>3. PICK k \in T : \A j \in T : s.seqOf[j] <= s.seqOf[k]
    BY <2>2
  <2>4. ASSUME NEW c \in Entries(s), s.parentOf[c] = k
        PROVE  FALSE
    <3>1. k # Null /\ s.seqOf[k] < s.seqOf[c] /\ s.seqOf[k] \in Nat /\ s.seqOf[c] \in Nat
      BY <2>3, <2>4, EntryFacts
    <3>2. RootPath(s, c) = {c} \cup RootPath(s, k)
      BY <1>1, <2>4, <3>1, RootPathEquation
    <3>3. c \in T
      BY <2>3, <3>2
    <3> QED
      BY <2>3, <3>1, <3>3
  <2>5. k \in Leaves(s)
    BY <2>3, <2>4 DEF Leaves
  <2>6. [tip |-> k, members |-> RootPath(s, k)] \in Rebuilt(s)
    BY <2>5 DEF Rebuilt
  <2> QED
    BY <2>3, <2>6
<1> QED
  BY <1>3, <1>4, <1>5 DEF Branches

LEMMA WriteKeepsCache ==
  ASSUME CacheInv, NEW s \in storages, NEW r \in SqlCommands, Write(s, r)
  PROVE  /\ CacheInv' /\ Grows(rows, rows')
         /\ rows.lanes[Main] # Missing => rows'.lanes[Main] # Missing
<1> DEFINE m == MutationOf(rows, r)
<1>1. r \in Requests /\ rows \in State /\ Sound(rows) /\ Accepts(rows, r)
      /\ rows' = Apply(rows, m) /\ Branches(rows, cache)
      /\ IF m.kind = "entry" THEN AppendToCache(m.id, m.ref) ELSE UNCHANGED cache
  BY SqlCommandsAssumption DEF CacheInv, Write
<1>2. rows' \in State /\ Sound(rows')
  BY <1>1, PerformedSound
<1>3. /\ Grows(rows, rows')
      /\ m.kind = "entry" =>
           /\ m.id \in Ids \ Entries(rows) /\ Entries(rows') = Entries(rows) \cup {m.id}
           /\ rows'.parentOf[m.id] = m.ref /\ m.ref \in Entries(rows) \cup {Null}
      /\ m.kind # "entry" => Entries(rows') = Entries(rows)
      /\ rows.lanes[Main] # Missing => rows'.lanes[Main] # Missing
  BY <1>1, AppliedGrows
<1> HIDE DEF m
<1>4. CASE m.kind = "entry"
  <2>1. /\ AppendToCache(m.id, m.ref) /\ m.id \in Ids \ Entries(rows)
        /\ m.ref \in Entries(rows) \cup {Null} /\ rows'.parentOf[m.id] = m.ref
        /\ Entries(rows') = Entries(rows) \cup {m.id}
    BY <1>1, <1>3, <1>4
  <2>2. Branches(rows', cache')
    BY <1>1, <1>2, <1>3, <2>1, AppendKeepsBranches
  <2> QED
    BY <1>2, <1>3, <2>2 DEF CacheInv
<1>5. CASE m.kind # "entry"
  <2>1. cache' = cache /\ Entries(rows') = Entries(rows)
    BY <1>1, <1>3, <1>5
  <2>2. Branches(rows', cache)
    BY <1>1, <1>2, <1>3, <2>1, GrowthKeepsBranches
  <2> QED
    BY <1>2, <1>3, <2>1, <2>2 DEF CacheInv
<1> QED
  BY <1>4, <1>5

LEMMA NoBranches == Branches(EmptyState, {}) /\ EmptyState \in State /\ Sound(EmptyState)
                    /\ EmptyState.lanes[Main] # Missing
<1>1. Entries(EmptyState) = {}
  BY DEF Entries, EmptyState
<1> QED
  BY <1>1, EmptyStateType, LanesAssumption, NullAssumption DEF Branches, EmptyState

LEMMA CacheStep ==
  ASSUME CacheInv, rows.lanes[Main] # Missing, [SqlNext]_sqlVars
  PROVE  CacheInv' /\ rows'.lanes[Main] # Missing
<1>1. CASE UNCHANGED <<rows, cache>>
  BY <1>1 DEF CacheInv
<1>2. CASE rows' = EmptyState /\ cache' = {}
  BY <1>2, NoBranches DEF CacheInv
<1>3. ASSUME NEW s \in storages, NEW r \in SqlCommands, Write(s, r)
      PROVE  CacheInv' /\ rows'.lanes[Main] # Missing
  BY <1>3, WriteKeepsCache
<1>4. ASSUME NEW p \in Processes, RepairBranchCache(p)
      PROVE  CacheInv' /\ rows'.lanes[Main] # Missing
  <2>1. rows' = rows /\ cache' = Rebuilt(rows)
    BY <1>4 DEF RepairBranchCache
  <2>2. Branches(rows, Rebuilt(rows))
    BY RebuiltBranches DEF CacheInv
  <2> QED
    BY <2>1, <2>2 DEF CacheInv
<1>5. ASSUME NEW s \in storages, LoseLease(s) \/ ReleaseStorage(s) \/ CrashStorage(s)
      PROVE  UNCHANGED <<rows, cache>>
  BY <1>5 DEF LoseLease, ReleaseStorage, CrashStorage, sessionVars
<1>6. ASSUME NEW p \in Processes, CreateSession(p) \/ DeleteSession(p)
      PROVE  rows' = EmptyState /\ cache' = {}
  BY <1>6 DEF CreateSession, DeleteSession
<1>7. ASSUME NEW p \in Processes, OpenSession(p) PROVE UNCHANGED <<rows, cache>>
  BY <1>7 DEF OpenSession, sessionVars
<1>8. CASE \/ Expire \/ UNCHANGED sqlVars
           \/ ForkReadsEntries \/ ForkReadsLanes \/ ForkReadsTips \/ ForkReadsTarget
           \/ ForkReadsBranch \/ ForkReadsPath \/ ForkReadsFacts \/ ForkCommit
  <2>1. UNCHANGED <<rows, cache>>
    BY <1>8 DEF Expire, sqlVars, sessionVars, ReadRest, ForkReadsEntries, ForkReadsLanes,
                ForkReadsTips, ForkReadsTarget, ForkReadsBranch, ForkReadsPath,
                ForkReadsFacts, ForkCommit
  <2> QED
    BY <1>1, <2>1
<1> QED
  BY <1>1, <1>2, <1>3, <1>4, <1>5, <1>6, <1>7, <1>8 DEF SqlNext

-----------------------------------------------------------------------------
(* A fork under way, as long as its source was not deleted: what it has    *)
(* read so far, compared with the rows, which have only grown since.       *)

ForkType ==
  fork \in [pc : ForkStages, scope : {"tree", "branch"}, of : 0..MaxDeletes,
            cached : 0..MaxRepairs, entries : SUBSET Ids,
            leafs : [Lanes -> Ids \cup {Null, Missing}], tips : SUBSET Ids,
            labels : SUBSET Ids]

(* The entries of a tree were all those up to some sequence.               *)
ReadUpTo ==
  /\ fork.entries \subseteq Entries(rows)
  /\ \A j \in fork.entries : \A i \in Entries(rows) :
       rows.seqOf[i] <= rows.seqOf[j] => i \in fork.entries

LeafsThere ==
  /\ \A l \in Lanes : fork.leafs[l] \in Entries(rows) \cup {Null, Missing}
  /\ fork.leafs[Main] # Missing

(* The tips reach every entry, and a leaf that was not copied has a tip    *)
(* that was not copied, for which the commit fails.                        *)
TipsReach ==
  /\ fork.tips \subseteq Entries(rows)
  /\ \A i \in fork.entries : \E t \in fork.tips : i \in RootPath(rows, t)

TipsTell ==
  \A l \in Lanes : fork.leafs[l] \notin fork.entries \cup {Null, Missing} =>
    \E t \in fork.tips : t \notin fork.entries

ForkOnBranch ==
  /\ fork.leafs[Main] \in Entries(rows)
  /\ \A l \in Lanes : l # Main => fork.leafs[l] = Missing
  /\ fork.tips = {fork.leafs[Main]}

ForkRead ==
  /\ fork.pc \in {"lanes", "tips"} => ReadUpTo
  /\ fork.pc \in {"tips", "facts", "commit", "done"} => LeafsThere
  /\ fork.pc \in {"branch", "path"} => ForkOnBranch
  /\ fork.pc = "path" => fork.entries = RootPath(rows, fork.leafs[Main])
  /\ fork.pc \in {"facts", "commit", "done"} => TipsReach /\ TipsTell
  /\ fork.pc = "done" => fork.tips \subseteq fork.entries

ForkInv ==
  /\ ForkType
  /\ fork.of <= deletes
  /\ fork.pc = "none" => fork = NoFork
  /\ fork.pc # "none" /\ fork.of = deletes => exists /\ ForkRead

CountersOK == exists \in BOOLEAN /\ deletes \in 0..MaxDeletes /\ repairs \in 0..MaxRepairs

LEMMA ForkInvResolves ==
  ASSUME ForkInv
  PROVE  ForkResolves
<1> SUFFICES ASSUME fork.pc = "done", deletes = fork.of
             PROVE  /\ \A l \in Lanes : fork.leafs[l] \in fork.entries \cup {Null, Missing}
                    /\ fork.leafs[Main] # Missing
                    /\ \A i \in fork.entries : \E t \in fork.tips : i \in RootPath(rows, t)
  BY DEF ForkResolves
<1>1. LeafsThere /\ TipsReach /\ TipsTell /\ fork.tips \subseteq fork.entries
  BY DEF ForkInv, ForkRead
<1> QED
  BY <1>1 DEF LeafsThere, TipsReach, TipsTell

LEMMA GrowthKeepsFork ==
  ASSUME ForkInv, rows \in State, Sound(rows), rows' \in State, Grows(rows, rows'),
         fork' = fork, deletes' = deletes, exists' = exists
  PROVE  ForkInv'
<1>1. /\ Entries(rows) \subseteq Entries(rows')
      /\ \A i \in Entries(rows) : rows'.seqOf[i] = rows.seqOf[i]
      /\ \A i \in Entries(rows') \ Entries(rows) : \A j \in Entries(rows) :
           rows'.seqOf[j] < rows'.seqOf[i]
  BY DEF Grows
<1>2. \A i \in Entries(rows') : rows'.seqOf[i] \in Nat
  BY DEF Entries, State
<1>3. \A i \in Entries(rows) : RootPath(rows', i) = RootPath(rows, i)
  BY GrowthKeepsPath
<1>4. ReadUpTo => ReadUpTo'
  <2> SUFFICES ASSUME ReadUpTo, NEW j \in fork.entries, NEW i \in Entries(rows'),
                      rows'.seqOf[i] <= rows'.seqOf[j]
               PROVE  i \in fork.entries
    BY <1>1 DEF ReadUpTo
  <2>1. j \in Entries(rows)
    BY DEF ReadUpTo
  <2>2. i \in Entries(rows)
    BY <1>1, <1>2, <2>1
  <2> QED
    BY <1>1, <2>1, <2>2 DEF ReadUpTo
<1>5. LeafsThere => LeafsThere'
  BY <1>1 DEF LeafsThere
<1>6. ForkOnBranch => ForkOnBranch' /\ RootPath(rows', fork.leafs[Main]) = RootPath(rows, fork.leafs[Main])
  BY <1>1, <1>3 DEF ForkOnBranch
<1>7. TipsReach /\ TipsTell => TipsReach' /\ TipsTell'
  BY <1>1, <1>3 DEF TipsReach, TipsTell
<1>8. ForkRead => ForkRead'
  BY <1>4, <1>5, <1>6, <1>7 DEF ForkRead
<1>9. ForkType'
  BY DEF ForkInv, ForkType
<1> QED
  BY <1>8, <1>9 DEF ForkInv

(* A source deleted since the fork began lifts every condition on it.      *)
LEMMA SourceGone ==
  ASSUME ForkInv, fork' = fork,
         \/ fork.of < deletes' /\ deletes' \in Nat
         \/ fork.pc = "none" /\ fork.of <= deletes' /\ deletes' \in Nat
  PROVE  ForkInv'
<1>1. fork.of \in Nat
  BY SqlBoundsAssumption DEF ForkInv, ForkType
<1> QED
  BY <1>1 DEF ForkInv, ForkType

(* What the steps of the fork itself leave as it was.                      *)
LEMMA ForkStepFrame ==
  ASSUME UNCHANGED ReadRest
  PROVE  /\ rows' = rows /\ cache' = cache /\ exists' = exists /\ deletes' = deletes
         /\ repairs' = repairs
  BY DEF ReadRest, sessionVars

LEMMA ReadsEntriesStep ==
  ASSUME ForkInv, CacheInv, CountersOK, ForkReadsEntries
  PROVE  ForkInv'
<1>1. /\ rows' = rows /\ deletes' = deletes /\ exists' = exists /\ exists
      /\ fork' = [fork EXCEPT !.pc = "lanes", !.of = deletes, !.entries = Entries(rows)]
  BY ForkStepFrame DEF ForkReadsEntries
<1>2. deletes \in 0..MaxDeletes /\ deletes \in Nat /\ Entries(rows) \in SUBSET Ids
  BY SqlBoundsAssumption, EntryFacts DEF CountersOK, CacheInv
<1>3. /\ ForkType' /\ fork'.pc = "lanes" /\ fork'.of = deletes
      /\ fork'.entries = Entries(rows)
  BY <1>1, <1>2 DEF ForkInv, ForkType, ForkStages
<1>4. ReadUpTo'
  BY <1>1, <1>3 DEF ReadUpTo
<1>5. ForkRead'
  BY <1>3, <1>4 DEF ForkRead
<1> QED
  BY <1>1, <1>2, <1>3, <1>5 DEF ForkInv

LEMMA ReadsLanesStep ==
  ASSUME ForkInv, CacheInv, rows.lanes[Main] # Missing, ForkReadsLanes
  PROVE  ForkInv'
<1>1. /\ rows' = rows /\ deletes' = deletes /\ exists' = exists /\ fork.pc = "lanes"
      /\ fork' = [fork EXCEPT !.pc = "tips", !.leafs =
                    IF exists THEN rows.lanes ELSE [l \in Lanes |-> Missing]]
  BY ForkStepFrame DEF ForkReadsLanes
<1>2. rows.lanes \in [Lanes -> Ids \cup {Null, Missing}]
      /\ \A l \in Lanes : rows.lanes[l] \in Entries(rows) \cup {Null, Missing}
  BY DEF CacheInv, Sound, TreeSound, State
<1>3. (IF exists THEN rows.lanes ELSE [l \in Lanes |-> Missing])
        \in [Lanes -> Ids \cup {Null, Missing}]
  BY <1>2
<1>4. /\ ForkType' /\ fork'.pc = "tips" /\ fork'.of = fork.of
      /\ fork'.entries = fork.entries /\ exists => fork'.leafs = rows.lanes
  BY <1>1, <1>3 DEF ForkInv, ForkType, ForkStages
<1>5. ASSUME fork.of = deletes
      PROVE  exists' /\ ForkRead'
  <2>1. exists /\ ReadUpTo
    BY <1>1, <1>5 DEF ForkInv, ForkRead
  <2>2. ReadUpTo'
    BY <1>1, <1>4, <2>1 DEF ReadUpTo
  <2>3. LeafsThere'
    BY <1>1, <1>2, <1>4, <2>1 DEF LeafsThere
  <2> QED
    BY <1>1, <1>4, <2>1, <2>2, <2>3 DEF ForkRead
<1> QED
  BY <1>1, <1>4, <1>5 DEF ForkInv

LEMMA ReadsTipsStep ==
  ASSUME ForkInv, CacheInv, ForkReadsTips
  PROVE  ForkInv'
<1>1. /\ rows' = rows /\ deletes' = deletes /\ exists' = exists /\ fork.pc = "tips"
      /\ fork' = [fork EXCEPT !.pc = "facts", !.tips = {b.tip : b \in cache}]
  BY ForkStepFrame DEF ForkReadsTips
<1>2. {b.tip : b \in cache} \subseteq Ids
  BY DEF CacheInv, Branches, CachedBranch
<1>3. /\ ForkType' /\ fork'.pc = "facts" /\ fork'.of = fork.of
      /\ fork'.entries = fork.entries /\ fork'.leafs = fork.leafs
      /\ fork'.tips = {b.tip : b \in cache}
  BY <1>1, <1>2 DEF ForkInv, ForkType, ForkStages
<1>4. ASSUME fork.of = deletes
      PROVE  exists' /\ ForkRead'
  <2>1. exists /\ ReadUpTo /\ LeafsThere
    BY <1>1, <1>4 DEF ForkInv, ForkRead
  <2>2. \A b \in cache : /\ b.members \subseteq Entries(rows) /\ b.tip \in Entries(rows)
                         /\ \A m \in b.members : rows.seqOf[m] <= rows.seqOf[b.tip]
                         /\ b.members = RootPath(rows, b.tip)
    BY ToppedPath DEF CacheInv, Branches, Chain, Topped
  <2>3. \A i \in Entries(rows) : \E b \in cache : i \in b.members
    BY DEF CacheInv, Branches
  <2>4. LeafsThere'
    BY <1>1, <1>3, <2>1 DEF LeafsThere
  <2>5. TipsReach'
    <3>1. \A i \in fork.entries : \E t \in {b.tip : b \in cache} : i \in RootPath(rows, t)
      BY <2>1, <2>2, <2>3 DEF ReadUpTo
    <3> QED
      BY <1>1, <1>3, <2>2, <3>1 DEF TipsReach
  <2>6. TipsTell'
    <3> SUFFICES ASSUME NEW l \in Lanes, fork.leafs[l] \notin fork.entries \cup {Null, Missing}
                 PROVE  \E t \in {b.tip : b \in cache} : t \notin fork.entries
      BY <1>3 DEF TipsTell
    <3>1. fork.leafs[l] \in Entries(rows)
      BY <2>1 DEF LeafsThere
    <3>2. PICK b \in cache : fork.leafs[l] \in b.members
      BY <2>3, <3>1
    <3>3. rows.seqOf[fork.leafs[l]] <= rows.seqOf[b.tip]
      BY <2>2, <3>2
    <3>4. b.tip \notin fork.entries
      BY <2>1, <3>1, <3>3 DEF ReadUpTo
    <3> QED
      BY <3>4
  <2> QED
    BY <1>1, <1>3, <2>1, <2>4, <2>5, <2>6 DEF ForkRead
<1> QED
  BY <1>1, <1>3, <1>4 DEF ForkInv

LEMMA ReadsTargetStep ==
  ASSUME ForkInv, CacheInv, CountersOK, ForkReadsTarget
  PROVE  ForkInv'
<1>1. /\ rows' = rows /\ deletes' = deletes /\ exists' = exists /\ exists
      /\ fork = NoFork
  BY ForkStepFrame DEF ForkReadsTarget, ForkInv
<1>2. PICK target \in rows.messages \cup ({rows.lanes[Main]} \cap {Null}) :
        \E at \in {target} \cup (IF target = Null THEN {} ELSE {rows.parentOf[target]}) :
          fork' = [fork EXCEPT !.pc = IF at = Null THEN "facts" ELSE "branch",
                               !.scope = "branch", !.of = deletes,
                               !.leafs = [@ EXCEPT ![Main] = at],
                               !.tips = {at} \ {Null}]
  BY DEF ForkReadsTarget
<1>3. PICK at \in {target} \cup (IF target = Null THEN {} ELSE {rows.parentOf[target]}) :
        fork' = [fork EXCEPT !.pc = IF at = Null THEN "facts" ELSE "branch",
                             !.scope = "branch", !.of = deletes,
                             !.leafs = [@ EXCEPT ![Main] = at],
                             !.tips = {at} \ {Null}]
  BY <1>2
<1>4. at \in Entries(rows) \cup {Null} /\ Entries(rows) \subseteq Ids
  <2>1. rows.messages \subseteq Entries(rows)
    BY DEF CacheInv, Sound, TreeSound
  <2>2. target \in Entries(rows) \cup {Null}
    BY <2>1
  <2>3. \A i \in Entries(rows) : rows.parentOf[i] \in Entries(rows) \cup {Null}
    BY EntryFacts DEF CacheInv
  <2> QED
    BY <2>2, <2>3, EntryFacts DEF CacheInv
<1>5. deletes \in 0..MaxDeletes /\ deletes \in Nat
  BY SqlBoundsAssumption DEF CountersOK
<1>6. /\ NoFork.leafs \in [Lanes -> Ids \cup {Null, Missing}]
      /\ \A l \in Lanes : l # Main => NoFork.leafs[l] = Missing
  BY DEF NoFork, EmptyState
<1>7. ForkType
  BY DEF ForkInv
<1>8. /\ fork'.pc = IF at = Null THEN "facts" ELSE "branch"
      /\ fork'.of = deletes /\ fork'.tips = {at} \ {Null} /\ fork'.entries = {}
      /\ fork'.leafs = [NoFork.leafs EXCEPT ![Main] = at]
  BY <1>1, <1>3 DEF NoFork
<1>9. [NoFork.leafs EXCEPT ![Main] = at] \in [Lanes -> Ids \cup {Null, Missing}]
  BY <1>4, <1>6
<1>10. ForkType'
  BY <1>1, <1>3, <1>4, <1>5, <1>7, <1>9, ZenonT(40) DEF ForkType, ForkStages
<1>11. /\ fork'.leafs[Main] = at
       /\ \A l \in Lanes : l # Main => fork'.leafs[l] = Missing
  BY <1>6, <1>8, LanesAssumption
<1>12. ForkRead'
  <2>1. CASE at = Null
    <3>1. fork'.pc = "facts" /\ fork'.tips = {} /\ fork'.entries = {}
      BY <1>8, <2>1
    <3>2. LeafsThere' /\ TipsReach' /\ TipsTell'
      BY <1>11, <2>1, <3>1, NullAssumption DEF LeafsThere, TipsReach, TipsTell
    <3> QED
      BY <3>1, <3>2 DEF ForkRead
  <2>2. CASE at # Null
    <3>1. fork'.pc = "branch" /\ fork'.tips = {at}
      BY <1>8, <2>2
    <3>2. ForkOnBranch'
      BY <1>1, <1>4, <1>11, <2>2, <3>1 DEF ForkOnBranch
    <3> QED
      BY <3>1, <3>2 DEF ForkRead
  <2> QED
    BY <2>1, <2>2
<1> QED
  BY <1>1, <1>5, <1>8, <1>10, <1>12 DEF ForkInv

LEMMA ReadsBranchStep ==
  ASSUME ForkInv, CacheInv, CountersOK, ForkReadsBranch
  PROVE  ForkInv'
<1>1. /\ rows' = rows /\ deletes' = deletes /\ exists' = exists /\ fork.pc = "branch"
  BY ForkStepFrame DEF ForkReadsBranch
<1>2. CASE fork' = [fork EXCEPT !.pc = "failed"]
  <2>1. ForkType' /\ fork'.pc = "failed" /\ fork'.of = fork.of
    BY <1>2 DEF ForkInv, ForkType, ForkStages
  <2> QED
    BY <1>1, <2>1 DEF ForkInv, ForkRead
<1>3. ASSUME NEW b \in cache, fork.leafs[Main] \in b.members,
             fork' = [fork EXCEPT !.pc = "path", !.cached = repairs,
                                  !.entries = CopyThroughSeq(b, fork.leafs[Main])]
      PROVE  ForkInv'
  <2>1. CopyThroughSeq(b, fork.leafs[Main]) = UpTo(rows, b.members, fork.leafs[Main])
    BY DEF CopyThroughSeq, UpTo
  <2>2. /\ CopyThroughSeq(b, fork.leafs[Main]) \in SUBSET Ids
        /\ CopyThroughSeq(b, fork.leafs[Main]) = RootPath(rows, fork.leafs[Main])
    <3>1. Chain(rows, b.members) /\ b.members \subseteq Ids
      BY DEF CacheInv, Branches, CachedBranch
    <3> QED
      BY <1>3, <2>1, <3>1, ChainPath DEF CacheInv, UpTo
  <2>3. /\ ForkType' /\ fork'.pc = "path" /\ fork'.of = fork.of
        /\ fork'.leafs = fork.leafs /\ fork'.tips = fork.tips
        /\ fork'.entries = RootPath(rows, fork.leafs[Main])
    BY <1>3, <2>2 DEF ForkInv, ForkType, ForkStages, CountersOK
  <2>4. ASSUME fork.of = deletes
        PROVE  exists' /\ ForkRead'
    <3>1. exists /\ ForkOnBranch
      BY <1>1, <2>4 DEF ForkInv, ForkRead
    <3>2. ForkOnBranch'
      BY <1>1, <2>3, <3>1 DEF ForkOnBranch
    <3> QED
      BY <1>1, <2>3, <3>1, <3>2 DEF ForkRead
  <2> QED
    BY <1>1, <2>3, <2>4 DEF ForkInv
<1> QED
  BY <1>2, <1>3 DEF ForkReadsBranch

LEMMA ReadsPathStep ==
  ASSUME ForkInv, CacheInv, ForkReadsPath
  PROVE  ForkInv'
<1>1. /\ rows' = rows /\ deletes' = deletes /\ exists' = exists /\ fork.pc = "path"
      /\ fork' = [fork EXCEPT !.pc = "facts", !.entries =
                    IF repairs = fork.cached /\ deletes = fork.of THEN @ ELSE {}]
  BY ForkStepFrame DEF ForkReadsPath
<1>2. /\ ForkType' /\ fork'.pc = "facts" /\ fork'.of = fork.of
      /\ fork'.leafs = fork.leafs /\ fork'.tips = fork.tips
      /\ fork'.entries \in {fork.entries, {}}
  BY <1>1 DEF ForkInv, ForkType, ForkStages
<1>3. ASSUME fork.of = deletes
      PROVE  exists' /\ ForkRead'
  <2>1. exists /\ ForkOnBranch /\ fork.entries = RootPath(rows, fork.leafs[Main])
    BY <1>1, <1>3 DEF ForkInv, ForkRead
  <2>2. /\ fork.leafs[Main] \in Entries(rows) /\ fork.tips = {fork.leafs[Main]}
        /\ \A l \in Lanes : l # Main => fork.leafs[l] = Missing
        /\ Entries(rows) \subseteq Ids /\ Missing \notin Ids
    BY <2>1, EntryFacts, NullAssumption DEF ForkOnBranch, CacheInv
  <2>3. LeafsThere'
    BY <1>1, <1>2, <2>2 DEF LeafsThere
  <2>4. TipsReach'
    BY <1>1, <1>2, <2>1, <2>2 DEF TipsReach
  <2>5. TipsTell'
    <3> SUFFICES ASSUME NEW l \in Lanes,
                        fork.leafs[l] \notin fork'.entries \cup {Null, Missing}
                 PROVE  \E t \in fork.tips : t \notin fork'.entries
      BY <1>2 DEF TipsTell
    <3>1. l = Main
      BY <2>2
    <3> QED
      BY <2>2, <3>1
  <2> QED
    BY <1>1, <1>2, <2>1, <2>3, <2>4, <2>5 DEF ForkRead
<1> QED
  BY <1>1, <1>2, <1>3 DEF ForkInv

LEMMA ReadsFactsStep ==
  ASSUME ForkInv, CacheInv, ForkReadsFacts
  PROVE  ForkInv'
<1>1. /\ rows' = rows /\ deletes' = deletes /\ exists' = exists /\ fork.pc = "facts"
      /\ fork' = [fork EXCEPT !.pc = "commit", !.labels =
                    IF fork.scope = "tree" THEN rows.labels
                    ELSE rows.labels \cap fork.entries]
  BY ForkStepFrame DEF ForkReadsFacts
<1>2. rows.labels \in SUBSET Ids /\ rows.labels \cap fork.entries \in SUBSET Ids
  BY DEF CacheInv, State
<1>3. /\ ForkType' /\ fork'.pc = "commit" /\ fork'.of = fork.of
      /\ fork'.leafs = fork.leafs /\ fork'.tips = fork.tips
      /\ fork'.entries = fork.entries
  BY <1>1, <1>2 DEF ForkInv, ForkType, ForkStages
<1>4. ASSUME fork.of = deletes
      PROVE  exists' /\ ForkRead'
  <2>1. exists /\ LeafsThere /\ TipsReach /\ TipsTell
    BY <1>1, <1>4 DEF ForkInv, ForkRead
  <2>2. LeafsThere' /\ TipsReach' /\ TipsTell'
    BY <1>1, <1>3, <2>1 DEF LeafsThere, TipsReach, TipsTell
  <2> QED
    BY <1>1, <1>3, <2>1, <2>2 DEF ForkRead
<1> QED
  BY <1>1, <1>3, <1>4 DEF ForkInv

LEMMA CommitStep ==
  ASSUME ForkInv, CacheInv, ForkCommit
  PROVE  ForkInv'
<1>1. /\ rows' = rows /\ deletes' = deletes /\ exists' = exists /\ fork.pc = "commit"
      /\ fork' = [fork EXCEPT !.pc = IF fork.tips \subseteq fork.entries THEN "done"
                                     ELSE "failed"]
  BY ForkStepFrame DEF ForkCommit
<1>2. /\ ForkType' /\ fork'.pc \in {"done", "failed"} /\ fork'.of = fork.of
      /\ fork'.leafs = fork.leafs /\ fork'.tips = fork.tips
      /\ fork'.entries = fork.entries
      /\ fork'.pc = "done" => fork.tips \subseteq fork.entries
  BY <1>1 DEF ForkInv, ForkType, ForkStages
<1>3. ASSUME fork.of = deletes
      PROVE  exists' /\ ForkRead'
  <2>1. exists /\ LeafsThere /\ TipsReach /\ TipsTell
    BY <1>1, <1>3 DEF ForkInv, ForkRead
  <2>2. LeafsThere' /\ TipsReach' /\ TipsTell'
    BY <1>1, <1>2, <2>1 DEF LeafsThere, TipsReach, TipsTell
  <2> QED
    BY <1>1, <1>2, <2>1, <2>2 DEF ForkRead
<1> QED
  BY <1>1, <1>2, <1>3 DEF ForkInv

(* Only the fork itself changes what it has read; of the rest, only a      *)
(* deletion makes the rows lose anything.                                  *)
LEMMA ForkStep ==
  ASSUME CountersOK, CacheInv, rows.lanes[Main] # Missing, ForkInv, [SqlNext]_sqlVars
  PROVE  ForkInv'
<1> DEFINE forks == \/ ForkReadsEntries \/ ForkReadsLanes \/ ForkReadsTips \/ ForkReadsTarget
                    \/ ForkReadsBranch \/ ForkReadsPath \/ ForkReadsFacts \/ ForkCommit
<1>0. deletes \in Nat /\ MaxDeletes \in Nat /\ rows \in State /\ Sound(rows)
      /\ fork.of \in Nat
  BY SqlBoundsAssumption DEF CountersOK, CacheInv, ForkInv, ForkType
<1>1. CASE UNCHANGED <<exists, rows, fork, deletes>>
  BY <1>1 DEF ForkInv, ForkType, ForkRead, ReadUpTo, LeafsThere, ForkOnBranch,
              TipsReach, TipsTell
<1>2. ASSUME NEW s \in storages, NEW r \in SqlCommands, Write(s, r)
      PROVE  ForkInv'
  <2>1. CacheInv' /\ Grows(rows, rows')
    BY <1>2, WriteKeepsCache
  <2>2. fork' = fork /\ deletes' = deletes /\ exists' = exists
    BY <1>2 DEF Write
  <2>3. rows' \in State
    BY <2>1 DEF CacheInv
  <2> QED
    BY ONLY ForkInv, <1>0, <2>1, <2>2, <2>3, GrowthKeepsFork
<1>3. ASSUME NEW s \in storages, LoseLease(s) \/ ReleaseStorage(s) \/ CrashStorage(s)
      PROVE  UNCHANGED <<exists, rows, fork, deletes>>
  BY <1>3 DEF LoseLease, ReleaseStorage, CrashStorage, sessionVars
<1>4. ASSUME NEW p \in Processes, CreateSession(p)
      PROVE  ForkInv'
  <2>1. ~exists /\ fork' = fork /\ deletes' = deletes
    BY <1>4 DEF CreateSession
  <2>2. fork.pc = "none" \/ fork.of < deletes
    BY <1>0, <2>1 DEF ForkInv
  <2>3. fork.of <= deletes
    BY DEF ForkInv
  <2> QED
    BY <1>0, <2>1, <2>2, <2>3, SourceGone
<1>5. ASSUME NEW p \in Processes, DeleteSession(p)
      PROVE  ForkInv'
  <2>1. fork' = fork /\ deletes' = deletes + 1
    BY <1>5 DEF DeleteSession
  <2>2. fork.of < deletes' /\ deletes' \in Nat
    BY <1>0, <2>1 DEF ForkInv
  <2> QED
    BY <2>1, <2>2, SourceGone
<1>6. ASSUME NEW p \in Processes, OpenSession(p) \/ RepairBranchCache(p)
      PROVE  UNCHANGED <<exists, rows, fork, deletes>>
  BY <1>6 DEF OpenSession, RepairBranchCache, sessionVars
<1>7. CASE Expire \/ UNCHANGED sqlVars
  BY <1>1, <1>7 DEF Expire, sqlVars, sessionVars
<1>8. CASE ForkReadsEntries
  BY <1>8, ReadsEntriesStep
<1>9. CASE ForkReadsLanes
  BY <1>9, ReadsLanesStep
<1>10. CASE ForkReadsTips
  BY <1>10, ReadsTipsStep
<1>11. CASE ForkReadsTarget
  BY <1>11, ReadsTargetStep
<1>12. CASE ForkReadsBranch
  BY <1>12, ReadsBranchStep
<1>13. CASE ForkReadsPath
  BY <1>13, ReadsPathStep
<1>14. CASE ForkReadsFacts
  BY <1>14, ReadsFactsStep
<1>15. CASE ForkCommit
  BY <1>15, CommitStep
<1>16. forks => ForkInv'
  BY <1>8, <1>9, <1>10, <1>11, <1>12, <1>13, <1>14, <1>15
<1> HIDE DEF forks
<1>17. \/ Expire \/ UNCHANGED sqlVars \/ forks
       \/ \E s \in storages : \/ \E r \in SqlCommands : Write(s, r)
                             \/ LoseLease(s) \/ ReleaseStorage(s) \/ CrashStorage(s)
       \/ \E p \in Processes : \/ CreateSession(p) \/ OpenSession(p) \/ DeleteSession(p)
                               \/ RepairBranchCache(p)
  BY DEF SqlNext, forks
<1> QED
  BY <1>1, <1>2, <1>3, <1>4, <1>5, <1>6, <1>7, <1>16, <1>17

LEMMA CountersStep == CountersOK /\ [SqlNext]_sqlVars => CountersOK'
<1> SUFFICES ASSUME CountersOK, [SqlNext]_sqlVars PROVE CountersOK'
  OBVIOUS
<1>1. CASE UNCHANGED <<exists, deletes, repairs>>
  BY <1>1 DEF CountersOK
<1>2. ASSUME NEW s \in storages, NEW r \in SqlCommands,
             Write(s, r) \/ LoseLease(s) \/ ReleaseStorage(s) \/ CrashStorage(s)
      PROVE  CountersOK'
  BY <1>1, <1>2 DEF Write, LoseLease, ReleaseStorage, CrashStorage, sessionVars
<1>3. ASSUME NEW s \in storages, LoseLease(s) \/ ReleaseStorage(s) \/ CrashStorage(s)
      PROVE  CountersOK'
  BY <1>1, <1>3 DEF LoseLease, ReleaseStorage, CrashStorage, sessionVars
<1>4. ASSUME NEW p \in Processes, CreateSession(p)
      PROVE  CountersOK'
  BY <1>4 DEF CreateSession, CountersOK
<1>5. ASSUME NEW p \in Processes, OpenSession(p)
      PROVE  CountersOK'
  BY <1>1, <1>5 DEF OpenSession, sessionVars
<1>6. ASSUME NEW p \in Processes, DeleteSession(p)
      PROVE  CountersOK'
  <2>1. exists' = FALSE /\ deletes' = deletes + 1 /\ deletes < MaxDeletes /\ repairs' = repairs
    BY <1>6 DEF DeleteSession
  <2>2. deletes' \in 0..MaxDeletes /\ repairs' \in 0..MaxRepairs
    BY <2>1, SqlBoundsAssumption DEF CountersOK
  <2> QED
    BY <2>1, <2>2 DEF CountersOK
<1>7. ASSUME NEW p \in Processes, RepairBranchCache(p)
      PROVE  CountersOK'
  <2>1. exists' = exists /\ deletes' = deletes /\ repairs < MaxRepairs /\ repairs' = repairs + 1
    BY <1>7 DEF RepairBranchCache
  <2> QED
    BY <2>1, SqlBoundsAssumption DEF CountersOK
<1>8. CASE \/ Expire \/ UNCHANGED sqlVars
           \/ ForkReadsEntries \/ ForkReadsLanes \/ ForkReadsTips \/ ForkReadsTarget
           \/ ForkReadsBranch \/ ForkReadsPath \/ ForkReadsFacts \/ ForkCommit
  <2>1. UNCHANGED <<exists, deletes, repairs>>
    BY <1>8 DEF Expire, sqlVars, sessionVars, ReadRest, ForkReadsEntries, ForkReadsLanes,
                ForkReadsTips, ForkReadsTarget, ForkReadsBranch, ForkReadsPath,
                ForkReadsFacts, ForkCommit
  <2> QED
    BY <1>1, <2>1
<1> QED
  BY <1>2, <1>3, <1>4, <1>5, <1>6, <1>7, <1>8 DEF SqlNext

SqlInv == LeaseInv /\ CountersOK /\ CacheInv /\ rows.lanes[Main] # Missing /\ ForkInv

LEMMA InitSqlInv == SqlInit => SqlInv
<1> SUFFICES ASSUME SqlInit PROVE SqlInv
  OBVIOUS
<1>1. LeaseInv
  BY InitLease
<1>2. CountersOK
  <2>1. deletes \in 0..MaxDeletes /\ repairs \in 0..MaxRepairs
    BY SqlBoundsAssumption DEF SqlInit
  <2> QED
    BY <2>1 DEF SqlInit, CountersOK
<1>3. CacheInv /\ rows.lanes[Main] # Missing
  BY NoBranches DEF SqlInit, CacheInv
<1>4. EmptyState.lanes \in [Lanes -> Ids \cup {Null, Missing}]
  BY DEF EmptyState
<1>5. ForkInv
  BY <1>4, SqlBoundsAssumption DEF SqlInit, ForkInv, ForkType, NoFork, ForkStages
<1> QED
  BY <1>1, <1>2, <1>3, <1>5 DEF SqlInv

LEMMA SqlStep == SqlInv /\ [SqlNext]_sqlVars => SqlInv'
  BY LeaseStep, CountersStep, CacheStep, ForkStep DEF SqlInv

(* Every part of the database and of the fork keeps its type.              *)
THEOREM SqlAlwaysTyped == SqlSpec => []SqlTypeOK
<1>1. SqlInv => SqlTypeOK
  BY DEF SqlInv, LeaseInv, LeaseType, CountersOK, CacheInv, Branches, ForkInv, ForkType,
         SqlTypeOK
<1> QED
  BY <1>1, InitSqlInv, SqlStep, PTL DEF SqlSpec

(* appendEntryToBranchCache and rebuildBranchCache keep every entry of a   *)
(* session on a cached branch, and every branch the path of its tip.       *)
THEOREM CacheAlwaysFaithful == SqlSpec => []CacheFaithful
<1>1. SqlInv => CacheFaithful
  BY CacheInvFaithful DEF SqlInv
<1> QED
  BY <1>1, InitSqlInv, SqlStep, PTL DEF SqlSpec

(* A fork read statement by statement while others write, move lanes,      *)
(* repair and take the lease over is complete or fails.                    *)
THEOREM ForkAlwaysResolves == SqlSpec => []ForkResolves
<1>1. SqlInv => ForkResolves
  BY ForkInvResolves DEF SqlInv
<1> QED
  BY <1>1, InitSqlInv, SqlStep, PTL DEF SqlSpec

=============================================================================
