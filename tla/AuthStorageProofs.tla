------------------------- MODULE AuthStorageProofs -------------------------
(***************************************************************************)
(* Proof that the lock file and the revision of auth.json keep credentials *)
(* sound while nobody steals the lock of a live process, for any number of *)
(* processes, operations, tokens and crashes; and that all files of        *)
(* MCSharedFiles, with the invariants of the modules extended here, keep   *)
(* their types.                                                            *)
(***************************************************************************)
EXTENDS MCSharedFiles, SqliteStorageProofs, SharedFilesProofs

-----------------------------------------------------------------------------
(* Types, without the bounds of the model.                                 *)

AnyCredentials == [token : Nat, other : Nat]

AnyOperation ==
  [kind : {"getAuth", "login", "logout"}, at : OperationStages, data : AnyCredentials,
   token : Nat, latest : AnyCredentials, revision : Nat, compromised : BOOLEAN,
   ok : BOOLEAN]

FileTyped ==
  /\ authFile \in [data : AnyCredentials, revision : Nat \ {0}, parses : BOOLEAN]
  /\ readState \in [AuthProcesses -> [data : AnyCredentials, revision : Nat]]
  /\ applied \in AnyCredentials
  /\ started \in Nat

OperationsTyped ==
  /\ operations \in [Operations -> AnyOperation]
  /\ lockFile \in Operations \cup {NoOperation}

TokensTyped == issued \in Nat /\ valid \subseteq 1..issued /\ due \subseteq 1..issued

AuthTyped == FileTyped /\ OperationsTyped /\ TokensTyped

(* What a process, or an operation that will update it, takes for the       *)
(* content of some revision is that of the file if the revision is.        *)
Believes(data, revision) ==
  revision <= authFile.revision /\ (revision = authFile.revision => data = authFile.data)

RevisionsKnown ==
  /\ \A p \in AuthProcesses : Believes(readState[p].data, readState[p].revision)
  /\ \A o \in Operations : Believes(operations[o].latest, operations[o].revision)

Holding(o) == Requesting(o) \/ operations[o].at = "releasing"

(* Whoever is between taking the lock and releasing it has the lock file,   *)
LockHeld == \A o \in Operations : Holding(o) => lockFile = o

(* what it read is still in the file, and it asks for a token that expires, *)
(* until it has a new one that the provider refreshes.                     *)
RefreshCurrent ==
  \A o \in Operations : Requesting(o) =>
    /\ operations[o].data = authFile.data /\ authFile.data.token \in due
    /\ operations[o].at = "refreshed" => operations[o].token \in valid

TokenKept ==
  "lost" \notin mishaps =>
    /\ "reused" \notin mishaps
    /\ \/ authFile.data.token \in valid \cup {0}
       \/ \E o \in Operations : operations[o].at = "refreshed"

Unstolen ==
  "stolen" \notin mishaps => LockHeld /\ RefreshCurrent /\ TokenKept /\ UpdatesKept

AuthInv == AuthTyped /\ RevisionsKnown /\ Unstolen

LEMMA NoOperationIsNone == NoOperation \notin Operations
  BY OperationsAssumption DEF NoOperation

LEMMA IdleTyped == Idle \in AnyOperation /\ NoCredentials \in AnyCredentials
  BY DEF Idle, AnyOperation, AnyCredentials, NoCredentials, OperationStages

LEMMA AuthInitSound == AuthInit => AuthInv
<1> SUFFICES ASSUME AuthInit PROVE AuthInv
  OBVIOUS
<1>1. AuthTyped
  BY IdleTyped DEF AuthInit, AuthTyped, FileTyped, OperationsTyped, TokensTyped,
                   AnyCredentials, NoCredentials
<1>2. RevisionsKnown
  BY DEF AuthInit, RevisionsKnown, Believes, Idle
<1>3. \A o \in Operations : ~Holding(o) /\ ~Requesting(o)
  BY DEF AuthInit, Holding, Requesting, Idle
<1>4. Unstolen
  BY <1>3 DEF AuthInit, Unstolen, LockHeld, RefreshCurrent, TokenKept, UpdatesKept
<1> QED
  BY <1>1, <1>2, <1>4 DEF AuthInv

-----------------------------------------------------------------------------
(* Facts about one step.                                                   *)

LEMMA BecomesTyped ==
  ASSUME OperationsTyped, NEW o \in Operations, NEW x \in AnyOperation, Becomes(o, x)
  PROVE  /\ operations' \in [Operations -> AnyOperation]
         /\ operations'[o] = x
         /\ \A q \in Operations : q # o => operations'[q] = operations[q]
  BY DEF OperationsTyped, Becomes

(* Only one operation at a time is between taking and releasing the lock,  *)
LEMMA HolderAlone ==
  ASSUME AuthInv, "stolen" \notin mishaps, NEW o \in Operations, Holding(o)
  PROVE  /\ lockFile = o
         /\ \A q \in Operations : q # o => ~Holding(q) /\ ~Requesting(q)
  BY DEF AuthInv, Unstolen, LockHeld, Holding

(* and when the lock is free there is none.                                *)
LEMMA LockableAlone ==
  ASSUME AuthInv, "stolen" \notin mishaps, Lockable
  PROVE  \A q \in Operations : ~Holding(q) /\ ~Requesting(q)
  BY NoOperationIsNone DEF AuthInv, Unstolen, LockHeld, Lockable, Live, Holding

(* Operations that wait for something, and are not in the way of others.   *)
Waits(x) == x.at \notin {"requesting", "refreshed", "releasing"} /\ x.revision = 0

LEMMA IdleWaits == Waits(Idle)
  BY DEF Waits, Idle

LEMMA WaitingIsQuiet ==
  ASSUME AuthInv, NEW o \in Operations, NEW x \in AnyOperation, Becomes(o, x), Waits(x),
         ~Holding(o), started' \in Nat,
         UNCHANGED <<authFile, lockFile, readState, providerVars, applied, mishaps>>
  PROVE  AuthInv'
<1>1. /\ operations' \in [Operations -> AnyOperation]
      /\ operations'[o] = x
      /\ \A q \in Operations : q # o => operations'[q] = operations[q]
  BY BecomesTyped DEF AuthInv, AuthTyped
<1>2. AuthTyped'
  BY <1>1 DEF AuthInv, AuthTyped, FileTyped, OperationsTyped, TokensTyped, providerVars
<1>3. authFile.revision \in Nat \ {0}
  BY DEF AuthInv, AuthTyped, FileTyped
<1>4. RevisionsKnown'
  BY <1>1, <1>3 DEF AuthInv, RevisionsKnown, Believes, Waits
<1>5. \A q \in Operations : (Holding(q)' => Holding(q)) /\ (Requesting(q)' => Requesting(q))
  BY <1>1 DEF Holding, Requesting, Waits
<1>6. \A q \in Operations : Requesting(q)' => operations'[q] = operations[q]
  BY <1>1 DEF Requesting, Waits
<1>7. \A q \in Operations : operations[q].at = "refreshed" => operations'[q].at = "refreshed"
  BY <1>1 DEF Holding, Requesting
<1>8. Unstolen'
  BY <1>5, <1>6, <1>7 DEF AuthInv, Unstolen, LockHeld, RefreshCurrent, TokenKept,
                          UpdatesKept, providerVars
<1> QED
  BY <1>2, <1>4, <1>8 DEF AuthInv

LEMMA StartKeeps ==
  ASSUME AuthInv, NEW o \in Operations, GetAuth(o) \/ Login(o) \/ Logout(o)
  PROVE  AuthInv'
<1>1. PICK kind \in {"getAuth", "login", "logout"},
           stage \in {"idle", "reading", "locking"} : Start(o, kind, stage)
  BY DEF GetAuth, Login, Logout, AfterRead
<1> DEFINE x == [Idle EXCEPT !.kind = kind, !.at = stage]
<1>2. x \in AnyOperation /\ Waits(x)
  BY IdleTyped DEF AnyOperation, Waits, Idle, OperationStages
<1>3. Becomes(o, x) /\ ~Holding(o)
  BY <1>1 DEF Start, Holding, Requesting
<1>4. started' \in Nat
  BY <1>1 DEF Start, AuthInv, AuthTyped, FileTyped
<1>5. UNCHANGED <<authFile, lockFile, readState, providerVars, applied, mishaps>>
  BY <1>1 DEF Start
<1> HIDE DEF x
<1> QED
  BY <1>2, <1>3, <1>4, <1>5, WaitingIsQuiet

LEMMA GiveUpWaitingKeeps ==
  ASSUME AuthInv, NEW o \in Operations, GiveUpWaiting(o)
  PROVE  AuthInv'
<1>1. Becomes(o, Idle) /\ ~Holding(o)
  BY DEF GiveUpWaiting, Holding, Requesting
<1>2. started' \in Nat
  BY DEF GiveUpWaiting, AuthInv, AuthTyped, FileTyped, authHistory
<1>3. UNCHANGED <<authFile, lockFile, readState, providerVars, applied, mishaps>>
  BY DEF GiveUpWaiting, authHistory
<1> QED
  BY <1>1, <1>2, <1>3, WaitingIsQuiet, IdleTyped, IdleWaits

-----------------------------------------------------------------------------
(* Steps of an operation that takes the lock, or has it.                   *)

(* What is common to them: the operation becomes x, the file is the same or *)
(* has a new revision, and nothing in memory changes.                      *)
LEMMA OperationTyped ==
  ASSUME AuthInv, NEW o \in Operations, NEW x \in AnyOperation, Becomes(o, x),
         UNCHANGED <<readState, started>>, applied' \in AnyCredentials,
         lockFile' \in Operations \cup {NoOperation}, TokensTyped',
         \/ authFile' = authFile /\ Believes(x.latest, x.revision)
         \/ /\ authFile' \in [data : AnyCredentials, revision : Nat \ {0}, parses : BOOLEAN]
            /\ authFile'.revision = authFile.revision + 1
            /\ x.revision = 0
  PROVE  AuthTyped' /\ RevisionsKnown'
<1>1. /\ operations' \in [Operations -> AnyOperation]
      /\ operations'[o] = x
      /\ \A q \in Operations : q # o => operations'[q] = operations[q]
  BY BecomesTyped DEF AuthInv, AuthTyped
<1>2. AuthTyped'
  BY <1>1 DEF AuthInv, AuthTyped, FileTyped, OperationsTyped
<1>3. authFile.revision \in Nat \ {0} /\ \A p \in AuthProcesses : readState[p].revision \in Nat
  BY DEF AuthInv, AuthTyped, FileTyped
<1>4. \A q \in Operations : operations[q].revision \in Nat
  BY DEF AuthInv, AuthTyped, OperationsTyped, AnyOperation
<1>5. \A q \in Operations : Believes(operations[q].latest, operations[q].revision)
  BY DEF AuthInv, RevisionsKnown
<1>6. \A p \in AuthProcesses : Believes(readState[p].data, readState[p].revision)
  BY DEF AuthInv, RevisionsKnown
<1>7. CASE authFile' = authFile /\ Believes(x.latest, x.revision)
  BY <1>1, <1>2, <1>5, <1>6, <1>7 DEF RevisionsKnown, Believes
<1>8. CASE authFile'.revision = authFile.revision + 1 /\ x.revision = 0
  <2>1. \A p \in AuthProcesses : readState'[p].revision < authFile'.revision
    BY <1>3, <1>6, <1>8 DEF Believes
  <2>2. \A q \in Operations : operations'[q].revision < authFile'.revision
    BY <1>1, <1>3, <1>4, <1>5, <1>8 DEF Believes
  <2>3. \A q \in Operations : operations'[q].revision \in Nat
    BY <1>1, <1>4, <1>8
  <2> QED
    BY <1>2, <1>3, <1>8, <2>1, <2>2, <2>3 DEF RevisionsKnown, Believes
<1> QED
  BY <1>7, <1>8

(* The states the operation can be in.                                     *)
LEMMA OutcomesTyped ==
  ASSUME AuthInv, NEW data \in AnyCredentials, NEW revision \in Nat
  PROVE  /\ [Idle EXCEPT !.at = "releasing"] \in AnyOperation
         /\ [Idle EXCEPT !.at = "releasing", !.latest = data, !.revision = revision,
                         !.ok = TRUE] \in AnyOperation
  BY IdleTyped DEF Idle, AnyOperation, OperationStages

LEMMA FileKnown ==
  ASSUME AuthInv
  PROVE  /\ authFile.data \in AnyCredentials /\ authFile.revision \in Nat \ {0}
         /\ Believes(authFile.data, authFile.revision)
         /\ Believes(Idle.latest, 0)
  BY DEF AuthInv, AuthTyped, FileTyped, Believes

(* An operation that lets go of what it asked for leaves nobody asking.     *)
LEMMA NobodyAsks ==
  ASSUME AuthInv, NEW o \in Operations, NEW x \in AnyOperation, Becomes(o, x),
         x.at = "releasing", lockFile' = o,
         "stolen" \notin mishaps => \A q \in Operations : q # o => ~Holding(q) /\ ~Requesting(q)
  PROVE  "stolen" \notin mishaps =>
           /\ LockHeld' /\ RefreshCurrent'
           /\ \A q \in Operations : q # o => operations[q].at # "refreshed"
<1>1. /\ operations' \in [Operations -> AnyOperation]
      /\ operations'[o] = x
      /\ \A q \in Operations : q # o => operations'[q] = operations[q]
  BY BecomesTyped DEF AuthInv, AuthTyped
<1>2. "stolen" \notin mishaps => \A q \in Operations : q # o => ~Holding(q)' /\ ~Requesting(q)'
  BY <1>1 DEF Holding, Requesting
<1>3. ~Requesting(o)'
  BY <1>1 DEF Requesting
<1> QED
  BY <1>2, <1>3 DEF LockHeld, RefreshCurrent, Requesting

LEMMA CommitTyped ==
  ASSUME AuthInv, NEW o \in Operations, NEW data \in AnyCredentials, Commit(o, data)
  PROVE  /\ authFile' \in [data : AnyCredentials, revision : Nat \ {0}, parses : BOOLEAN]
         /\ authFile'.revision = authFile.revision + 1 /\ authFile'.data = data
<1>1. authFile \in [data : AnyCredentials, revision : Nat \ {0}, parses : BOOLEAN]
  BY DEF AuthInv, AuthTyped, FileTyped
<1>2. authFile' = [authFile EXCEPT !.data = data, !.revision = authFile.revision + 1]
  BY DEF Commit
<1>3. authFile.revision + 1 \in Nat \ {0}
  BY <1>1
<1> QED
  BY <1>1, <1>2, <1>3

LEMMA CommitsKeep ==
  ASSUME AuthInv, NEW o \in Operations, CommitLogin(o) \/ CommitLogout(o)
  PROVE  AuthInv'
<1>1. PICK data \in AnyCredentials :
        /\ Commit(o, data) /\ Locks(o)
        /\ applied' \in AnyCredentials
        /\ authFile.data = applied => data = applied'
        /\ data.token \in {authFile.data.token, 0}
        /\ UNCHANGED <<readState, providerVars, started, mishaps>>
  <2>1. authFile.data \in AnyCredentials /\ applied \in AnyCredentials /\ started \in Nat
    BY DEF AuthInv, AuthTyped, FileTyped
  <2>2. CASE CommitLogin(o)
    <3> DEFINE d == [authFile.data EXCEPT !.other = started]
    <3>1. /\ d \in AnyCredentials /\ d.token = authFile.data.token
          /\ [applied EXCEPT !.other = started] \in AnyCredentials
      BY <2>1 DEF AnyCredentials
    <3> QED
      BY <2>1, <2>2, <3>1 DEF CommitLogin
  <2>3. CASE CommitLogout(o)
    <3> DEFINE d == [authFile.data EXCEPT !.token = 0]
    <3>1. /\ d \in AnyCredentials /\ d.token = 0
          /\ [applied EXCEPT !.token = 0] \in AnyCredentials
      BY <2>1 DEF AnyCredentials
    <3> QED
      BY <2>1, <2>3, <3>1 DEF CommitLogout
  <2> QED
    BY <2>2, <2>3
<1> DEFINE x == [Idle EXCEPT !.at = "releasing", !.latest = data, !.revision = 0, !.ok = TRUE]
<1>2. x \in AnyOperation /\ x.at = "releasing" /\ x.revision = 0 /\ Becomes(o, x)
  BY <1>1, OutcomesTyped DEF Commit, Succeeds, Idle
<1>3. /\ authFile' \in [data : AnyCredentials, revision : Nat \ {0}, parses : BOOLEAN]
      /\ authFile'.revision = authFile.revision + 1 /\ authFile'.data = data
  BY <1>1, CommitTyped
<1>4. lockFile' = o /\ ("stolen" \notin mishaps =>
                           \A q \in Operations : ~Holding(q) /\ ~Requesting(q))
  BY <1>1, LockableAlone DEF Locks
<1>5. TokensTyped'
  BY <1>1 DEF AuthInv, AuthTyped, TokensTyped, providerVars
<1> HIDE DEF x
<1>6. AuthTyped' /\ RevisionsKnown'
  BY <1>1, <1>2, <1>3, <1>4, <1>5, OperationTyped
<1>7. "stolen" \notin mishaps => LockHeld' /\ RefreshCurrent'
  BY <1>2, <1>4, NobodyAsks
<1>8. Unstolen'
  BY <1>1, <1>3, <1>4, <1>7
     DEF AuthInv, Unstolen, TokenKept, UpdatesKept, Requesting, providerVars
<1> QED
  BY <1>6, <1>8 DEF AuthInv

LEMMA BeginRefreshKeeps ==
  ASSUME AuthInv, NEW o \in Operations, BeginRefresh(o)
  PROVE  AuthInv'
<1>1. lockFile' = o /\ ("stolen" \notin mishaps =>
                           \A q \in Operations : ~Holding(q) /\ ~Requesting(q))
  BY LockableAlone DEF BeginRefresh, Locks
<1>2. /\ UNCHANGED <<authFile, readState, providerVars, authHistory>>
      /\ TokensTyped' /\ applied' \in AnyCredentials
  BY DEF BeginRefresh, AuthInv, AuthTyped, FileTyped, TokensTyped, providerVars, authHistory
<1>3. CASE authFile.data.token \in due
  <2> DEFINE x == [operations[o] EXCEPT !.at = "requesting", !.data = authFile.data]
  <2>1. operations[o] \in AnyOperation
    BY DEF AuthInv, AuthTyped, OperationsTyped
  <2>2. /\ x \in AnyOperation /\ x.at = "requesting" /\ x.data = authFile.data
        /\ x.latest = operations[o].latest /\ x.revision = operations[o].revision
    BY <2>1, FileKnown DEF AnyOperation, OperationStages
  <2>3. Becomes(o, x)
    BY <1>3 DEF BeginRefresh
  <2>4. Believes(x.latest, x.revision)
    BY <2>2 DEF AuthInv, RevisionsKnown
  <2> HIDE DEF x
  <2>5. AuthTyped' /\ RevisionsKnown'
    BY <1>1, <1>2, <2>2, <2>3, <2>4, OperationTyped DEF authHistory
  <2>6. /\ operations'[o] = x
        /\ \A q \in Operations : q # o => operations'[q] = operations[q]
    BY <2>2, <2>3, BecomesTyped DEF AuthInv, AuthTyped
  <2>7. "stolen" \notin mishaps => \A q \in Operations : q # o => ~Holding(q)' /\ ~Requesting(q)'
    BY <1>1, <2>6 DEF Holding, Requesting
  <2>8. "stolen" \notin mishaps => LockHeld' /\ RefreshCurrent'
    BY <1>1, <1>2, <1>3, <2>2, <2>6, <2>7 DEF LockHeld, RefreshCurrent, providerVars
  <2>9. Unstolen'
    BY <1>1, <1>2, <2>8
       DEF AuthInv, Unstolen, TokenKept, UpdatesKept, Requesting, providerVars, authHistory
  <2> QED
    BY <2>5, <2>9 DEF AuthInv
<1>4. CASE authFile.data.token \notin due
  <2> DEFINE x == [Idle EXCEPT !.at = "releasing", !.latest = authFile.data,
                               !.revision = authFile.revision, !.ok = TRUE]
  <2>1. /\ x \in AnyOperation /\ x.at = "releasing"
        /\ Believes(x.latest, x.revision) /\ Becomes(o, x)
    BY <1>4, FileKnown, OutcomesTyped DEF BeginRefresh, Succeeds, Idle
  <2> HIDE DEF x
  <2>2. AuthTyped' /\ RevisionsKnown'
    BY <1>1, <1>2, <2>1, OperationTyped DEF authHistory
  <2>3. "stolen" \notin mishaps => LockHeld' /\ RefreshCurrent'
    BY <1>1, <2>1, NobodyAsks
  <2>4. Unstolen'
    BY <1>1, <1>2, <2>3
       DEF AuthInv, Unstolen, TokenKept, UpdatesKept, Requesting, providerVars, authHistory
  <2> QED
    BY <2>2, <2>4 DEF AuthInv
<1> QED
  BY <1>3, <1>4

LEMMA LockFailsKeeps ==
  ASSUME AuthInv, NEW o \in Operations, LockFails(o)
  PROVE  AuthInv'
<1> DEFINE x == [Idle EXCEPT !.at = "releasing"]
<1>1. /\ x \in AnyOperation /\ x.at = "releasing" /\ x.revision = 0 /\ x.latest = Idle.latest
      /\ Becomes(o, x) /\ Believes(x.latest, x.revision)
  BY FileKnown, OutcomesTyped DEF LockFails, Fails, Idle
<1>2. lockFile' = o /\ ("stolen" \notin mishaps =>
                           \A q \in Operations : ~Holding(q) /\ ~Requesting(q))
  BY LockableAlone DEF LockFails, Locks
<1>3. /\ UNCHANGED <<authFile, readState, providerVars, authHistory>>
      /\ TokensTyped' /\ applied' \in AnyCredentials
  BY DEF LockFails, AuthInv, AuthTyped, FileTyped, TokensTyped, providerVars, authHistory
<1> HIDE DEF x
<1>4. AuthTyped' /\ RevisionsKnown'
  BY <1>1, <1>2, <1>3, OperationTyped DEF authHistory
<1>5. "stolen" \notin mishaps => LockHeld' /\ RefreshCurrent'
  BY <1>1, <1>2, NobodyAsks
<1>6. Unstolen'
  BY <1>2, <1>3, <1>5
     DEF AuthInv, Unstolen, TokenKept, UpdatesKept, Requesting, providerVars, authHistory
<1> QED
  BY <1>4, <1>6 DEF AuthInv

(* What a requesting operation knows.                                      *)
LEMMA Asking ==
  ASSUME AuthInv, "stolen" \notin mishaps, NEW o \in Operations, Requesting(o)
  PROVE  /\ lockFile = o
         /\ \A q \in Operations : q # o => ~Holding(q) /\ ~Requesting(q)
         /\ operations[o].data = authFile.data
         /\ authFile.data.token \in due /\ authFile.data.token # 0
         /\ operations[o].at = "refreshed" => operations[o].token \in valid
<1>1. Holding(o)
  BY DEF Holding
<1>2. authFile.data.token \in due /\ due \subseteq 1..issued /\ issued \in Nat
  BY DEF AuthInv, AuthTyped, TokensTyped, Unstolen, RefreshCurrent
<1> QED
  BY <1>1, <1>2, HolderAlone DEF AuthInv, Unstolen, RefreshCurrent

LEMMA ServerRefreshesKeeps ==
  ASSUME AuthInv, NEW o \in Operations, ServerRefreshes(o)
  PROVE  AuthInv'
<1> DEFINE x == [operations[o] EXCEPT !.at = "refreshed", !.token = issued + 1]
<1>1. issued \in Nat /\ operations[o] \in AnyOperation /\ valid \subseteq 1..issued
      /\ due \subseteq 1..issued
  BY DEF AuthInv, AuthTyped, OperationsTyped, TokensTyped
<1>2. issued + 1 \in Nat
  BY <1>1
<1>3. /\ x \in AnyOperation /\ x.at = "refreshed" /\ x.token = issued + 1
      /\ x.data = operations[o].data
      /\ x.latest = operations[o].latest /\ x.revision = operations[o].revision
  BY <1>1, <1>2 DEF AnyOperation, OperationStages
<1>4. Becomes(o, x) /\ Believes(x.latest, x.revision)
  BY <1>3 DEF ServerRefreshes, AuthInv, RevisionsKnown
<1>5. /\ UNCHANGED <<authFile, lockFile, readState, due, authHistory>>
      /\ lockFile' \in Operations \cup {NoOperation} /\ applied' \in AnyCredentials
  BY DEF ServerRefreshes, AuthInv, AuthTyped, FileTyped, OperationsTyped, authHistory
<1>6. TokensTyped' /\ issued + 1 \in valid'
  BY <1>1 DEF ServerRefreshes, TokensTyped
<1> HIDE DEF x
<1>7. AuthTyped' /\ RevisionsKnown'
  BY <1>3, <1>4, <1>5, <1>6, OperationTyped DEF authHistory
<1>8. /\ operations'[o] = x
      /\ \A q \in Operations : q # o => operations'[q] = operations[q]
  BY <1>3, <1>4, BecomesTyped DEF AuthInv, AuthTyped
<1>9. Requesting(o)
  BY DEF ServerRefreshes, Requesting
<1>10. ASSUME "stolen" \notin mishaps
       PROVE  LockHeld' /\ RefreshCurrent' /\ TokenKept' /\ UpdatesKept'
  <2>1. \A q \in Operations : q # o => ~Holding(q)' /\ ~Requesting(q)'
    BY <1>8, <1>9, <1>10, Asking DEF Holding, Requesting
  <2>2. LockHeld' /\ RefreshCurrent'
    BY <1>3, <1>5, <1>6, <1>8, <1>9, <1>10, <2>1, Asking DEF LockHeld, RefreshCurrent
  <2>3. "lost" \notin mishaps => "reused" \notin mishaps
    BY <1>10 DEF AuthInv, Unstolen, TokenKept
  <2>4. TokenKept'
    BY <1>3, <1>5, <1>8, <2>3 DEF TokenKept, authHistory
  <2>5. UpdatesKept'
    BY <1>5, <1>10 DEF AuthInv, Unstolen, UpdatesKept, authHistory
  <2> QED
    BY <2>2, <2>4, <2>5
<1> QED
  BY <1>5, <1>7, <1>10 DEF AuthInv, Unstolen, authHistory

(* Nothing is stored: the request fails or is refused.                     *)
LEMMA RequestEndsKeeps ==
  ASSUME AuthInv, NEW o \in Operations, ServerRefuses(o) \/ RefreshFails(o)
  PROVE  AuthInv'
<1> DEFINE x == [Idle EXCEPT !.at = "releasing"]
<1>1. /\ x \in AnyOperation /\ x.at = "releasing" /\ x.revision = 0 /\ x.latest = Idle.latest
      /\ Becomes(o, x) /\ Believes(x.latest, x.revision)
  BY FileKnown, OutcomesTyped DEF ServerRefuses, RefreshFails, Fails, Idle
<1>2. Requesting(o)
  BY DEF ServerRefuses, RefreshFails, Requesting
<1>3. /\ UNCHANGED <<authFile, lockFile, readState, providerVars, started, applied>>
      /\ TokensTyped' /\ applied' \in AnyCredentials
      /\ lockFile' \in Operations \cup {NoOperation}
  BY DEF ServerRefuses, RefreshFails, AuthInv, AuthTyped, FileTyped, OperationsTyped,
         TokensTyped, providerVars
<1> HIDE DEF x
<1>4. AuthTyped' /\ RevisionsKnown'
  BY <1>1, <1>3, OperationTyped
<1>5. mishaps \subseteq mishaps' /\ ("stolen" \in mishaps' => "stolen" \in mishaps)
      /\ ("torn" \in mishaps' => "torn" \in mishaps)
  BY DEF ServerRefuses, RefreshFails
<1>6. ASSUME "stolen" \notin mishaps
      PROVE  LockHeld' /\ RefreshCurrent' /\ TokenKept' /\ UpdatesKept'
  <2>1. lockFile' = o /\ \A q \in Operations : q # o => ~Holding(q) /\ ~Requesting(q)
    BY <1>2, <1>3, <1>6, Asking
  <2>2. LockHeld' /\ RefreshCurrent'
    BY <1>1, <1>6, <2>1, NobodyAsks
  <2>3. \A q \in Operations : q # o => operations[q].at # "refreshed"
    BY <2>1 DEF Requesting
  <2>4. "lost" \notin mishaps => /\ "reused" \notin mishaps
                                 /\ \/ authFile.data.token \in valid
                                    \/ operations[o].at = "refreshed"
    BY <1>2, <1>6, <2>3, Asking DEF AuthInv, Unstolen, TokenKept
  <2>5. CASE ServerRefuses(o)
    <3>1. operations[o].at = "requesting" /\ authFile.data.token \notin valid
      BY <1>2, <1>6, <2>5, Asking DEF ServerRefuses
    <3>2. "lost" \in mishaps
      BY <2>4, <3>1
    <3> QED
      BY <1>3, <1>5, <1>6, <2>2, <3>2 DEF TokenKept, UpdatesKept, AuthInv, Unstolen
  <2>6. CASE RefreshFails(o)
    <3>1. mishaps' = IF operations[o].at = "refreshed" THEN mishaps \cup {"lost"} ELSE mishaps
      BY <2>6 DEF RefreshFails
    <3>2. TokenKept'
      BY <1>3, <2>4, <3>1 DEF TokenKept, providerVars
    <3> QED
      BY <1>3, <1>5, <1>6, <2>2, <3>2 DEF UpdatesKept, AuthInv, Unstolen
  <2> QED
    BY <2>5, <2>6
<1> QED
  BY <1>4, <1>5, <1>6 DEF AuthInv, Unstolen

LEMMA StoreRefreshedKeeps ==
  ASSUME AuthInv, NEW o \in Operations, StoreRefreshed(o)
  PROVE  AuthInv'
<1> DEFINE data == [operations[o].data EXCEPT !.token = operations[o].token]
<1>1. operations[o].data \in AnyCredentials /\ operations[o].token \in Nat
      /\ applied \in AnyCredentials
  BY DEF AuthInv, AuthTyped, FileTyped, OperationsTyped, AnyOperation
<1>2. data \in AnyCredentials /\ data.token = operations[o].token
      /\ applied' \in AnyCredentials
  BY <1>1 DEF StoreRefreshed, AnyCredentials
<1>3. operations[o].data = applied => data = applied'
  BY DEF StoreRefreshed
<1>4. Commit(o, data)
  BY DEF StoreRefreshed, Merged
<1> HIDE DEF data
<1>5. /\ authFile' \in [data : AnyCredentials, revision : Nat \ {0}, parses : BOOLEAN]
      /\ authFile'.revision = authFile.revision + 1 /\ authFile'.data = data
  BY <1>2, <1>4, CommitTyped
<1> DEFINE x == [Idle EXCEPT !.at = "releasing", !.latest = data, !.revision = 0, !.ok = TRUE]
<1>6. x \in AnyOperation /\ x.at = "releasing" /\ x.revision = 0 /\ Becomes(o, x)
  BY <1>2, <1>4, OutcomesTyped DEF Commit, Succeeds, Idle
<1>7. /\ UNCHANGED <<lockFile, readState, providerVars, started, mishaps>>
      /\ TokensTyped' /\ lockFile' \in Operations \cup {NoOperation}
      /\ Requesting(o) /\ operations[o].at = "refreshed"
  BY DEF StoreRefreshed, AuthInv, AuthTyped, OperationsTyped, TokensTyped, providerVars,
         Requesting
<1> HIDE DEF x
<1>8. AuthTyped' /\ RevisionsKnown'
  BY <1>2, <1>5, <1>6, <1>7, OperationTyped
<1>9. ASSUME "stolen" \notin mishaps
      PROVE  LockHeld' /\ RefreshCurrent' /\ TokenKept' /\ UpdatesKept'
  <2>1. /\ lockFile' = o /\ \A q \in Operations : q # o => ~Holding(q) /\ ~Requesting(q)
        /\ operations[o].data = authFile.data /\ data.token \in valid
    BY <1>2, <1>7, <1>9, Asking
  <2>2. LockHeld' /\ RefreshCurrent'
    BY <1>6, <1>9, <2>1, NobodyAsks
  <2>3. TokenKept'
    BY <1>5, <1>7, <1>9, <2>1 DEF AuthInv, Unstolen, TokenKept, providerVars
  <2>4. UpdatesKept'
    BY <1>3, <1>5, <1>7, <1>9, <2>1 DEF AuthInv, Unstolen, UpdatesKept
  <2> QED
    BY <2>2, <2>3, <2>4
<1> QED
  BY <1>7, <1>8, <1>9 DEF AuthInv, Unstolen

LEMMA CompromisedKeeps ==
  ASSUME AuthInv, NEW o \in Operations, Compromised(o)
  PROVE  AuthInv'
<1> DEFINE x == [operations[o] EXCEPT !.compromised = TRUE]
<1>1. operations[o] \in AnyOperation
  BY DEF AuthInv, AuthTyped, OperationsTyped
<1>2. /\ x \in AnyOperation
      /\ x.latest = operations[o].latest /\ x.revision = operations[o].revision
  BY <1>1 DEF AnyOperation
<1>3. Becomes(o, x) /\ Believes(x.latest, x.revision)
  BY <1>2 DEF Compromised, AuthInv, RevisionsKnown
<1>4. /\ UNCHANGED <<authFile, lockFile, readState, providerVars, authHistory>>
      /\ TokensTyped' /\ applied' \in AnyCredentials
      /\ lockFile' \in Operations \cup {NoOperation}
  BY DEF Compromised, AuthInv, AuthTyped, FileTyped, OperationsTyped, TokensTyped,
         providerVars, authHistory
<1> HIDE DEF x
<1>5. AuthTyped' /\ RevisionsKnown'
  BY <1>2, <1>3, <1>4, OperationTyped DEF authHistory
<1>6. "stolen" \in mishaps'
  BY <1>4, Asking DEF Compromised, authHistory
<1> QED
  BY <1>5, <1>6 DEF AuthInv, Unstolen

LEMMA ReleaseLockKeeps ==
  ASSUME AuthInv, NEW o \in Operations, ReleaseLock(o)
  PROVE  AuthInv'
<1>1. PICK x \in AnyOperation :
        /\ Becomes(o, x) /\ Believes(x.latest, x.revision)
        /\ x.at \in {"idle", "settling"}
  <2>1. operations[o] \in AnyOperation
    BY DEF AuthInv, AuthTyped, OperationsTyped
  <2>2. CASE operations[o].ok
    <3> DEFINE y == [operations[o] EXCEPT !.at = "settling"]
    <3>1. /\ y \in AnyOperation /\ y.at = "settling"
          /\ y.latest = operations[o].latest /\ y.revision = operations[o].revision
      BY <2>1 DEF AnyOperation, OperationStages
    <3>2. Becomes(o, y) /\ Believes(y.latest, y.revision)
      BY <2>2, <3>1 DEF ReleaseLock, Moves, AuthInv, RevisionsKnown
    <3> QED
      BY <3>1, <3>2
  <2>3. CASE ~operations[o].ok
    BY <2>3, IdleTyped, FileKnown DEF ReleaseLock, Idle
  <2> QED
    BY <2>2, <2>3
<1>2. /\ UNCHANGED <<authFile, readState, providerVars, authHistory>>
      /\ TokensTyped' /\ applied' \in AnyCredentials
      /\ lockFile' \in Operations \cup {NoOperation}
  BY DEF ReleaseLock, AuthInv, AuthTyped, FileTyped, OperationsTyped, TokensTyped,
         providerVars, authHistory
<1>3. AuthTyped' /\ RevisionsKnown'
  BY <1>1, <1>2, OperationTyped DEF authHistory
<1>4. /\ operations'[o] = x
      /\ \A q \in Operations : q # o => operations'[q] = operations[q]
  BY <1>1, BecomesTyped DEF AuthInv, AuthTyped
<1>5. ASSUME "stolen" \notin mishaps
      PROVE  LockHeld' /\ RefreshCurrent' /\ TokenKept' /\ UpdatesKept'
  <2>1. \A q \in Operations : q # o => ~Holding(q) /\ ~Requesting(q)
    BY <1>5, HolderAlone DEF ReleaseLock, Holding
  <2>2. \A q \in Operations : ~Holding(q)' /\ ~Requesting(q)'
    BY <1>1, <1>4, <2>1 DEF Holding, Requesting
  <2>3. \A q \in Operations : operations[q].at # "refreshed"
    BY <2>1 DEF ReleaseLock, Requesting
  <2> QED
    BY <1>2, <1>5, <2>2, <2>3
       DEF AuthInv, Unstolen, LockHeld, RefreshCurrent, TokenKept, UpdatesKept,
           providerVars, authHistory
<1> QED
  BY <1>2, <1>3, <1>5 DEF AuthInv, Unstolen, authHistory

-----------------------------------------------------------------------------
(* Steps of several operations of a process, or of its memory.             *)

(* Operations that no longer hold the lock and ask for nothing new.        *)
LEMMA MemoryStep ==
  ASSUME AuthInv, FileTyped', OperationsTyped',
         UNCHANGED <<authFile, providerVars, applied>>,
         mishaps \subseteq mishaps', mishaps' \subseteq mishaps \cup {"lost"},
         \A p \in AuthProcesses : Believes(readState'[p].data, readState'[p].revision),
         \A q \in Operations : \/ operations'[q] = operations[q]
                               \/ Waits(operations'[q]),
         "stolen" \notin mishaps =>
           /\ \A q \in Operations : Holding(q)' => lockFile' = lockFile
           /\ \A q \in Operations : operations[q].at = "refreshed" =>
                operations'[q] = operations[q] \/ "lost" \in mishaps'
  PROVE  AuthInv'
<1>1. AuthTyped'
  BY DEF AuthInv, AuthTyped, TokensTyped, providerVars
<1>2. authFile.revision \in Nat \ {0}
  BY DEF AuthInv, AuthTyped, FileTyped
<1>3. RevisionsKnown'
  BY <1>2 DEF AuthInv, RevisionsKnown, Believes, Waits
<1>4. \A q \in Operations : Holding(q)' \/ Requesting(q)' => operations'[q] = operations[q]
  BY DEF Holding, Requesting, Waits
<1>5. ASSUME "stolen" \notin mishaps
      PROVE  LockHeld' /\ RefreshCurrent' /\ TokenKept' /\ UpdatesKept'
  <2>1. LockHeld'
    BY <1>4, <1>5 DEF AuthInv, Unstolen, LockHeld, Holding, Requesting
  <2>2. RefreshCurrent'
    BY <1>4, <1>5 DEF AuthInv, Unstolen, RefreshCurrent, Requesting, providerVars
  <2>3. TokenKept'
    BY <1>5 DEF AuthInv, Unstolen, TokenKept, providerVars
  <2>4. UpdatesKept'
    BY <1>5 DEF AuthInv, Unstolen, UpdatesKept
  <2> QED
    BY <2>1, <2>2, <2>3, <2>4
<1> QED
  BY <1>1, <1>3, <1>5 DEF AuthInv, Unstolen

LEMMA SettleKeeps ==
  ASSUME AuthInv, NEW o \in Operations, Settle(o)
  PROVE  AuthInv'
<1>1. o[1] \in AuthProcesses
  BY OperationsAssumption
<1>2. /\ operations' \in [Operations -> AnyOperation]
      /\ operations'[o] = Idle
      /\ \A q \in Operations : q # o => operations'[q] = operations[q]
  BY IdleTyped, BecomesTyped DEF Settle, AuthInv, AuthTyped
<1>3. operations[o].latest \in AnyCredentials /\ operations[o].revision \in Nat
  BY DEF AuthInv, AuthTyped, OperationsTyped, AnyOperation
<1>4. UNCHANGED <<authFile, lockFile, providerVars, authHistory>>
      /\ operations[o].at = "settling"
  BY DEF Settle
<1>5. OperationsTyped'
  BY <1>2, <1>4 DEF AuthInv, AuthTyped, OperationsTyped
<1>6. readState' = [readState EXCEPT
        ![o[1]] = [data |-> operations[o].latest, revision |-> operations[o].revision]]
  BY DEF Settle
<1>7. FileTyped'
  BY <1>1, <1>3, <1>4, <1>6 DEF AuthInv, AuthTyped, FileTyped, authHistory
<1>8. \A p \in AuthProcesses : Believes(readState'[p].data, readState'[p].revision)
  BY <1>1, <1>6 DEF AuthInv, AuthTyped, FileTyped, RevisionsKnown
<1> QED
  BY <1>2, <1>4, <1>5, <1>7, <1>8, IdleWaits, MemoryStep DEF authHistory

LEMMA ReloadKeeps ==
  ASSUME AuthInv, NEW p \in AuthProcesses, Reload(p) \/ ReloadFails(p)
  PROVE  AuthInv'
<1>1. \A data \in AnyCredentials :
        [Idle EXCEPT !.at = AfterRead(data)] \in AnyOperation
        /\ Waits([Idle EXCEPT !.at = AfterRead(data)])
  BY IdleTyped DEF AfterRead, Idle, AnyOperation, OperationStages, Waits
<1>2. /\ authFile.data \in AnyCredentials /\ authFile.revision \in Nat
      /\ readState \in [AuthProcesses -> [data : AnyCredentials, revision : Nat]]
  BY DEF AuthInv, AuthTyped, FileTyped
<1>3. UNCHANGED <<authFile, providerVars, authHistory>>
  BY DEF Reload, ReloadFails
<1>4. \A q \in Operations : \/ operations'[q] = operations[q]
                            \/ /\ q \in Readers(p) /\ operations'[q] \in AnyOperation
                               /\ Waits(operations'[q])
  BY <1>1, <1>2, IdleTyped, IdleWaits DEF Reload, ReloadFails
<1>5. DOMAIN operations' = Operations /\ operations' = [q \in Operations |-> operations'[q]]
  BY DEF Reload, ReloadFails
<1>6. lockFile' = lockFile \/ (lockFile' = NoOperation /\ Lockable)
  BY DEF Reload, ReloadFails
<1>7. OperationsTyped'
  BY <1>4, <1>5, <1>6 DEF AuthInv, AuthTyped, OperationsTyped
<1>8. readState' = readState
      \/ readState' = [readState EXCEPT
           ![p] = [data |-> authFile.data, revision |-> authFile.revision]]
  BY DEF Reload, ReloadFails
<1>9. FileTyped'
  BY <1>2, <1>3, <1>8 DEF AuthInv, AuthTyped, FileTyped, authHistory
<1>10. \A q \in AuthProcesses : Believes(readState'[q].data, readState'[q].revision)
  BY <1>2, <1>8, FileKnown DEF AuthInv, RevisionsKnown
<1>11. \A q \in Operations : operations[q].at = "refreshed" => operations'[q] = operations[q]
  BY <1>4 DEF Readers
<1>12. \A q \in Operations : Holding(q)' => Holding(q)
  BY <1>4 DEF Holding, Requesting, Waits
<1>13. "stolen" \notin mishaps => \A q \in Operations : Holding(q)' => lockFile' = lockFile
  BY <1>6, <1>12, LockableAlone
<1> QED
  BY <1>3, <1>4, <1>7, <1>9, <1>10, <1>11, <1>13, MemoryStep DEF authHistory

LEMMA CrashAuthKeeps ==
  ASSUME AuthInv, NEW p \in AuthProcesses, CrashAuth(p)
  PROVE  AuthInv'
<1>1. /\ UNCHANGED <<authFile, lockFile, providerVars, started, applied>>
      /\ operations' = [o \in Operations |-> IF o[1] = p THEN Idle ELSE operations[o]]
      /\ readState' = [readState EXCEPT ![p] = [data |-> NoCredentials, revision |-> 0]]
      /\ mishaps' = IF Refreshed(p) THEN mishaps \cup {"lost"} ELSE mishaps
  BY DEF CrashAuth, Dies
<1>2. FileTyped'
  BY <1>1, IdleTyped DEF AuthInv, AuthTyped, FileTyped
<1>3. OperationsTyped'
  BY <1>1, IdleTyped DEF AuthInv, AuthTyped, OperationsTyped
<1>4. Believes(NoCredentials, 0)
  BY DEF AuthInv, AuthTyped, FileTyped, Believes
<1>5. \A q \in AuthProcesses : Believes(readState'[q].data, readState'[q].revision)
  BY <1>1, <1>4 DEF AuthInv, AuthTyped, FileTyped, RevisionsKnown
<1>6. \A q \in Operations : operations'[q] = operations[q] \/ Waits(operations'[q])
  BY <1>1, IdleWaits
<1>7. \A q \in Operations : operations[q].at = "refreshed" =>
        operations'[q] = operations[q] \/ "lost" \in mishaps'
  BY <1>1 DEF Refreshed
<1> QED
  BY <1>1, <1>2, <1>3, <1>5, <1>6, <1>7, MemoryStep

LEMMA ConstructKeeps ==
  ASSUME AuthInv, NEW p \in AuthProcesses, Construct(p)
  PROVE  AuthInv'
<1>1. /\ UNCHANGED <<authFile, operations, providerVars, started, crashes, applied>>
      /\ lockFile' = NoOperation
      /\ \/ readState' = readState
         \/ readState' = [readState EXCEPT
              ![p] = [data |-> authFile.data, revision |-> authFile.revision]]
      /\ mishaps' = IF Live THEN mishaps \cup {"stolen"} ELSE mishaps
  BY DEF Construct
<1>2. /\ authFile.data \in AnyCredentials /\ authFile.revision \in Nat
      /\ readState \in [AuthProcesses -> [data : AnyCredentials, revision : Nat]]
  BY DEF AuthInv, AuthTyped, FileTyped
<1>3. FileTyped' /\ OperationsTyped' /\ TokensTyped'
  BY <1>1, <1>2 DEF AuthInv, AuthTyped, FileTyped, OperationsTyped, TokensTyped, providerVars
<1>4. \A q \in AuthProcesses : Believes(readState'[q].data, readState'[q].revision)
  BY <1>1, <1>2, FileKnown DEF AuthInv, RevisionsKnown
<1>5. CASE Live
  <2>1. RevisionsKnown'
    BY <1>1, <1>4 DEF AuthInv, RevisionsKnown, Believes
  <2>2. "stolen" \in mishaps'
    BY <1>1, <1>5
  <2> QED
    BY <1>3, <2>1, <2>2 DEF AuthInv, AuthTyped, Unstolen
<1>6. CASE ~Live
  <2>1. mishaps' = mishaps
    BY <1>1, <1>6
  <2>2. "stolen" \notin mishaps => \A q \in Operations : ~Holding(q)
    BY <1>6, LockableAlone DEF Lockable
  <2>3. "stolen" \notin mishaps => \A q \in Operations : Holding(q)' => lockFile' = lockFile
    BY <1>1, <2>2 DEF Holding, Requesting
  <2> QED
    BY <1>1, <1>3, <1>4, <2>1, <2>3, MemoryStep
<1> QED
  BY <1>5, <1>6

LEMMA CrashWritingKeeps ==
  ASSUME AuthInv, NEW p \in AuthProcesses, CrashWriting(p)
  PROVE  AuthInv'
<1>1. /\ UNCHANGED <<lockFile, providerVars, started, applied>>
      /\ operations' = [o \in Operations |-> IF o[1] = p THEN Idle ELSE operations[o]]
      /\ readState' = [readState EXCEPT ![p] = [data |-> NoCredentials, revision |-> 0]]
      /\ mishaps' = mishaps \cup {"torn"} \cup (IF Refreshed(p) THEN {"lost"} ELSE {})
      /\ \E parses \in BOOLEAN :
           authFile' = [data |-> NoCredentials, revision |-> authFile.revision + 1,
                        parses |-> parses]
  BY DEF CrashWriting, Dies
<1>2. authFile.revision \in Nat \ {0}
      /\ readState \in [AuthProcesses -> [data : AnyCredentials, revision : Nat]]
  BY DEF AuthInv, AuthTyped, FileTyped
<1>3. /\ authFile' \in [data : AnyCredentials, revision : Nat \ {0}, parses : BOOLEAN]
      /\ authFile'.data = NoCredentials /\ authFile'.revision = authFile.revision + 1
  BY <1>1, <1>2, IdleTyped
<1>4. AuthTyped'
  BY <1>1, <1>3, IdleTyped
     DEF AuthInv, AuthTyped, FileTyped, OperationsTyped, TokensTyped, providerVars
<1>5. \A q \in AuthProcesses : readState'[q].revision \in Nat
                               /\ readState'[q].revision < authFile'.revision
  BY <1>1, <1>2, <1>3 DEF AuthInv, RevisionsKnown, Believes
<1>6. \A q \in Operations : operations'[q].revision \in Nat
                            /\ operations'[q].revision < authFile'.revision
  <2>1. \A q \in Operations : operations[q].revision \in Nat
    BY DEF AuthInv, AuthTyped, OperationsTyped, AnyOperation
  <2>2. \A q \in Operations : operations'[q] = Idle \/ operations'[q] = operations[q]
    BY <1>1
  <2>3. Idle.revision = 0
    BY DEF Idle
  <2> QED
    BY <1>2, <1>3, <2>1, <2>2, <2>3 DEF AuthInv, RevisionsKnown, Believes
<1>7. RevisionsKnown'
  BY <1>2, <1>3, <1>5, <1>6 DEF RevisionsKnown, Believes
<1>8. ASSUME "stolen" \notin mishaps
      PROVE  LockHeld' /\ RefreshCurrent' /\ TokenKept' /\ UpdatesKept'
  <2>1. PICK o \in Operations : o[1] = p /\ (operations[o].at = "refreshed" \/ Lockable)
    BY DEF CrashWriting
  <2>2. operations'[o].at = "idle"
    BY <1>1, <2>1 DEF Idle
  <2>3. \A q \in Operations : q # o => ~Holding(q) /\ ~Requesting(q)
    BY <1>8, <2>1, Asking, LockableAlone DEF Requesting
  <2>4. \A q \in Operations : ~Holding(q)' /\ ~Requesting(q)'
    BY <1>1, <2>2, <2>3 DEF Holding, Requesting, Idle
  <2>5. LockHeld' /\ RefreshCurrent' /\ UpdatesKept'
    BY <1>1, <2>4 DEF LockHeld, RefreshCurrent, UpdatesKept
  <2>6. authFile'.data.token = 0
    BY <1>3 DEF NoCredentials
  <2>7. "lost" \notin mishaps' => "reused" \notin mishaps'
    BY <1>1, <1>8 DEF AuthInv, Unstolen, TokenKept
  <2> QED
    BY <2>5, <2>6, <2>7 DEF TokenKept
<1> QED
  BY <1>1, <1>4, <1>7, <1>8 DEF AuthInv, Unstolen

LEMMA TokenExpiresKeeps ==
  ASSUME AuthInv, NEW t \in 1..MaxTokens, TokenExpires(t)
  PROVE  AuthInv'
<1>1. UNCHANGED <<authFile, lockFile, operations, readState, valid, issued, authHistory>>
      /\ due' = due \cup {t} /\ t \in 1..issued
  BY DEF TokenExpires
<1>2. AuthTyped' /\ RevisionsKnown'
  BY <1>1 DEF AuthInv, AuthTyped, FileTyped, OperationsTyped, TokensTyped, RevisionsKnown,
              Believes, authHistory
<1>3. Unstolen'
  BY <1>1 DEF AuthInv, Unstolen, LockHeld, RefreshCurrent, TokenKept, UpdatesKept, Holding,
              Requesting, authHistory
<1> QED
  BY <1>2, <1>3 DEF AuthInv

-----------------------------------------------------------------------------

LEMMA AuthStepKeeps == AuthInv /\ [AuthNext]_authVars => AuthInv'
<1> SUFFICES ASSUME AuthInv, [AuthNext]_authVars PROVE AuthInv'
  OBVIOUS
<1>1. CASE UNCHANGED authVars
  BY <1>1 DEF authVars, AuthInv, AuthTyped, FileTyped, OperationsTyped, TokensTyped,
              RevisionsKnown, Believes, Unstolen, LockHeld, RefreshCurrent, TokenKept,
              UpdatesKept, Holding, Requesting
<1>2. ASSUME NEW o \in Operations, OperationStep(o) PROVE AuthInv'
  BY <1>2, StartKeeps, GiveUpWaitingKeeps, CommitsKeep, BeginRefreshKeeps, LockFailsKeeps,
     ServerRefreshesKeeps, RequestEndsKeeps, StoreRefreshedKeeps, CompromisedKeeps,
     ReleaseLockKeeps, SettleKeeps DEF OperationStep
<1>3. ASSUME NEW p \in AuthProcesses, ProcessStep(p) PROVE AuthInv'
  BY <1>3, ReloadKeeps, ConstructKeeps, CrashAuthKeeps, CrashWritingKeeps DEF ProcessStep
<1>4. ASSUME NEW t \in 1..MaxTokens, TokenExpires(t) PROVE AuthInv'
  BY <1>4, TokenExpiresKeeps
<1> QED
  BY <1>1, <1>2, <1>3, <1>4 DEF AuthNext

LEMMA AuthInvSuffices == AuthInv => CredentialsSound
<1> SUFFICES ASSUME AuthInv PROVE CredentialsSound
  OBVIOUS
<1>1. "stolen" \notin mishaps => RefreshOnceGlobally
  BY DEF AuthInv, Unstolen, LockHeld, Holding, RefreshOnceGlobally
<1>2. UpdatesKept
  <2>1. CASE "stolen" \in mishaps
    BY <2>1 DEF UpdatesKept
  <2> QED
    BY <2>1 DEF AuthInv, Unstolen
<1>3. TokenUsable
  BY DEF AuthInv, Unstolen, TokenKept, TokenUsable
<1>4. ReadStateCurrent
  BY DEF AuthInv, RevisionsKnown, Believes, ReadStateCurrent, Fresh
<1> QED
  BY <1>1, <1>2, <1>3, <1>4 DEF CredentialsSound

(* However the calls of the processes interleave, and whichever of them     *)
(* die: while no constructor steals the lock of a live process, a token is *)
(* refreshed by one operation at a time, the file keeps what was written   *)
(* to it, and memory a process takes for current is current.               *)
THEOREM CredentialsAlwaysSound == AuthSpec => []CredentialsSound
<1>1. AuthSpec => []AuthInv
  BY AuthInitSound, AuthStepKeeps, PTL DEF AuthSpec
<1> QED
  BY <1>1, AuthInvSuffices, PTL

-----------------------------------------------------------------------------
(* The bounds of the model: credentials and tokens that there are,          *)

OperationKnown(x) ==
  x.data \in Credentials /\ x.latest \in Credentials /\ x.token \in 0..MaxTokens

CredentialsKnown ==
  /\ authFile.data \in Credentials /\ applied \in Credentials
  /\ \A p \in AuthProcesses : readState[p].data \in Credentials
  /\ \A o \in Operations : OperationKnown(operations[o])

CountersBounded ==
  /\ started \in 0..MaxOperations /\ crashes \in 0..MaxAuthCrashes
  /\ issued \in 1..MaxTokens
  /\ mishaps \subseteq {"stolen", "lost", "torn", "reused"}

(* and one revision at most for each call that is behind its commit and for *)
(* each process that died.                                                 *)
Early(x) == x.at \in {"reading", "locking", "requesting", "refreshed"}
Uncommitted == {o \in Operations : Early(operations[o])}

RevisionsCounted ==
  /\ IsFiniteSet(Uncommitted)
  /\ authFile.revision + Cardinality(Uncommitted) <= 1 + started + crashes

AuthBounded == AuthInv /\ CredentialsKnown /\ CountersBounded /\ RevisionsCounted

LEMMA IdleKnown == OperationKnown(Idle) /\ NoCredentials \in Credentials /\ ~Early(Idle)
  BY AuthBoundsAssumption DEF OperationKnown, Idle, NoCredentials, Credentials, Early

LEMMA AuthInitBounded == AuthInit => AuthBounded
<1> SUFFICES ASSUME AuthInit PROVE AuthBounded
  OBVIOUS
<1>1. CredentialsKnown
  BY IdleKnown, AuthBoundsAssumption DEF AuthInit, CredentialsKnown, Credentials
<1>2. CountersBounded
  BY AuthBoundsAssumption DEF AuthInit, CountersBounded
<1>3. Uncommitted = {}
  BY IdleKnown DEF AuthInit, Uncommitted
<1>4. RevisionsCounted
  BY <1>3, FS_EmptySet DEF RevisionsCounted, AuthInit
<1> QED
  BY <1>1, <1>2, <1>4, AuthInitSound DEF AuthBounded

(* A call that commits makes room for its revision, and one that starts, or *)
(* a process that dies, for one more.                                      *)
LEMMA CountStep ==
  ASSUME AuthBounded, NEW o,
         authFile'.revision \in Nat, started' \in Nat, crashes' \in Nat,
         \/ /\ Uncommitted' \subseteq Uncommitted
            /\ authFile'.revision = authFile.revision
            /\ started' = started /\ crashes' = crashes
         \/ /\ o \in Uncommitted /\ Uncommitted' \subseteq Uncommitted \ {o}
            /\ authFile'.revision = authFile.revision + 1
            /\ started' = started /\ crashes' = crashes
         \/ /\ Uncommitted' \subseteq Uncommitted \cup {o}
            /\ authFile'.revision = authFile.revision
            /\ started' = started + 1 /\ crashes' = crashes
         \/ /\ Uncommitted' \subseteq Uncommitted
            /\ authFile'.revision \in {authFile.revision, authFile.revision + 1}
            /\ started' = started /\ crashes' = crashes + 1
  PROVE  RevisionsCounted'
<1>1. PICK U, V : U = Uncommitted /\ V = Uncommitted'
  OBVIOUS
<1>2. /\ IsFiniteSet(U) /\ Cardinality(U) \in Nat
      /\ authFile.revision + Cardinality(U) <= 1 + started + crashes
      /\ authFile.revision \in Nat /\ started \in Nat /\ crashes \in Nat
  BY <1>1, FS_CardinalityType
     DEF AuthBounded, RevisionsCounted, CountersBounded, AuthInv, AuthTyped, FileTyped
<1>3. ASSUME V \subseteq U PROVE IsFiniteSet(V) /\ Cardinality(V) \in Nat /\ Cardinality(V) <= Cardinality(U)
  BY <1>2, <1>3, FS_Subset, FS_CardinalityType
<1>4. ASSUME o \in U, V \subseteq U \ {o}
      PROVE  IsFiniteSet(V) /\ Cardinality(V) \in Nat /\ Cardinality(V) <= Cardinality(U) - 1
  <2>1. IsFiniteSet(U \ {o}) /\ Cardinality(U \ {o}) = Cardinality(U) - 1
    BY <1>2, <1>4, FS_RemoveElement
  <2> QED
    BY <1>4, <2>1, FS_Subset, FS_CardinalityType
<1>5. ASSUME V \subseteq U \cup {o}
      PROVE  IsFiniteSet(V) /\ Cardinality(V) \in Nat /\ Cardinality(V) <= Cardinality(U) + 1
  <2>1. IsFiniteSet(U \cup {o})
        /\ Cardinality(U \cup {o}) \in {Cardinality(U), Cardinality(U) + 1}
    BY <1>2, FS_AddElement
  <2>2. IsFiniteSet(V) /\ Cardinality(V) \in Nat /\ Cardinality(V) <= Cardinality(U \cup {o})
    BY <1>5, <2>1, FS_Subset, FS_CardinalityType
  <2> QED
    BY <1>2, <2>1, <2>2
<1>6. IsFiniteSet(V) /\ authFile'.revision + Cardinality(V) <= 1 + started' + crashes'
  <2>1. CASE /\ V \subseteq U
             /\ authFile'.revision = authFile.revision
             /\ started' = started /\ crashes' = crashes
    BY <1>2, <1>3, <2>1
  <2>2. CASE /\ o \in U /\ V \subseteq U \ {o}
             /\ authFile'.revision = authFile.revision + 1
             /\ started' = started /\ crashes' = crashes
    BY <1>2, <1>4, <2>2
  <2>3. CASE /\ V \subseteq U \cup {o}
             /\ authFile'.revision = authFile.revision
             /\ started' = started + 1 /\ crashes' = crashes
    BY <1>2, <1>5, <2>3
  <2>4. CASE /\ V \subseteq U
             /\ authFile'.revision \in {authFile.revision, authFile.revision + 1}
             /\ started' = started /\ crashes' = crashes + 1
    BY <1>2, <1>3, <2>4
  <2> QED
    BY <1>1, <2>1, <2>2, <2>3, <2>4
<1> QED
  BY <1>1, <1>6 DEF RevisionsCounted

(* One operation becomes x.                                                 *)
LEMMA OperationBounded ==
  ASSUME AuthBounded, AuthInv', NEW o \in Operations, NEW x \in AnyOperation,
         Becomes(o, x), OperationKnown(x),
         authFile'.data \in Credentials, applied' \in Credentials,
         \A p \in AuthProcesses : readState'[p].data \in Credentials,
         CountersBounded', crashes' = crashes,
         \/ /\ Early(x) => Early(operations[o])
            /\ authFile'.revision = authFile.revision /\ started' = started
         \/ /\ Early(operations[o]) /\ ~Early(x)
            /\ authFile'.revision = authFile.revision + 1 /\ started' = started
         \/ authFile'.revision = authFile.revision /\ started' = started + 1
  PROVE  AuthBounded'
<1>1. /\ operations'[o] = x
      /\ \A q \in Operations : q # o => operations'[q] = operations[q]
  BY BecomesTyped DEF AuthBounded, AuthInv, AuthTyped
<1>2. CredentialsKnown'
  BY <1>1 DEF AuthBounded, CredentialsKnown, OperationKnown
<1>3. authFile'.revision \in Nat /\ started' \in Nat /\ crashes' \in Nat
  BY DEF AuthInv, AuthTyped, FileTyped, CountersBounded
<1>4. /\ Uncommitted' \subseteq Uncommitted \cup {o}
      /\ o \in Uncommitted' <=> Early(x)
      /\ o \in Uncommitted <=> Early(operations[o])
  BY <1>1 DEF Uncommitted, Early
<1>5. RevisionsCounted'
  BY <1>3, <1>4, CountStep
<1> QED
  BY <1>2, <1>5 DEF AuthBounded

(* Operations end, and memory or the file changes with them.                *)
LEMMA ProcessBounded ==
  ASSUME AuthBounded, AuthInv', CountersBounded', started' = started,
         authFile'.data \in Credentials, applied' = applied,
         \A p \in AuthProcesses : readState'[p].data \in Credentials,
         \A o \in Operations : /\ OperationKnown(operations'[o])
                               /\ Early(operations'[o]) => Early(operations[o]),
         \/ authFile'.revision = authFile.revision /\ crashes' = crashes
         \/ /\ authFile'.revision \in {authFile.revision, authFile.revision + 1}
            /\ crashes' = crashes + 1
  PROVE  AuthBounded'
<1>1. CredentialsKnown'
  BY DEF AuthBounded, CredentialsKnown, OperationKnown
<1>2. authFile'.revision \in Nat /\ started' \in Nat /\ crashes' \in Nat
  BY DEF AuthInv, AuthTyped, FileTyped, CountersBounded
<1>3. Uncommitted' \subseteq Uncommitted
  BY DEF Uncommitted, Early
<1>4. RevisionsCounted'
  BY <1>2, <1>3, CountStep
<1> QED
  BY <1>1, <1>4 DEF AuthBounded

(* How the call of an operation ends.                                       *)
LEMMA FailsKnown ==
  ASSUME NEW o \in Operations, Fails(o)
  PROVE  \E x \in AnyOperation : Becomes(o, x) /\ OperationKnown(x) /\ ~Early(x)
<1> DEFINE x == [Idle EXCEPT !.at = "releasing"]
<1>1. x \in AnyOperation /\ OperationKnown(x) /\ ~Early(x)
  BY IdleTyped, IdleKnown DEF Idle, AnyOperation, OperationStages, OperationKnown, Early
<1>2. Becomes(o, x)
  BY DEF Fails
<1> HIDE DEF x
<1> QED
  BY <1>1, <1>2

LEMMA SucceedsKnown ==
  ASSUME NEW o \in Operations, NEW data \in Credentials, NEW revision \in Nat,
         Succeeds(o, data, revision)
  PROVE  \E x \in AnyOperation : Becomes(o, x) /\ OperationKnown(x) /\ ~Early(x)
<1> DEFINE x == [Idle EXCEPT !.at = "releasing", !.latest = data, !.revision = revision,
                             !.ok = TRUE]
<1>1. data \in AnyCredentials
  BY AuthBoundsAssumption DEF Credentials, AnyCredentials
<1>2. x \in AnyOperation /\ OperationKnown(x) /\ ~Early(x)
  BY <1>1, IdleTyped, IdleKnown DEF Idle, AnyOperation, OperationStages, OperationKnown, Early
<1>3. Becomes(o, x)
  BY DEF Succeeds
<1> HIDE DEF x
<1> QED
  BY <1>2, <1>3

LEMMA StartBounded ==
  ASSUME AuthBounded, AuthInv', NEW o \in Operations, GetAuth(o) \/ Login(o) \/ Logout(o)
  PROVE  AuthBounded'
<1>1. PICK kind \in {"getAuth", "login", "logout"},
           stage \in {"idle", "reading", "locking"} : Start(o, kind, stage)
  BY DEF GetAuth, Login, Logout, AfterRead
<1> DEFINE x == [Idle EXCEPT !.kind = kind, !.at = stage]
<1>2. x \in AnyOperation /\ OperationKnown(x)
  BY IdleTyped, IdleKnown DEF AnyOperation, OperationKnown, Idle, OperationStages
<1>3. /\ Becomes(o, x) /\ started' = started + 1 /\ started < MaxOperations
      /\ UNCHANGED <<authFile, readState, issued, crashes, applied, mishaps>>
  BY <1>1 DEF Start, providerVars
<1>4. CountersBounded'
  BY <1>3, AuthBoundsAssumption DEF AuthBounded, CountersBounded
<1>5. /\ authFile'.data \in Credentials /\ applied' \in Credentials
      /\ \A p \in AuthProcesses : readState'[p].data \in Credentials
  BY <1>3 DEF AuthBounded, CredentialsKnown
<1> HIDE DEF x
<1> QED
  BY <1>2, <1>3, <1>4, <1>5, OperationBounded

(* The operation commits data.                                              *)
LEMMA CommitBounded ==
  ASSUME AuthBounded, AuthInv', NEW o \in Operations, NEW data \in Credentials,
         Commit(o, data), Early(operations[o]), applied' \in Credentials,
         UNCHANGED <<readState, providerVars, started, crashes, mishaps>>
  PROVE  AuthBounded'
<1>1. PICK x \in AnyOperation : Becomes(o, x) /\ OperationKnown(x) /\ ~Early(x)
  BY SucceedsKnown DEF Commit
<1>2. authFile'.revision = authFile.revision + 1 /\ authFile'.data = data
  <2>1. data \in AnyCredentials
    BY AuthBoundsAssumption DEF Credentials, AnyCredentials
  <2> QED
    BY <2>1, CommitTyped DEF AuthBounded
<1>3. CountersBounded'
  BY DEF AuthBounded, CountersBounded, providerVars
<1>4. \A p \in AuthProcesses : readState'[p].data \in Credentials
  BY DEF AuthBounded, CredentialsKnown
<1> QED
  BY <1>1, <1>2, <1>3, <1>4, OperationBounded

LEMMA CommitsBounded ==
  ASSUME AuthBounded, AuthInv', NEW o \in Operations,
         CommitLogin(o) \/ CommitLogout(o) \/ StoreRefreshed(o)
  PROVE  AuthBounded'
<1>1. /\ authFile.data \in Credentials /\ applied \in Credentials /\ OperationKnown(operations[o])
      /\ started \in 0..MaxOperations /\ 0 \in 0..MaxTokens
  BY AuthBoundsAssumption DEF AuthBounded, CredentialsKnown, CountersBounded
<1>2. CASE CommitLogin(o)
  <2>1. /\ [authFile.data EXCEPT !.other = started] \in Credentials
        /\ [applied EXCEPT !.other = started] \in Credentials
    BY <1>1 DEF Credentials
  <2>2. /\ Early(operations[o]) /\ applied' \in Credentials
        /\ Commit(o, [authFile.data EXCEPT !.other = started])
        /\ UNCHANGED <<readState, providerVars, started, crashes, mishaps>>
    BY <1>2, <2>1 DEF CommitLogin, Locks, Early
  <2> QED
    BY <2>1, <2>2, CommitBounded
<1>3. CASE CommitLogout(o)
  <2>1. /\ [authFile.data EXCEPT !.token = 0] \in Credentials
        /\ [applied EXCEPT !.token = 0] \in Credentials
    BY <1>1 DEF Credentials
  <2>2. /\ Early(operations[o]) /\ applied' \in Credentials
        /\ Commit(o, [authFile.data EXCEPT !.token = 0])
        /\ UNCHANGED <<readState, providerVars, started, crashes, mishaps>>
    BY <1>3, <2>1 DEF CommitLogout, Locks, Early
  <2> QED
    BY <2>1, <2>2, CommitBounded
<1>4. CASE StoreRefreshed(o)
  <2>1. Merged(o) \in Credentials /\ [applied EXCEPT !.token = operations[o].token] \in Credentials
    BY <1>1 DEF Credentials, OperationKnown, Merged
  <2>2. /\ Early(operations[o]) /\ applied' \in Credentials
        /\ Commit(o, Merged(o))
        /\ UNCHANGED <<readState, providerVars, started, crashes, mishaps>>
    BY <1>4, <2>1 DEF StoreRefreshed, Early
  <2> QED
    BY <2>1, <2>2, CommitBounded
<1> QED
  BY <1>2, <1>3, <1>4

(* Steps of an operation that commit nothing.                               *)
LEMMA QuietBounded ==
  ASSUME AuthBounded, AuthInv', NEW o \in Operations,
         \/ GiveUpWaiting(o) \/ BeginRefresh(o) \/ LockFails(o) \/ ServerRefreshes(o)
         \/ ServerRefuses(o) \/ RefreshFails(o) \/ Compromised(o) \/ ReleaseLock(o) \/ Settle(o)
  PROVE  AuthBounded'
<1>1. /\ authFile.data \in Credentials /\ applied \in Credentials
      /\ \A p \in AuthProcesses : readState[p].data \in Credentials
      /\ OperationKnown(operations[o]) /\ operations[o] \in AnyOperation
      /\ authFile.revision \in Nat /\ authFile.data \in AnyCredentials
      /\ readState \in [AuthProcesses -> [data : AnyCredentials, revision : Nat]]
  BY DEF AuthBounded, CredentialsKnown, AuthInv, AuthTyped, FileTyped, OperationsTyped
<1>2. /\ issued' \in 1..MaxTokens /\ UNCHANGED <<authFile, started, crashes, applied>>
      /\ mishaps' \subseteq {"stolen", "lost", "torn", "reused"}
  BY AuthBoundsAssumption
     DEF AuthBounded, CountersBounded, GiveUpWaiting, BeginRefresh, LockFails,
         ServerRefreshes, ServerRefuses, RefreshFails, Compromised, ReleaseLock, Settle,
         providerVars, authHistory
<1>3. CountersBounded'
  BY <1>2 DEF AuthBounded, CountersBounded
<1>4. \A p \in AuthProcesses : readState'[p].data \in Credentials
  <2>1. CASE Settle(o)
    BY <1>1, <2>1 DEF Settle, OperationKnown
  <2>2. CASE UNCHANGED readState
    BY <1>1, <2>2
  <2> QED
    BY <2>1, <2>2 DEF GiveUpWaiting, BeginRefresh, LockFails, ServerRefreshes, ServerRefuses,
                      RefreshFails, Compromised, ReleaseLock
<1>5. ASSUME NEW x \in AnyOperation, Becomes(o, x), OperationKnown(x),
             Early(x) => Early(operations[o])
      PROVE  AuthBounded'
  BY <1>1, <1>2, <1>3, <1>4, <1>5, OperationBounded
<1>6. CASE GiveUpWaiting(o) \/ Settle(o) \/ (ReleaseLock(o) /\ ~operations[o].ok)
  BY <1>5, <1>6, IdleTyped, IdleKnown DEF GiveUpWaiting, Settle, ReleaseLock
<1>7. CASE LockFails(o) \/ ServerRefuses(o) \/ RefreshFails(o)
  BY <1>5, <1>7, FailsKnown DEF LockFails, ServerRefuses, RefreshFails
<1>8. CASE BeginRefresh(o) /\ authFile.data.token \notin due
  BY <1>1, <1>5, <1>8, SucceedsKnown DEF BeginRefresh
<1>9. CASE BeginRefresh(o) /\ authFile.data.token \in due
  <2> DEFINE x == [operations[o] EXCEPT !.at = "requesting", !.data = authFile.data]
  <2>1. x \in AnyOperation /\ OperationKnown(x)
    BY <1>1 DEF AnyOperation, OperationStages, OperationKnown
  <2>2. Becomes(o, x) /\ Early(operations[o])
    BY <1>9 DEF BeginRefresh, Locks, Early
  <2> HIDE DEF x
  <2> QED
    BY <1>5, <2>1, <2>2
<1>10. CASE ServerRefreshes(o)
  <2> DEFINE x == [operations[o] EXCEPT !.at = "refreshed", !.token = issued + 1]
  <2>1. issued + 1 \in 1..MaxTokens
    BY <1>2, <1>10 DEF ServerRefreshes
  <2>2. issued + 1 \in Nat /\ issued + 1 \in 0..MaxTokens
    BY <2>1, AuthBoundsAssumption
  <2>3. x \in AnyOperation /\ OperationKnown(x)
    BY <1>1, <2>2 DEF AnyOperation, OperationStages, OperationKnown
  <2>4. Becomes(o, x) /\ Early(operations[o])
    BY <1>10 DEF ServerRefreshes, Early
  <2> HIDE DEF x
  <2> QED
    BY <1>5, <2>3, <2>4
<1>11. CASE Compromised(o)
  <2> DEFINE x == [operations[o] EXCEPT !.compromised = TRUE]
  <2>1. x \in AnyOperation /\ OperationKnown(x) /\ x.at = operations[o].at
    BY <1>1 DEF AnyOperation, OperationKnown
  <2>2. Becomes(o, x) /\ (Early(x) => Early(operations[o]))
    BY <1>11, <2>1 DEF Compromised, Early
  <2> HIDE DEF x
  <2> QED
    BY <1>5, <2>1, <2>2
<1>12. CASE ReleaseLock(o) /\ operations[o].ok
  <2> DEFINE x == [operations[o] EXCEPT !.at = "settling"]
  <2>1. x \in AnyOperation /\ OperationKnown(x) /\ x.at = "settling"
    BY <1>1 DEF AnyOperation, OperationStages, OperationKnown
  <2>2. Becomes(o, x) /\ ~Early(x)
    BY <1>12, <2>1 DEF ReleaseLock, Moves, Early
  <2> HIDE DEF x
  <2> QED
    BY <1>5, <2>1, <2>2
<1> QED
  BY <1>6, <1>7, <1>8, <1>9, <1>10, <1>11, <1>12

LEMMA ProcessStepBounded ==
  ASSUME AuthBounded, AuthInv', NEW p \in AuthProcesses, ProcessStep(p)
  PROVE  AuthBounded'
<1>1. /\ authFile.data \in Credentials /\ applied \in Credentials
      /\ \A q \in AuthProcesses : readState[q].data \in Credentials
      /\ \A o \in Operations : OperationKnown(operations[o])
      /\ readState \in [AuthProcesses -> [data : AnyCredentials, revision : Nat]]
  BY DEF AuthBounded, CredentialsKnown, AuthInv, AuthTyped, FileTyped
<1>2. /\ issued' = issued /\ started' = started /\ applied' = applied
      /\ mishaps' \subseteq {"stolen", "lost", "torn", "reused"}
  BY DEF AuthBounded, CountersBounded, ProcessStep, Reload, ReloadFails, Construct, CrashAuth,
         CrashWriting, Dies, providerVars, authHistory
<1>3. ASSUME \/ UNCHANGED <<authFile, crashes>>
             \/ Dies(p) /\ \/ UNCHANGED authFile
                           \/ /\ authFile'.data = NoCredentials
                              /\ authFile'.revision = authFile.revision + 1,
             \A q \in AuthProcesses : readState'[q].data \in Credentials,
             \A o \in Operations : /\ OperationKnown(operations'[o])
                                   /\ Early(operations'[o]) => Early(operations[o])
      PROVE  AuthBounded'
  <2>1. crashes' \in {crashes, crashes + 1} /\ crashes' \in 0..MaxAuthCrashes
    BY <1>3, AuthBoundsAssumption DEF Dies, AuthBounded, CountersBounded
  <2>2. CountersBounded'
    BY <1>2, <2>1 DEF AuthBounded, CountersBounded
  <2>3. /\ authFile'.data \in Credentials
        /\ \/ authFile'.revision = authFile.revision /\ crashes' = crashes
           \/ /\ authFile'.revision \in {authFile.revision, authFile.revision + 1}
              /\ crashes' = crashes + 1
    BY <1>1, <1>3, IdleKnown DEF Dies
  <2> QED
    BY <1>2, <1>3, <2>2, <2>3, ProcessBounded
<1>4. CASE Reload(p)
  <2>1. \A q \in AuthProcesses : readState'[q].data \in Credentials
    BY <1>1, <1>4 DEF Reload
  <2>2. \A o \in Operations : o \notin Readers(p) => operations'[o] = operations[o]
    BY <1>4 DEF Reload
  <2>3. ASSUME NEW o \in Readers(p)
        PROVE  OperationKnown(operations'[o]) /\ Early(operations[o])
    <3>1. operations'[o] = [Idle EXCEPT !.at = AfterRead(authFile.data)]
      BY <1>4 DEF Reload, Readers
    <3> QED
      BY <3>1, IdleKnown DEF Readers, OperationKnown, Early, Idle
  <2> QED
    BY <1>1, <1>3, <1>4, <2>1, <2>2, <2>3 DEF Reload, authHistory, Readers
<1>5. CASE ReloadFails(p)
  <2>1. \A o \in Operations : operations'[o] \in {Idle, operations[o]}
    BY <1>5 DEF ReloadFails
  <2> QED
    BY <1>1, <1>3, <1>5, <2>1, IdleKnown DEF ReloadFails, authHistory
<1>6. CASE Construct(p)
  <2>1. \A q \in AuthProcesses : readState'[q].data \in Credentials
    BY <1>1, <1>6 DEF Construct
  <2> QED
    BY <1>1, <1>3, <1>6, <2>1 DEF Construct
<1>7. CASE CrashAuth(p) \/ CrashWriting(p)
  <2>1. Dies(p) /\ \/ UNCHANGED authFile
                   \/ /\ authFile'.data = NoCredentials
                      /\ authFile'.revision = authFile.revision + 1
    BY <1>7 DEF CrashAuth, CrashWriting
  <2>2. \A q \in AuthProcesses : readState'[q].data \in Credentials
    BY <1>1, <2>1, IdleKnown DEF Dies
  <2>3. \A o \in Operations : operations'[o] \in {Idle, operations[o]}
    BY <2>1 DEF Dies
  <2> QED
    BY <1>1, <1>3, <2>1, <2>2, <2>3, IdleKnown
<1> QED
  BY <1>4, <1>5, <1>6, <1>7 DEF ProcessStep

LEMMA AuthBoundedStep == AuthBounded /\ [AuthNext]_authVars => AuthBounded'
<1> SUFFICES ASSUME AuthBounded, [AuthNext]_authVars PROVE AuthBounded'
  OBVIOUS
<1>1. AuthInv'
  BY AuthStepKeeps DEF AuthBounded
<1>2. CASE UNCHANGED authVars \/ \E t \in 1..MaxTokens : TokenExpires(t)
  <2>1. UNCHANGED <<authFile, operations, readState, issued, started, crashes, applied, mishaps>>
    BY <1>2 DEF TokenExpires, authVars, authHistory
  <2>2. CredentialsKnown' /\ CountersBounded' /\ RevisionsCounted'
    BY <2>1 DEF AuthBounded, CredentialsKnown, CountersBounded, RevisionsCounted, Uncommitted,
                OperationKnown, Early
  <2> QED
    BY <1>1, <2>2 DEF AuthBounded
<1>3. ASSUME NEW o \in Operations, OperationStep(o) PROVE AuthBounded'
  BY <1>1, <1>3, StartBounded, CommitsBounded, QuietBounded DEF OperationStep
<1>4. ASSUME NEW p \in AuthProcesses, ProcessStep(p) PROVE AuthBounded'
  BY <1>1, <1>4, ProcessStepBounded
<1> QED
  BY <1>2, <1>3, <1>4 DEF AuthNext

LEMMA AuthBoundedTyped == AuthBounded => AuthTypeOK
<1> SUFFICES ASSUME AuthBounded PROVE AuthTypeOK
  OBVIOUS
<1>1. /\ authFile \in [data : AnyCredentials, revision : Nat \ {0}, parses : BOOLEAN]
      /\ readState \in [AuthProcesses -> [data : AnyCredentials, revision : Nat]]
      /\ operations \in [Operations -> AnyOperation]
      /\ lockFile \in Operations \cup {NoOperation}
      /\ valid \subseteq 1..issued /\ due \subseteq 1..issued
      /\ CountersBounded /\ CredentialsKnown /\ RevisionsCounted /\ RevisionsKnown
  BY DEF AuthBounded, AuthInv, AuthTyped, FileTyped, OperationsTyped, TokensTyped
<1>2. authFile.revision \in 1..MaxAuthRevision
  <2>1. Cardinality(Uncommitted) \in Nat
    BY <1>1, FS_CardinalityType DEF RevisionsCounted
  <2> QED
    BY <1>1, <2>1, AuthBoundsAssumption DEF RevisionsCounted, CountersBounded, MaxAuthRevision
<1>3. authFile \in [data : Credentials, revision : 1..MaxAuthRevision, parses : BOOLEAN]
  BY <1>1, <1>2 DEF CredentialsKnown
<1>4. \A r \in Nat : r <= authFile.revision => r \in 0..MaxAuthRevision
  BY <1>2, AuthBoundsAssumption DEF MaxAuthRevision
<1>5. readState \in [AuthProcesses -> [data : Credentials, revision : 0..MaxAuthRevision]]
  <2>1. \A p \in AuthProcesses : readState[p] \in [data : Credentials, revision : 0..MaxAuthRevision]
    BY <1>1, <1>4 DEF CredentialsKnown, RevisionsKnown, Believes
  <2> QED
    BY <1>1, <2>1
<1> DEFINE Bounded == [kind : {"getAuth", "login", "logout"}, at : OperationStages,
                       data : Credentials, token : 0..MaxTokens, latest : Credentials,
                       revision : 0..MaxAuthRevision, compromised : BOOLEAN, ok : BOOLEAN]
<1>6. operations \in [Operations -> Bounded]
  <2>1. ASSUME NEW o \in Operations PROVE operations[o] \in Bounded
    <3>1. operations[o] \in AnyOperation /\ OperationKnown(operations[o])
      BY <1>1 DEF CredentialsKnown
    <3>2. operations[o].revision \in 0..MaxAuthRevision
      BY <1>1, <1>4, <3>1 DEF RevisionsKnown, Believes, AnyOperation
    <3> QED
      BY <3>1, <3>2 DEF AnyOperation, OperationKnown
  <2> QED
    BY <1>1, <2>1
<1> QED
  BY <1>1, <1>3, <1>5, <1>6 DEF AuthTypeOK, CountersBounded, CredentialsKnown

(* The file, the lock, the operations and what processes have in memory     *)
(* keep their types; the revision counts the calls that committed and the   *)
(* processes that died writing, so no two contents share one.               *)
THEOREM AuthTypeCorrect == AuthSpec => []AuthTypeOK
  BY AuthInitBounded, AuthBoundedStep, AuthBoundedTyped, PTL DEF AuthSpec

-----------------------------------------------------------------------------
(* MCSharedFiles: the files side by side, one of them in use.               *)

SharedFilesInv == SqlInv /\ ProjectInv /\ FilesInv /\ AuthBounded /\ SessionFileInv

LEMMA SharedFilesInit == MCInit => SharedFilesInv
  BY InitSqlInv, ProjectStarts, FilesStart, AuthInitBounded, InitReady
     DEF MCInit, SharedFilesInv

LEMMA SharedFilesStep == SharedFilesInv /\ [MCNext]_mcVars => SharedFilesInv'
<1> SUFFICES ASSUME SharedFilesInv, [MCNext]_mcVars PROVE SharedFilesInv'
  OBVIOUS
<1>1. /\ [SqlNext]_sqlVars /\ [ProjectNext]_projectVars /\ [FilesNext]_fileVars
      /\ [AuthNext]_authVars /\ [SessionFileNext]_sessionFileVars
  BY DEF MCNext, mcVars, SessionsNext, RecordsNext, FileNext, CredentialsNext, SessionNext
<1> QED
  BY <1>1, SqlStep, ProjectStep, FilesStep, AuthBoundedStep, SessionFileStep DEF SharedFilesInv

(* The variables of every file keep their types, whichever is in use.       *)
THEOREM SharedFilesTypeCorrect == MCSpec => []SharedFilesTypeOK
<1>1. SqlInv => SqlTypeOK
  BY DEF SqlInv, LeaseInv, LeaseType, CountersOK, CacheInv, Branches, ForkInv, ForkType,
         SqlTypeOK
<1>2. FilesInv => FileTypeOK
  BY DEF FilesInv, FilesTyped, CallState, FileTypeOK
<1>3. SharedFilesInv => SharedFilesTypeOK
  BY <1>1, <1>2, AuthBoundedTyped, SessionFileInvGives
     DEF SharedFilesInv, SharedFilesTypeOK, ProjectInv
<1> QED
  BY <1>3, SharedFilesInit, SharedFilesStep, PTL DEF MCSpec

=============================================================================
