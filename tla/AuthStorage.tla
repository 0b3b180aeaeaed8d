---------------------------- MODULE AuthStorage ----------------------------
(***************************************************************************)
(* The credentials of several processes in one auth.json:                  *)
(* packages/coding-agent/src/core/auth-storage.ts, its lock file and the   *)
(* cache that follows the revision of the file, and resolveStoredOAuth of  *)
(* packages/ai/src/auth/resolve.ts, which refreshes a token under the lock.*)
(*                                                                         *)
(* The file holds an OAuth token, whose refresh makes the old one invalid, *)
(* and the credential of another provider.  It exists from the start.      *)
(***************************************************************************)
EXTENDS Naturals, FiniteSets

CONSTANTS
  AuthProcesses,    \* processes with the same auth.json
  Operations,       \* calls each process may have under way, <<process, n>>
  MaxOperations,    \* getAuth, login and logout calls       (bound)
  MaxTokens,        \* OAuth tokens ever issued              (bound)
  MaxAuthCrashes    \* processes that die                    (bound)

ASSUME OperationsAssumption == Operations \subseteq AuthProcesses \X Nat

ASSUME AuthBoundsAssumption ==
  /\ MaxOperations \in Nat
  /\ MaxTokens \in Nat \ {0}
  /\ MaxAuthCrashes \in Nat

VARIABLES
  authFile,    \* auth.json: its credentials, its revision, whether it parses
  lockFile,    \* the operation that made the lock file, NoOperation for none
  operations,  \* the operations of each process
  readState,   \* data and revision each process has in memory
  valid,       \* the OAuth provider: tokens it refreshes
  due,         \* tokens that expire soon
  issued,      \* history: tokens issued so far
  started,     \* history: operations so far
  crashes,     \* history: processes that died
  applied,     \* history: what the updates make of the credentials, one by one
  mishaps      \* history: what happened of "stolen", "lost", "torn", "reused"

authVars == <<authFile, lockFile, operations, readState, valid, due, issued,
              started, crashes, applied, mishaps>>

NoOperation == <<>>

(* Credentials: token 0 for logged out, and the value other was set to.    *)
Credentials == [token : 0..MaxTokens, other : 0..MaxOperations]

NoCredentials == [token |-> 0, other |-> 0]

(* Revision 0 is undefined.                                                *)
MaxAuthRevision == 1 + MaxOperations + MaxAuthCrashes

(* An operation: what it is for, where it is, what it read under the lock   *)
(* and the token it was given, what updateReadState will be called with,   *)
(* and whether onCompromised was called.                                   *)
OperationStages == {"idle", "reading", "locking", "requesting", "refreshed",
                    "releasing", "settling"}

Idle == [kind |-> "getAuth", at |-> "idle", data |-> NoCredentials, token |-> 0,
         latest |-> NoCredentials, revision |-> 0, compromised |-> FALSE, ok |-> FALSE]

AuthTypeOK ==
  /\ authFile \in [data : Credentials, revision : 1..MaxAuthRevision, parses : BOOLEAN]
  /\ lockFile \in Operations \cup {NoOperation}
  /\ operations \in
       [Operations -> [kind : {"getAuth", "login", "logout"}, at : OperationStages,
                       data : Credentials, token : 0..MaxTokens, latest : Credentials,
                       revision : 0..MaxAuthRevision, compromised : BOOLEAN,
                       ok : BOOLEAN]]
  /\ readState \in [AuthProcesses -> [data : Credentials, revision : 0..MaxAuthRevision]]
  /\ valid \subseteq 1..issued /\ due \subseteq 1..issued /\ issued \in 1..MaxTokens
  /\ started \in 0..MaxOperations /\ crashes \in 0..MaxAuthCrashes
  /\ applied \in Credentials
  /\ mishaps \subseteq {"stolen", "lost", "torn", "reused"}

AuthInit ==
  /\ authFile = [data |-> [token |-> 1, other |-> 0], revision |-> 1, parses |-> TRUE]
  /\ lockFile = NoOperation
  /\ operations = [o \in Operations |-> Idle]
  /\ readState = [p \in AuthProcesses |-> [data |-> NoCredentials, revision |-> 0]]
  /\ valid = {1} /\ due = {} /\ issued = 1
  /\ started = 0 /\ crashes = 0
  /\ applied = [token |-> 1, other |-> 0]
  /\ mishaps = {}

providerVars == <<valid, due, issued>>
authHistory == <<started, crashes, applied, mishaps>>

(* An operation that made the lock file and has not yet let go of it.       *)
Requesting(o) == operations[o].at \in {"requesting", "refreshed"}
Live == lockFile # NoOperation /\ (Requesting(lockFile) \/ operations[lockFile].at = "releasing")

(* lockfile.lock: there is no lock file, or one whose process is gone, once *)
(* it is 30 seconds old.                                                   *)
Lockable == ~Live

Becomes(o, change) == operations' = [operations EXCEPT ![o] = change]
Moves(o, stage) == Becomes(o, [operations[o] EXCEPT !.at = stage])

-----------------------------------------------------------------------------
(* Reading: readLatestData.                                                *)

Fresh(p) == readState[p].revision = authFile.revision

Start(o, kind, stage) ==
  /\ operations[o].at = "idle" /\ started < MaxOperations
  /\ started' = started + 1
  /\ stage # "idle"
  /\ Becomes(o, [Idle EXCEPT !.kind = kind, !.at = stage])
  /\ UNCHANGED <<authFile, lockFile, readState, providerVars, crashes, applied, mishaps>>

(* resolveStoredOAuth: a token that does not expire soon is used as it is. *)
AfterRead(data) == IF data.token \in due THEN "locking" ELSE "idle"

(* getAuth reads the credential: from memory while the revision of the     *)
(* file is the one in memory, otherwise with a reload.                     *)
GetAuth(o) ==
  Start(o, "getAuth",
        IF Fresh(o[1]) THEN AfterRead(readState[o[1]].data) ELSE "reading")

Readers(p) == {o \in Operations : o[1] = p /\ operations[o].at = "reading"}

(* One reload answers all that wait for it; it holds the lock for no       *)
(* longer than it takes to read the file.                                  *)
Reload(p) ==
  /\ Readers(p) # {} /\ Lockable /\ authFile.parses
  /\ lockFile' = NoOperation
  /\ readState' = [readState EXCEPT
       ![p] = [data |-> authFile.data, revision |-> authFile.revision]]
  /\ operations' = [o \in Operations |->
       IF o \in Readers(p) THEN [Idle EXCEPT !.at = AfterRead(authFile.data)]
                           ELSE operations[o]]
  /\ UNCHANGED <<authFile, providerVars, authHistory>>

(* The lock is not had in time or the file does not parse.                 *)
ReloadFails(p) ==
  /\ Readers(p) # {}
  /\ operations' = [o \in Operations |-> IF o \in Readers(p) THEN Idle ELSE operations[o]]
  /\ UNCHANGED <<authFile, lockFile, readState, providerVars, authHistory>>

(* The constructor of another AuthStorage of the process reloads at once.   *)
(* lockSync is called without the 30 seconds of withLockAsync: the library *)
(* takes a lock file for stale after 10 seconds, and the file of an         *)
(* operation that waits for an answer is not touched before 15 have passed.*)
Construct(p) ==
  /\ ~Fresh(p)
  /\ lockFile # NoOperation => Lockable \/ Requesting(lockFile)
  /\ lockFile' = NoOperation
  /\ readState' = IF authFile.parses
       THEN [readState EXCEPT ![p] = [data |-> authFile.data, revision |-> authFile.revision]]
       ELSE readState
  /\ mishaps' = IF Live THEN mishaps \cup {"stolen"} ELSE mishaps
  /\ UNCHANGED <<authFile, operations, providerVars, started, crashes, applied>>

-----------------------------------------------------------------------------
(* Changing: modify and delete under the lock.                             *)

Login(o)  == Start(o, "login", "locking")
Logout(o) == Start(o, "logout", "locking")

(* An abort before the lock is had, or a lock that is not had in time.     *)
GiveUpWaiting(o) ==
  /\ operations[o].at \in {"reading", "locking"}
  /\ Becomes(o, Idle)
  /\ UNCHANGED <<authFile, lockFile, readState, providerVars, authHistory>>

(* withLockAsync ends, and updateReadState will be called with latest and  *)
(* revision; or it fails.                                                  *)
Succeeds(o, latest, revision) ==
  Becomes(o, [Idle EXCEPT !.at = "releasing", !.latest = latest, !.revision = revision,
                          !.ok = TRUE])
Fails(o) == Becomes(o, [Idle EXCEPT !.at = "releasing"])

(* fn returned credentials: they are written to the file.                  *)
Commit(o, data) ==
  /\ authFile' = [authFile EXCEPT !.data = data, !.revision = @ + 1]
  /\ Succeeds(o, data, 0)

Locks(o) ==
  /\ operations[o].at = "locking" /\ Lockable
  /\ lockFile' = o

(* modify of another provider's credential, delete of the token.           *)
CommitLogin(o) ==
  /\ Locks(o) /\ authFile.parses /\ operations[o].kind = "login"
  /\ Commit(o, [authFile.data EXCEPT !.other = started])
  /\ applied' = [applied EXCEPT !.other = started]
  /\ UNCHANGED <<readState, providerVars, started, crashes, mishaps>>

CommitLogout(o) ==
  /\ Locks(o) /\ authFile.parses /\ operations[o].kind = "logout"
  /\ Commit(o, [authFile.data EXCEPT !.token = 0])
  /\ applied' = [applied EXCEPT !.token = 0]
  /\ UNCHANGED <<readState, providerVars, started, crashes, mishaps>>

(* The check under the lock: the token may have been refreshed or deleted   *)
(* meanwhile.                                                              *)
BeginRefresh(o) ==
  /\ Locks(o) /\ authFile.parses /\ operations[o].kind = "getAuth"
  /\ IF authFile.data.token \in due
       THEN Becomes(o, [operations[o] EXCEPT !.at = "requesting", !.data = authFile.data])
       ELSE Succeeds(o, authFile.data, authFile.revision)
  /\ UNCHANGED <<authFile, readState, providerVars, authHistory>>

(* JSON.parse throws: nothing changes until somebody repairs the file.     *)
LockFails(o) ==
  /\ Locks(o) /\ ~authFile.parses
  /\ Fails(o)
  /\ UNCHANGED <<authFile, readState, providerVars, authHistory>>

(* The provider answers with a new token,                                  *)
ServerRefreshes(o) ==
  /\ operations[o].at = "requesting" /\ issued < MaxTokens
  /\ operations[o].data.token \in valid
  /\ issued' = issued + 1
  /\ valid' = (valid \ {operations[o].data.token}) \cup {issued + 1}
  /\ Becomes(o, [operations[o] EXCEPT !.at = "refreshed", !.token = issued + 1])
  /\ UNCHANGED <<authFile, lockFile, readState, due, authHistory>>

(* or refuses one that was refreshed before.                               *)
ServerRefuses(o) ==
  /\ operations[o].at = "requesting" /\ operations[o].data.token \notin valid
  /\ mishaps' = mishaps \cup {"reused"}
  /\ Fails(o)
  /\ UNCHANGED <<authFile, lockFile, readState, providerVars, started, crashes, applied>>

(* modify puts the new token next to the credentials it read.              *)
Merged(o) == [operations[o].data EXCEPT !.token = operations[o].token]

(* The answer arrives.                                                     *)
StoreRefreshed(o) ==
  /\ operations[o].at = "refreshed" /\ ~operations[o].compromised
  /\ Commit(o, Merged(o))
  /\ applied' = [applied EXCEPT !.token = operations[o].token]
  /\ UNCHANGED <<lockFile, readState, providerVars, started, crashes, mishaps>>

(* The request fails, times out or is aborted, or throwIfCompromised throws *)
(* behind it: the new token, if there is one, is lost.                     *)
RefreshFails(o) ==
  /\ Requesting(o)
  /\ mishaps' = IF operations[o].at = "refreshed" THEN mishaps \cup {"lost"} ELSE mishaps
  /\ Fails(o)
  /\ UNCHANGED <<authFile, lockFile, readState, providerVars, started, crashes, applied>>

(* The library finds the lock file gone or another's when it next touches   *)
(* it: onCompromised.                                                      *)
Compromised(o) ==
  /\ Requesting(o) /\ lockFile # o /\ ~operations[o].compromised
  /\ Becomes(o, [operations[o] EXCEPT !.compromised = TRUE])
  /\ UNCHANGED <<authFile, lockFile, readState, providerVars, authHistory>>

(* release deletes the lock file, also one of an operation that took it     *)
(* over, unless the library knows by now; an error is ignored.             *)
ReleaseLock(o) ==
  /\ operations[o].at = "releasing"
  /\ lockFile' \in {lockFile, NoOperation} /\ lockFile' # o
  /\ IF operations[o].ok THEN Moves(o, "settling") ELSE Becomes(o, Idle)
  /\ UNCHANGED <<authFile, readState, providerVars, authHistory>>

\* Mutant: the revision is taken when the lock is released.
SettleLate(o) ==
  /\ operations[o].at = "settling"
  /\ readState' = [readState EXCEPT
       ![o[1]] = [data |-> operations[o].latest, revision |-> authFile.revision]]
  /\ Becomes(o, Idle)
  /\ UNCHANGED <<authFile, lockFile, providerVars, authHistory>>

(* updateReadState: behind a write without a revision, so that the next     *)
(* read reloads.                                                           *)
Settle(o) ==
  /\ operations[o].at = "settling"
  /\ readState' = [readState EXCEPT
       ![o[1]] = [data |-> operations[o].latest, revision |-> operations[o].revision]]
  /\ Becomes(o, Idle)
  /\ UNCHANGED <<authFile, lockFile, providerVars, authHistory>>

-----------------------------------------------------------------------------
(* Surroundings.                                                           *)

TokenExpires(t) ==
  /\ t \in 1..issued /\ t \notin due
  /\ due' = due \cup {t}
  /\ UNCHANGED <<authFile, lockFile, operations, readState, valid, issued, authHistory>>

(* A process dies; its lock file stays behind.                             *)
Dies(p) ==
  /\ crashes < MaxAuthCrashes
  /\ crashes' = crashes + 1
  /\ operations' = [o \in Operations |-> IF o[1] = p THEN Idle ELSE operations[o]]
  /\ readState' = [readState EXCEPT ![p] = [data |-> NoCredentials, revision |-> 0]]
  /\ UNCHANGED <<lockFile, providerVars, started, applied>>

Refreshed(p) == \E o \in Operations : o[1] = p /\ operations[o].at = "refreshed"

CrashAuth(p) ==
  /\ Dies(p)
  /\ mishaps' = IF Refreshed(p) THEN mishaps \cup {"lost"} ELSE mishaps
  /\ UNCHANGED authFile

(* It dies in writeFileSync, which truncates the file before it writes:     *)
(* what is left is empty, which reads as no credentials, or does not parse.*)
CrashWriting(p) ==
  /\ Dies(p)
  /\ \E o \in Operations : o[1] = p /\
       \/ operations[o].at = "refreshed" /\ ~operations[o].compromised
       \/ operations[o].at = "locking" /\ operations[o].kind # "getAuth"
          /\ Lockable /\ authFile.parses
  /\ \E parses \in BOOLEAN :
       authFile' = [data |-> NoCredentials, revision |-> authFile.revision + 1,
                    parses |-> parses]
  /\ mishaps' = mishaps \cup {"torn"} \cup (IF Refreshed(p) THEN {"lost"} ELSE {})

OperationStep(o) ==
  \/ GetAuth(o) \/ Login(o) \/ Logout(o) \/ GiveUpWaiting(o)
  \/ CommitLogin(o) \/ CommitLogout(o) \/ BeginRefresh(o) \/ LockFails(o)
  \/ ServerRefreshes(o) \/ ServerRefuses(o) \/ StoreRefreshed(o) \/ RefreshFails(o)
  \/ Compromised(o) \/ ReleaseLock(o) \/ Settle(o)

ProcessStep(p) ==
  Reload(p) \/ ReloadFails(p) \/ Construct(p) \/ CrashAuth(p) \/ CrashWriting(p)

AuthNext ==
  \/ \E o \in Operations : OperationStep(o)
  \/ \E p \in AuthProcesses : ProcessStep(p)
  \/ \E t \in 1..MaxTokens : TokenExpires(t)

AuthSpec == AuthInit /\ [][AuthNext]_authVars

-----------------------------------------------------------------------------
(* Properties.                                                             *)

(* "lock, re-check expiry under the lock, refresh once globally"            *)
(* (resolve.ts:123): no two operations ask for the refresh of a token at   *)
(* the same time.  The code does not keep it (see Construct).              *)
RefreshOnceGlobally ==
  \A o, q \in Operations : Requesting(o) /\ Requesting(q) => o = q

(* What processes change in the file at the same time is not lost.         *)
UpdatesKept == mishaps \cap {"stolen", "torn"} = {} => authFile.data = applied

(* A token is refreshed once, and the one in the file is the one the        *)
(* provider still refreshes, unless an answer never reached the file.      *)
TokenUsable ==
  mishaps \cap {"stolen", "lost"} = {} =>
    /\ "reused" \notin mishaps
    /\ \/ authFile.data.token \in valid \cup {0}
       \/ \E o \in Operations : operations[o].at = "refreshed"

(* Data a process takes for current are what the file holds, however the    *)
(* releases and updates of its operations overtake each other.             *)
ReadStateCurrent ==
  "stolen" \notin mishaps =>
    \A p \in AuthProcesses : Fresh(p) => readState[p].data = authFile.data

(* While no lock file is stolen from a live process, tokens are refreshed   *)
(* once, no update is lost and no memory is stale without it being seen.   *)
CredentialsSound ==
  /\ "stolen" \notin mishaps => RefreshOnceGlobally
  /\ UpdatesKept /\ TokenUsable /\ ReadStateCurrent

=============================================================================
