---------------------------- MODULE AuthStorage ----------------------------
(***************************************************************************)
(* The credentials of the coding agent: core/auth-storage.ts.  Instances of *)
(* the program share one file; each keeps a copy in memory.                 *)
(*                                                                         *)
(* set(), remove() and reload() lock the file, read it, perhaps write it    *)
(* and unlock it in one synchronous stretch, so that each is one step; they *)
(* give up when the file stays locked.  A call of getApiKey() that finds    *)
(* an expired token awaits the lock, looks at the file again, and holds the *)
(* lock while it asks the provider for a new token.  The provider has       *)
(* exchanged the token before its answer arrives, if it does, and before    *)
(* the new one is in the file.                                              *)
(*                                                                         *)
(* A credential is a number, given out once.  A token that was refreshed is *)
(* no good for another refresh.  Keys from the command line, from the       *)
(* environment and from the fallback resolver are left out: they change     *)
(* nothing in memory or in the file.  So are files that cannot be created   *)
(* or read although they can be locked and hold valid JSON.                 *)
(***************************************************************************)
EXTENDS Naturals

CONSTANTS Instances,      \* processes
          Requests,       \* calls of getApiKey, each may be made again and again
          InstanceOf,     \* per request: the instance it is made in
          Providers,
          OAuthProviders, \* those whose credentials are tokens
          Given,          \* credentials given out before the model starts
          InitialFile,    \* auth.json then: per provider one of them, or 0
          MaxIssued       \* bound: credentials given out

Nobody == "nobody"

ASSUME AuthAssumption ==
  /\ Nobody \notin Requests
  /\ InstanceOf \in [Requests -> Instances]
  /\ OAuthProviders \subseteq Providers
  /\ Given \in Nat /\ MaxIssued \in Nat
  /\ InitialFile \in [Providers -> 0..Given]
  /\ \A p, q \in Providers :
       (p # q /\ InitialFile[p] = InitialFile[q]) => InitialFile[p] = 0

VARIABLES
  credentials, \* auth.json: per provider a credential, or 0
  unreadable,  \* auth.json is not valid JSON
  present,     \* auth.json exists
  linked,      \* auth.json is a symbolic link: lockSync locks the link, lock its target
  lock,        \* the request that holds the lock, or has left it behind
  left,        \* a synchronous method has left its lock behind
  running,     \* instances that have been started
  creating,    \* instances that are starting and found no file
  data,        \* AuthStorage.data of each instance
  loadError,   \* instances whose loadError is set
  request,     \* where each request is
  asked,       \* the provider it is for
  base,        \* currentData: what it has read under the lock
  answer,      \* the new token that the provider has given out for it
  compromised, \* requests told that their lock was taken from them
  issued,      \* credentials given out so far
  expired,     \* tokens that have expired
  spent,       \* tokens that a provider has exchanged for a new one
  lost,        \* history: those whose new token never reached the file
  stored,      \* history: per provider the last change that was reported as stored
  mishap       \* history: a lock was taken from a request at work, a write was cut off,
               \* or the file was created over what another instance had stored

fileVars    == <<credentials, unreadable, present, linked>>
lockVars    == <<lock, left, compromised>>
memoryVars  == <<running, creating, data, loadError>>
requestVars == <<request, asked, base, answer>>
tokenVars   == <<issued, expired, spent, lost>>
authVars    == <<fileVars, lockVars, memoryVars, requestVars, tokenVars, stored, mishap>>

NoCredentials == [p \in Providers |-> 0]

AuthInit ==
  /\ present \in BOOLEAN /\ linked \in BOOLEAN
  /\ credentials = (IF present THEN InitialFile ELSE NoCredentials) /\ unreadable = FALSE
  /\ lock = Nobody /\ left = FALSE /\ compromised = {}
  /\ running = {} /\ creating = {} /\ loadError = {}
  /\ data = [i \in Instances |-> NoCredentials]
  /\ request = [c \in Requests |-> "idle"]
  /\ asked \in [Requests -> OAuthProviders]
  /\ base = [c \in Requests |-> NoCredentials] /\ answer = [c \in Requests |-> 0]
  /\ issued = Given /\ expired = {} /\ spent = {} /\ lost = {}
  /\ stored = credentials /\ mishap = FALSE

-----------------------------------------------------------------------------
(* The synchronous methods.                                                  *)

(* lockSync gets its lock, which is that of lock unless the file is a link.  *)
SyncFree  == ~left /\ (linked \/ lock = Nobody)
AsyncFree == lock = Nobody /\ (linked \/ ~left)

(* withLock gets the lock and fn can parse what is there.                    *)
Readable == SyncFree /\ ~unreadable

(* reload                                                                    *)
LoadInto(i) ==
  IF Readable
  THEN /\ data' = [data EXCEPT ![i] = credentials]
       /\ loadError' = loadError \ {i}
  ELSE loadError' = loadError \cup {i} /\ UNCHANGED data

(* ensureFileExists: nothing is locked yet, and once it is there the file    *)
(* stays.                                                                    *)
FindNoFile(i) ==
  /\ i \notin running \cup creating /\ ~present
  /\ creating' = creating \cup {i}
  /\ UNCHANGED <<fileVars, lockVars, running, data, loadError, requestVars, tokenVars, stored,
                 mishap>>

CreateFile(i) ==
  /\ i \in creating
  /\ creating' = creating \ {i}
  /\ present' = TRUE /\ unreadable' = FALSE /\ credentials' = NoCredentials
  /\ mishap' = (mishap \/ credentials # NoCredentials)
  /\ UNCHANGED <<linked, lockVars, running, data, loadError, requestVars, tokenVars, stored>>

(* The constructor.                                                          *)
StartInstance(i) ==
  /\ i \notin running \cup creating /\ present
  /\ running' = running \cup {i}
  /\ LoadInto(i)
  /\ UNCHANGED <<fileVars, lockVars, creating, requestVars, tokenVars, stored, mishap>>

Reload(i) ==
  /\ i \in running
  /\ LoadInto(i)
  /\ UNCHANGED <<fileVars, lockVars, running, creating, requestVars, tokenVars, stored, mishap>>

(* writeFileSync empties the file before it writes: when it fails, or the    *)
(* process dies, the file may be empty or hold a part of the text.           *)
WriteCutOff ==
  /\ \/ unreadable' = TRUE /\ UNCHANGED credentials
     \/ unreadable' = FALSE /\ credentials' = NoCredentials
  /\ present' = TRUE /\ mishap' = TRUE

(* Mutant: the other providers are written as this instance remembers them.  *)
MergedFromMemory(i, p, n) == [data[i] EXCEPT ![p] = n]

Merged(i, p, n) == [credentials EXCEPT ![p] = n]

(* persistProviderChange.  It fails, perhaps while it writes, and records    *)
(* that, or it does nothing because the last load has failed.                *)
PersistProviderChange(i, p, n) ==
  \/ /\ i \notin loadError /\ Readable
     /\ credentials' = Merged(i, p, n)
     /\ stored' = [stored EXCEPT ![p] = n]
     /\ UNCHANGED <<unreadable, present, mishap>>
  \/ i \notin loadError /\ Readable /\ WriteCutOff /\ UNCHANGED stored
  \/ UNCHANGED <<credentials, unreadable, present, stored, mishap>>

(* set, remove                                                               *)
Change(i, p, n) ==
  /\ i \in running
  /\ data' = [data EXCEPT ![i][p] = n]
  /\ PersistProviderChange(i, p, n)
  /\ UNCHANGED <<linked, lockVars, running, creating, loadError, requestVars, expired, spent,
                 lost>>

SetCredential(i, p) ==
  /\ issued < MaxIssued
  /\ Change(i, p, issued + 1)
  /\ issued' = issued + 1

RemoveCredential(i, p) == Change(i, p, 0) /\ UNCHANGED issued

-----------------------------------------------------------------------------
(* getApiKey with an expired token: refreshOAuthTokenWithLock.               *)

Memory(c) == data[InstanceOf[c]]

Ask(c, p) ==
  /\ request[c] = "idle" /\ InstanceOf[c] \in running
  /\ p \in OAuthProviders /\ Memory(c)[p] \in expired
  /\ request' = [request EXCEPT ![c] = "locking"]
  /\ asked' = [asked EXCEPT ![c] = p]
  /\ UNCHANGED <<fileVars, lockVars, memoryVars, base, answer, tokenVars, stored, mishap>>

(* The retries of lockfile.lock are used up: nothing to release.             *)
LockTimesOut(c) ==
  /\ request[c] = "locking" /\ ~AsyncFree
  /\ request' = [request EXCEPT ![c] = "failed"]
  /\ UNCHANGED <<fileVars, lockVars, memoryVars, asked, base, answer, tokenVars, stored, mishap>>

(* Mutant: the refresh works on what was read before the lock.               *)
CurrentInMemory(c) == Memory(c)

Current(c) == credentials

(* The lock is taken and the file is read.  Another instance may have        *)
(* refreshed the token, or removed it, in the meantime.                      *)
TakeLock(c) ==
  /\ request[c] = "locking" /\ AsyncFree
  /\ lock' = c /\ compromised' = compromised \ {c}
  /\ \/ /\ unreadable
        /\ request' = [request EXCEPT ![c] = "aborting"]
        /\ UNCHANGED <<data, loadError, base>>
     \/ /\ ~unreadable
        /\ base' = [base EXCEPT ![c] = Current(c)]
        /\ data' = [data EXCEPT ![InstanceOf[c]] = Current(c)]
        /\ loadError' = loadError \ {InstanceOf[c]}
        /\ request' = [request EXCEPT ![c] =
                         IF Current(c)[asked[c]] \in expired THEN "refreshing" ELSE "releasing"]
  /\ UNCHANGED <<fileVars, left, running, creating, asked, answer, tokenVars, stored, mishap>>

(* The provider exchanges the token for a new one; its answer is on its way. *)
TokenExchanged(c) ==
  /\ request[c] = "refreshing" /\ issued < MaxIssued
  /\ request' = [request EXCEPT ![c] = "answered"]
  /\ spent' = spent \cup {base[c][asked[c]]}
  /\ issued' = issued + 1
  /\ answer' = [answer EXCEPT ![c] = issued + 1]
  /\ UNCHANGED <<fileVars, lockVars, memoryVars, asked, base, expired, lost, stored, mishap>>

(* The provider refuses, or the request does not get through.                *)
RefreshFails(c) ==
  /\ request[c] = "refreshing"
  /\ request' = [request EXCEPT ![c] = "aborting"]
  /\ UNCHANGED <<fileVars, lockVars, memoryVars, asked, base, answer, tokenVars, stored, mishap>>

(* The token was exchanged, and the new one is lost with the answer.         *)
AnswerLost(c) ==
  /\ request[c] = "answered"
  /\ request' = [request EXCEPT ![c] = "aborting"]
  /\ lost' = lost \cup {base[c][asked[c]]}
  /\ UNCHANGED <<fileVars, lockVars, memoryVars, asked, base, answer, issued, expired, spent,
                 stored, mishap>>

Renewed(c) == [base[c] EXCEPT ![asked[c]] = answer[c]]

(* The answer has arrived.  The new token goes to memory at once, and to the *)
(* file unless the lock is known to be lost or the write fails.              *)
SaveToken(c) ==
  /\ request[c] = "answered"
  /\ data' = [data EXCEPT ![InstanceOf[c]] = Renewed(c)]
  /\ loadError' = loadError \ {InstanceOf[c]}
  /\ \/ /\ c \notin compromised
        /\ credentials' = Renewed(c) /\ unreadable' = FALSE
        /\ stored' = [stored EXCEPT ![asked[c]] = answer[c]]
        /\ request' = [request EXCEPT ![c] = "releasing"]
        /\ UNCHANGED <<present, lost, mishap>>
     \/ /\ \/ c \notin compromised /\ WriteCutOff
           \/ UNCHANGED <<credentials, unreadable, present, mishap>>
        /\ lost' = lost \cup {base[c][asked[c]]}
        /\ request' = [request EXCEPT ![c] = "aborting"]
        /\ UNCHANGED stored
  /\ UNCHANGED <<linked, lockVars, running, creating, asked, base, answer, issued, expired,
                 spent>>

(* The finally block: release() removes the lock, also one of somebody else  *)
(* unless it has been told by now that its own was taken away.               *)
Release(c) ==
  /\ request[c] \in {"releasing", "aborting"}
  /\ \/ lock = c /\ lock' = Nobody /\ UNCHANGED left
     \/ lock # c /\ UNCHANGED <<lock, left>>
     \/ lock # c /\ c \notin compromised /\ lock' = Nobody /\ left' = (left /\ linked)
  /\ request' = [request EXCEPT ![c] = IF @ = "releasing" THEN "idle" ELSE "failed"]
  /\ base' = [base EXCEPT ![c] = NoCredentials] /\ answer' = [answer EXCEPT ![c] = 0]
  /\ UNCHANGED <<fileVars, memoryVars, asked, compromised, tokenVars, stored, mishap>>

(* The catch block of getApiKey: another instance may have been faster.      *)
ReadAgain(c) ==
  /\ request[c] = "failed"
  /\ LoadInto(InstanceOf[c])
  /\ request' = [request EXCEPT ![c] = "idle"]
  /\ UNCHANGED <<fileVars, lockVars, running, creating, asked, base, answer, tokenVars, stored,
                 mishap>>

-----------------------------------------------------------------------------
(* Time, and what goes wrong.                                                *)

(* Tokens that nobody has any more do not matter.                            *)
Expire(n) ==
  /\ n \in 1..issued \ expired
  /\ \E p \in OAuthProviders : n \in {credentials[p]} \cup {data[i][p] : i \in Instances}
  /\ expired' = expired \cup {n}
  /\ UNCHANGED <<fileVars, lockVars, memoryVars, requestVars, issued, spent, lost, stored, mishap>>

(* Whoever the lock belongs to is still at work.                             *)
Held == /\ lock \in Requests
        /\ request[lock] \in {"refreshing", "answered", "releasing", "aborting"}

(* A lock that looks stale to another instance is taken away, be it that of  *)
(* a crashed instance or not; a holder that is alive is told when it next    *)
(* renews the lock, or never.                                                *)
LockLost ==
  /\ lock # Nobody
  /\ lock' = Nobody /\ mishap' = (mishap \/ Held)
  /\ compromised' \in {compromised} \cup IF Held THEN {compromised \cup {lock}} ELSE {}
  /\ UNCHANGED <<fileVars, left, memoryVars, requestVars, tokenVars, stored>>

LeftLockLost ==
  /\ left /\ left' = FALSE
  /\ UNCHANGED <<fileVars, lock, compromised, memoryVars, requestVars, tokenVars, stored, mishap>>

Own(i) == {c \in Requests : InstanceOf[c] = i}

(* A crash leaves the lock behind, in the middle of a write a part of the    *)
(* file, and of an exchange the token that was spent.                        *)
CrashInstance(i) ==
  /\ i \in running \cup creating
  /\ running' = running \ {i} /\ creating' = creating \ {i}
  /\ data' = [data EXCEPT ![i] = NoCredentials] /\ loadError' = loadError \ {i}
  /\ request' = [c \in Requests |-> IF c \in Own(i) THEN "idle" ELSE request[c]]
  /\ base' = [c \in Requests |-> IF c \in Own(i) THEN NoCredentials ELSE base[c]]
  /\ answer' = [c \in Requests |-> IF c \in Own(i) THEN 0 ELSE answer[c]]
  /\ lost' = lost \cup {base[c][asked[c]] : c \in {d \in Own(i) : request[d] = "answered"}}
  /\ \/ left' \in {left, left \/ SyncFree} /\ UNCHANGED <<credentials, unreadable, present, mishap>>
     \/ i \in running \ loadError /\ Readable /\ left' = TRUE /\ WriteCutOff
     \/ /\ i \in creating \/ \E c \in Own(i) \ compromised : request[c] = "answered"
        /\ WriteCutOff /\ UNCHANGED left
  /\ UNCHANGED <<linked, lock, compromised, asked, issued, expired, spent, stored>>

RequestStep(c) ==
  \/ LockTimesOut(c) \/ TakeLock(c) \/ TokenExchanged(c) \/ RefreshFails(c)
  \/ AnswerLost(c) \/ SaveToken(c) \/ Release(c) \/ ReadAgain(c)

AuthNext ==
  \/ \E i \in Instances :
       FindNoFile(i) \/ CreateFile(i) \/ StartInstance(i) \/ Reload(i) \/ CrashInstance(i)
  \/ \E i \in Instances, p \in Providers : SetCredential(i, p) \/ RemoveCredential(i, p)
  \/ \E c \in Requests, p \in OAuthProviders : Ask(c, p)
  \/ \E c \in Requests : RequestStep(c)
  \/ \E n \in 1..MaxIssued : Expire(n)
  \/ LockLost
  \/ LeftLockLost

AuthSpec == AuthInit /\ [][AuthNext]_authVars
-----------------------------------------------------------------------------
(* Type invariant.                                                           *)
AuthTypeOK ==
  /\ credentials \in [Providers -> Nat] /\ unreadable \in BOOLEAN
  /\ present \in BOOLEAN /\ linked \in BOOLEAN
  /\ lock \in Requests \cup {Nobody} /\ left \in BOOLEAN /\ compromised \subseteq Requests
  /\ running \subseteq Instances /\ creating \subseteq Instances
  /\ data \in [Instances -> [Providers -> Nat]] /\ loadError \subseteq Instances
  /\ request \in [Requests -> {"idle", "locking", "refreshing", "answered", "releasing",
                               "aborting", "failed"}]
  /\ asked \in [Requests -> OAuthProviders]
  /\ base \in [Requests -> [Providers -> Nat]] /\ answer \in [Requests -> Nat]
  /\ issued \in Nat /\ expired \subseteq Nat /\ spent \subseteq Nat /\ lost \subseteq Nat
  /\ stored \in [Providers -> Nat] /\ mishap \in BOOLEAN

(* No token is sent to its provider again once it was exchanged, however     *)
(* many requests of however many instances find it expired ("Multiple pi     *)
(* instances may try to refresh simultaneously when tokens expire").  Two    *)
(* exceptions: the new token was lost on its way to the file, with an answer *)
(* that did not arrive, a failed write or a crash; and after a mishap.       *)
TokensSpentOnce ==
  ~mishap => \A c \in Requests :
               request[c] = "refreshing" => base[c][asked[c]] \notin spent \ lost

(* What was stored for a provider stays in the file until it is changed:     *)
(* what one instance writes for one provider undoes nothing that another has *)
(* written, for this provider or for others.  A link to the file, which has  *)
(* two locks, is excepted, and so is a mishap: a lock taken from a request   *)
(* at work, a write that was cut off (it empties the file first), or a file  *)
(* created by an instance that had found none, over what another had stored. *)
ChangesAreKept == (~mishap /\ ~linked) => credentials = stored

(* Not so: when the file can be locked and read, a login is stored in it or  *)
(* an error is recorded (docs/providers.md: "Tokens are stored in            *)
(* `~/.pi/agent/auth.json`").                                                *)
LoginsAreStored ==
  [][\A i \in Instances, p \in Providers :
       (SetCredential(i, p) /\ Readable /\ i \in loadError) => credentials'[p] = data'[i][p]]_authVars
=============================================================================
