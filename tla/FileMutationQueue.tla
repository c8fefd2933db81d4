------------------------- MODULE FileMutationQueue -------------------------
(***************************************************************************)
(* The edit and write tools of the coding agent and the queue that          *)
(* serialises them: core/tools/file-mutation-queue.ts, edit.ts, write.ts.   *)
(*                                                                         *)
(* Tools of one message run in parallel.  Each call registers, one call at  *)
(* a time: it asks for the real path, takes that as its key, and puts a     *)
(* promise behind the last one of the key.  It runs when the promise before *)
(* its own has settled.  A path that does not exist yet has no real path    *)
(* and is its own key.                                                      *)
(*                                                                         *)
(* What a file holds is the set of calls whose change is in it: an edit     *)
(* adds itself to what it has read, a write leaves only itself.  Matching   *)
(* and formatting are left out; an edit may or may not match.               *)
(***************************************************************************)
EXTENDS Naturals, Sequences, FiniteSets

CONSTANTS Calls,     \* calls of the edit and write tools, each made once
          Paths,     \* absolute paths
          Files,     \* what they lead to
          FileOf,    \* per path: the file it leads to, links followed
          RealPath   \* per file: the path to it that has no links in it

NoCall == "no call"

ASSUME QueueAssumption ==
  /\ NoCall \notin Calls
  /\ FileOf \in [Paths -> Files] /\ RealPath \in [Files -> Paths]

VARIABLES
  exists,       \* files that exist
  content,      \* per file: the calls whose change is in it
  registration, \* registrationQueue
  queues,       \* fileMutationQueues: per key the call whose promise is last
  stage,        \* where each call is
  tool, path,   \* its arguments
  key,          \* its key
  before,       \* the call whose promise it awaits
  seen,         \* what an edit has read
  missing,      \* history: calls whose file did not exist when they registered
  ticket,       \* history: the order of registration
  turn          \* history: the next ticket

queueVars == <<exists, content, registration, queues, stage, tool, path, key, before, seen,
               missing, ticket, turn>>

Stages   == {"waiting", "access", "read", "mkdir", "write"}
Inside   == Stages \ {"waiting"}
Active(c) == stage[c] \in Stages
File(c)  == FileOf[path[c]]

QueueInit ==
  /\ exists \in SUBSET Files /\ content = [f \in Files |-> {}]
  /\ registration = <<>> /\ queues = [k \in Paths |-> NoCall]
  /\ stage = [c \in Calls |-> "new"]
  /\ tool = [c \in Calls |-> "edit"]
  /\ path \in [Calls -> Paths]
  /\ key = path
  /\ before = [c \in Calls |-> NoCall]
  /\ seen = [c \in Calls |-> {}]
  /\ missing = {} /\ ticket = [c \in Calls |-> 0] /\ turn = 1

history   == <<missing, ticket, turn>>
diskVars  == <<exists, content>>
arguments == <<tool, path>>

(* execute, up to the await of its registration.                             *)
Call(c, t) ==
  /\ stage[c] = "new"
  /\ stage' = [stage EXCEPT ![c] = "registering"]
  /\ tool' = [tool EXCEPT ![c] = t]
  /\ registration' = Append(registration, c)
  /\ UNCHANGED <<diskVars, queues, path, key, before, seen, history>>

-----------------------------------------------------------------------------
(* withFileMutationQueue.                                                    *)

(* Mutant: the path as it was given is the key.                              *)
KeyAsGiven(c) == path[c]

(* getMutationQueueKey                                                       *)
Key(c) == IF File(c) \in exists THEN RealPath[File(c)] ELSE path[c]

AtHead(c) == registration # <<>> /\ Head(registration) = c

ResolveKey(c) ==
  /\ stage[c] = "registering" /\ AtHead(c)
  /\ key' = [key EXCEPT ![c] = Key(c)]
  /\ stage' = [stage EXCEPT ![c] = "keyed"]
  /\ missing' = IF File(c) \in exists THEN missing ELSE missing \cup {c}
  /\ UNCHANGED <<diskVars, registration, queues, arguments, before, seen, ticket, turn>>

(* Mutant: a registration that rejects is the end of the chain of them.      *)
RegistrationFailsForGood(c) ==
  /\ stage[c] = "registering" /\ AtHead(c)
  /\ stage' = [stage EXCEPT ![c] = "settled"]
  /\ UNCHANGED <<diskVars, registration, queues, arguments, key, before, seen, history>>

(* realpath fails for another reason than a missing file: the call rejects   *)
(* and the next registration goes on.                                        *)
RegistrationFails(c) ==
  /\ stage[c] = "registering" /\ AtHead(c)
  /\ stage' = [stage EXCEPT ![c] = "settled"]
  /\ registration' = Tail(registration)
  /\ UNCHANGED <<diskVars, queues, arguments, key, before, seen, history>>

Register(c) ==
  /\ stage[c] = "keyed" /\ AtHead(c)
  /\ before' = [before EXCEPT ![c] = queues[key[c]]]
  /\ queues' = [queues EXCEPT ![key[c]] = c]
  /\ stage' = [stage EXCEPT ![c] = "waiting"]
  /\ registration' = Tail(registration)
  /\ ticket' = [ticket EXCEPT ![c] = turn] /\ turn' = turn + 1
  /\ UNCHANGED <<diskVars, arguments, key, seen, missing>>

(* Mutant: the queue of the key is forgotten whoever is behind.              *)
ForgetAlways(c) == queues' = [queues EXCEPT ![key[c]] = NoCall]

(* The queue of the key is forgotten by the last call of it.                 *)
Forget(c) ==
  queues' = IF queues[key[c]] = c THEN [queues EXCEPT ![key[c]] = NoCall] ELSE queues

(* The finally block.                                                        *)
Leave(c) ==
  /\ stage' = [stage EXCEPT ![c] = "settled"]
  /\ Forget(c)

(* throwIfAborted, and what comes after it.  A signal may be aborted at any  *)
(* moment and is only looked at here, after an await: the queue stays locked *)
(* while a file operation is under way.                                      *)
Go(c, following) ==
  \/ Leave(c)
  \/ stage' = [stage EXCEPT ![c] = following] /\ UNCHANGED queues

Settled(c) == c # NoCall => stage[c] = "settled"

Enter(c) ==
  /\ stage[c] = "waiting" /\ Settled(before[c])
  /\ Go(c, IF tool[c] = "edit" THEN "access" ELSE "mkdir")
  /\ UNCHANGED <<diskVars, registration, arguments, key, before, seen, history>>

-----------------------------------------------------------------------------
(* The tools.  Each file operation is one await.                             *)

(* edit: ops.access                                                          *)
Access(c) ==
  /\ stage[c] = "access"
  /\ \/ File(c) \in exists /\ Go(c, "read")
     \/ File(c) \notin exists /\ Leave(c)
  /\ UNCHANGED <<diskVars, registration, arguments, key, before, seen, history>>

(* edit: ops.readFile and applyEditsToNormalizedContent, which throws when   *)
(* the edits do not match.                                                   *)
Read(c, matches) ==
  /\ stage[c] = "read"
  /\ seen' = [seen EXCEPT ![c] = content[File(c)]]
  /\ \/ matches /\ Go(c, "write")
     \/ ~matches /\ Leave(c)
  /\ UNCHANGED <<diskVars, registration, arguments, key, before, history>>

(* write: ops.mkdir                                                          *)
MakeDirectory(c) ==
  /\ stage[c] = "mkdir"
  /\ Go(c, "write")
  /\ UNCHANGED <<diskVars, registration, arguments, key, before, seen, history>>

(* ops.writeFile; an abort by now changes only what the caller is told.      *)
Write(c) ==
  /\ stage[c] = "write"
  /\ exists' = exists \cup {File(c)}
  /\ content' = [content EXCEPT ![File(c)] =
                   IF tool[c] = "edit" THEN seen[c] \cup {c} ELSE {c}]
  /\ Leave(c)
  /\ UNCHANGED <<registration, arguments, key, before, seen, history>>

(* A file operation fails.                                                   *)
Fails(c) ==
  /\ stage[c] \in Inside
  /\ Leave(c)
  /\ UNCHANGED <<diskVars, registration, arguments, key, before, seen, history>>

CallStep(c) ==
  \/ ResolveKey(c) \/ RegistrationFails(c) \/ Register(c) \/ Enter(c)
  \/ Access(c) \/ MakeDirectory(c) \/ Write(c) \/ Fails(c)
  \/ \E matches \in BOOLEAN : Read(c, matches)

QueueNext == \E c \in Calls : \/ \E t \in {"edit", "write"} : Call(c, t)
                         \/ CallStep(c)

QueueSpec == QueueInit /\ [][QueueNext]_queueVars

(* Every file operation settles, and the event loop runs what awaits it.     *)
QueueFairness == \A c \in Calls : WF_queueVars(CallStep(c))
QueueFairSpec == QueueSpec /\ QueueFairness

-----------------------------------------------------------------------------
(* Type invariant.                                                           *)
QueueTypeOK ==
  /\ exists \subseteq Files /\ content \in [Files -> SUBSET Calls]
  /\ registration \in Seq(Calls) /\ queues \in [Paths -> Calls \cup {NoCall}]
  /\ stage \in [Calls -> Stages \cup {"new", "registering", "keyed", "settled"}]
  /\ tool \in [Calls -> {"edit", "write"}] /\ path \in [Calls -> Paths]
  /\ key \in [Calls -> Paths] /\ before \in [Calls -> Calls \cup {NoCall}]
  /\ seen \in [Calls -> SUBSET Calls]
  /\ missing \subseteq Calls /\ ticket \in [Calls -> Nat] /\ turn \in Nat \ {0}

(* A call was registered while its file was missing, under a path that is    *)
(* not the real one: it and later calls then have two keys for one file.     *)
TwoKeys == \E c \in missing : key[c] # RealPath[File(c)]

(* No two calls with one key are at work at a time, whatever fails or is     *)
(* aborted.                                                                  *)
OneCallPerKey ==
  \A c, d \in Calls :
    (stage[c] \in Inside /\ stage[d] \in Inside /\ key[c] = key[d]) => c = d

(* An edit writes back what it has read with its own change and nothing else *)
(* has changed the file since: no edit is lost, as long as no call was       *)
(* registered before its file existed under a path that is a link.           *)
EditsAreSerial ==
  ~TwoKeys =>
    \A c \in Calls :
      (stage[c] = "write" /\ tool[c] = "edit") => seen[c] = content[File(c)]

(* Whenever calls are under way they all come to settle, also when others    *)
(* fail before them or are aborted, and then no queue is left behind.        *)
Quiet == \A c \in Calls : stage[c] \in {"new", "settled"}
CallsSettle == ~Quiet ~> (Quiet /\ \A k \in Paths : queues[k] = NoCall)
=============================================================================
