------------------------------- MODULE PartsMC -------------------------------
(* A small instance of the components that work by themselves: the session   *)
(* storage, the session manager, the queue of file mutations, the            *)
(* credentials, the RPC client and the incremental review.  A behaviour      *)
(* chooses one of them and stays with it, so that their states add up and do *)
(* not multiply; what is stated of one holds of the initial state it keeps   *)
(* in the behaviours of the others.                                          *)
EXTENDS SessionStorage, SessionManager, FileMutationQueue, AuthStorageMC, RpcClient,
        IncrementalReviewMC

VARIABLE part  \* the component at work

partVars == <<vars, managerVars, queueVars, authVars, rpcVars, reviewVars, part>>

(* One file under its real path and under a link to it.                      *)
LinkedFile == [p \in {"/real/a", "/link/a"} |-> "a"]
RealFile   == [f \in {"a"} |-> "/real/a"]

PartsInit ==
  /\ part \in {"storage", "manager", "queue", "credentials", "client", "review"}
  /\ Init /\ ManagerInit /\ QueueInit /\ AuthInit /\ ClientInit /\ ReviewInit
  /\ part # "queue" => exists = {} /\ \A c \in Calls : path[c] = "/real/a"
  /\ part # "credentials" => present /\ ~linked
  /\ linked => present

(* What is not followed of the credentials: mishaps after something was given *)
(* out, but for those of a request; what comes after a mishap, but for an    *)
(* unreadable file; and with a link to the file mishaps, locks left behind   *)
(* and changes of the key.                                                   *)
CredentialsBound ==
  /\ mishap => unreadable /\ issued = Given
  /\ mishap' => issued = Given \/ request # request'
  /\ linked => ~mishap' /\ ~left' /\ stored'["key"] = stored["key"]

(* Nor appends to the storage that begin when its file is garbled.           *)
StorageBound == garbled => \A w \in Writers : pc[w] = "idle" => pc'[w] = "idle"

PartsNext ==
  /\ \/ part = "storage" /\ Next /\ StorageBound
     \/ part # "storage" /\ UNCHANGED vars
  /\ \/ part = "manager" /\ ManagerNext
     \/ part # "manager" /\ UNCHANGED managerVars
  /\ \/ part = "queue" /\ QueueNext
     \/ part # "queue" /\ UNCHANGED queueVars
  /\ \/ part = "credentials" /\ AuthNext /\ CredentialsBound
     \/ part # "credentials" /\ UNCHANGED authVars
  /\ \/ part = "client" /\ ClientNext
     \/ part # "client" /\ UNCHANGED rpcVars
  /\ \/ part = "review" /\ ReviewNext
     \/ part # "review" /\ UNCHANGED reviewVars
  /\ UNCHANGED part

PartsSpec == PartsInit /\ [][PartsNext]_partVars /\ QueueFairness
=============================================================================
