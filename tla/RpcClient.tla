----------------------------- MODULE RpcClient -----------------------------
(***************************************************************************)
(* The client of the RPC mode: modes/rpc/rpc-client.ts.  It starts the      *)
(* coding agent as a child process, writes requests to it, and reads lines  *)
(* from it: responses, which settle requests, and events, which go to the   *)
(* listeners.  waitForIdle() and collectEvents() are listeners that remove  *)
(* themselves when they hear agent_end.                                     *)
(*                                                                         *)
(* What a request asks for and what its response holds is left out.  stop() *)
(* is called once at a time.                                                *)
(***************************************************************************)
EXTENDS Naturals, Sequences, SequencesExt

CONSTANTS Commands,  \* calls of send()
          Waiters,   \* calls of waitForIdle() and collectEvents()
          Observers, \* listeners added with onEvent()
          MaxEvents, \* bound: agent_end events
          MaxStarts  \* bound: calls of start()

ASSUME ClientAssumption == Commands \cap Waiters = {}

VARIABLES
  process,         \* this.process: "none", or how it is: "live", "exited", "reported"
  exitError,       \* whether exitError is set
  reading,         \* whether stdout is read
  stdin,           \* requests the child has not answered
  stdout,          \* lines of the child that have not been handled
  pendingRequests,
  timers,          \* requests and waiters whose timeout is armed
  eventListeners,
  outcome,         \* how each request and each waiter has ended
  start, stop,     \* where a call of start() and of stop() is
  events, starts

childVars == <<process, exitError, reading, stdin, stdout>>
rpcVars   == <<childVars, pendingRequests, timers, eventListeners, outcome, start, stop,
               events, starts>>

AgentEnd == "agent_end"

ClientInit ==
  /\ process = "none" /\ exitError = FALSE /\ reading = FALSE /\ stdin = {} /\ stdout = <<>>
  /\ pendingRequests = {} /\ timers = {} /\ eventListeners = <<>>
  /\ outcome = [x \in Commands \cup Waiters |-> "none"]
  /\ start = "idle" /\ stop = "idle" /\ events = 0 /\ starts = 0

(* rejectPendingRequests                                                     *)
Settle(xs, how) ==
  /\ outcome' = [x \in DOMAIN outcome |-> IF x \in xs THEN how ELSE outcome[x]]
  /\ timers' = timers \ xs

RejectPendingRequests ==
  /\ Settle(pendingRequests, "rejected")
  /\ pendingRequests' = {}

-----------------------------------------------------------------------------
(* start(): the child is watched for 100 ms.                                 *)
Start ==
  /\ process = "none" /\ start = "idle" /\ starts < MaxStarts
  /\ process' = "live" /\ exitError' = FALSE /\ reading' = TRUE
  /\ stdin' = {} /\ stdout' = <<>>
  /\ start' = "waiting" /\ starts' = starts + 1
  /\ UNCHANGED <<pendingRequests, timers, eventListeners, outcome, stop, events>>

Started ==
  /\ start = "waiting"
  /\ start' = "idle"
  /\ exitError' = (exitError \/ process \in {"exited", "reported"})
  /\ UNCHANGED <<process, reading, stdin, stdout, pendingRequests, timers, eventListeners,
                 outcome, stop, events, starts>>

(* The child ends, and its exit event is handled later.                      *)
ChildExits ==
  /\ process = "live"
  /\ process' = "exited"
  /\ UNCHANGED <<exitError, reading, stdin, stdout, pendingRequests, timers, eventListeners,
                 outcome, start, stop, events, starts>>

ExitReported ==
  /\ process = "exited"
  /\ process' = "reported" /\ exitError' = TRUE
  /\ RejectPendingRequests
  /\ UNCHANGED <<reading, stdin, stdout, eventListeners, start, stop, events, starts>>

(* The error events of the child and of its stdin.                           *)
ChildError ==
  /\ process # "none" /\ ~exitError
  /\ exitError' = TRUE
  /\ RejectPendingRequests
  /\ UNCHANGED <<process, reading, stdin, stdout, eventListeners, start, stop, events, starts>>

-----------------------------------------------------------------------------
(* stop(): SIGTERM, then SIGKILL after a second.                             *)
Stop ==
  /\ process # "none" /\ stop = "idle"
  /\ reading' = FALSE
  /\ stop' = "waiting"
  /\ UNCHANGED <<process, exitError, stdin, stdout, pendingRequests, timers, eventListeners,
                 outcome, start, events, starts>>

(* Mutant: the timeouts of the requests that are forgotten are cleared too.  *)
StoppedForgetting ==
  /\ stop = "waiting"
  /\ process' = "none" /\ stdin' = {} /\ stdout' = <<>>
  /\ pendingRequests' = {} /\ timers' = timers \ pendingRequests
  /\ stop' = "idle"
  /\ UNCHANGED <<exitError, reading, eventListeners, outcome, start, events, starts>>

(* The child has exited, or the second is over.                              *)
Stopped ==
  /\ stop = "waiting"
  /\ process' = "none" /\ stdin' = {} /\ stdout' = <<>>
  /\ pendingRequests' = {}
  /\ stop' = "idle"
  /\ UNCHANGED <<exitError, reading, timers, eventListeners, outcome, start, events, starts>>

-----------------------------------------------------------------------------
(* send()                                                                    *)
Send(r) ==
  /\ outcome[r] = "none" /\ r \notin timers
  /\ \/ /\ process = "live" /\ ~exitError
        /\ pendingRequests' = pendingRequests \cup {r}
        /\ timers' = timers \cup {r}
        /\ stdin' = stdin \cup {r}
        /\ UNCHANGED <<exitError, outcome>>
     \/ (* No child, or one that has exited or failed, or the write throws.  *)
        /\ outcome' = [outcome EXCEPT ![r] = "rejected"]
        /\ exitError' \in {exitError, exitError \/ process # "none"}
        /\ process \in {"exited", "reported"} => exitError'
        /\ UNCHANGED <<pendingRequests, timers, stdin>>
  /\ UNCHANGED <<process, reading, stdout, eventListeners, start, stop, events, starts>>

RequestTimeout(r) ==
  /\ r \in timers
  /\ pendingRequests' = pendingRequests \ {r}
  /\ Settle({r}, "rejected")
  /\ UNCHANGED <<childVars, eventListeners, start, stop, events, starts>>

(* What the child does.                                                      *)
Respond(r) ==
  /\ process = "live" /\ r \in stdin
  /\ stdin' = stdin \ {r}
  /\ stdout' = Append(stdout, r)
  /\ UNCHANGED <<process, exitError, reading, pendingRequests, timers, eventListeners, outcome,
                 start, stop, events, starts>>

EndOfRun ==
  /\ process = "live" /\ events < MaxEvents
  /\ stdout' = Append(stdout, AgentEnd)
  /\ events' = events + 1
  /\ UNCHANGED <<process, exitError, reading, stdin, pendingRequests, timers, eventListeners,
                 outcome, start, stop, starts>>

-----------------------------------------------------------------------------
(* The listeners.                                                            *)
Listen(x) ==
  /\ \A i \in DOMAIN eventListeners : eventListeners[i] # x
  /\ x \in Waiters => outcome[x] = "none"
  /\ eventListeners' = Append(eventListeners, x)
  /\ timers' = timers \cup ({x} \cap Waiters)
  /\ UNCHANGED <<childVars, pendingRequests, outcome, start, stop, events, starts>>

WaiterTimeout(w) ==
  /\ w \in timers
  /\ eventListeners' = Remove(eventListeners, w)
  /\ Settle({w}, "rejected")
  /\ UNCHANGED <<childVars, pendingRequests, start, stop, events, starts>>

(* for (const listener of this.eventListeners): a waiter that hears the      *)
(* event removes itself, the others move up, and the loop skips one.         *)
Reached ==
  LET reached[i \in 0..Len(eventListeners)] ==
        i > 0 => (i > 1 /\ reached[i - 1] => eventListeners[i - 1] \notin Waiters)
  IN  {eventListeners[i] : i \in {j \in DOMAIN eventListeners : reached[j]}}

HandleLine ==
  /\ reading /\ stdout # <<>>
  /\ stdout' = Tail(stdout)
  /\ LET line == Head(stdout) IN
       \/ /\ line \in pendingRequests
          /\ Settle({line}, "resolved")
          /\ pendingRequests' = pendingRequests \ {line}
          /\ UNCHANGED eventListeners
       \/ /\ line = AgentEnd
          /\ Settle(Reached \cap Waiters, "resolved")
          /\ eventListeners' = SelectSeq(eventListeners, LAMBDA x : x \notin Reached \cap Waiters)
          /\ UNCHANGED pendingRequests
       \/ (* A response nobody waits for any more goes to the listeners.     *)
          /\ line \in Commands \ pendingRequests
          /\ UNCHANGED <<pendingRequests, timers, outcome, eventListeners>>
  /\ UNCHANGED <<process, exitError, reading, stdin, start, stop, events, starts>>

ClientNext ==
  \/ Start \/ Started \/ ChildExits \/ ExitReported \/ ChildError \/ Stop \/ Stopped
  \/ \E r \in Commands : Send(r) \/ RequestTimeout(r) \/ Respond(r)
  \/ \E x \in Waiters \cup Observers : Listen(x)
  \/ \E w \in Waiters : WaiterTimeout(w)
  \/ EndOfRun \/ HandleLine

ClientSpec == ClientInit /\ [][ClientNext]_rpcVars

-----------------------------------------------------------------------------
(* No request and nobody who waits is forgotten, whatever becomes of the     *)
(* child, of its answer, and of the requests that stop() finds: the timeout  *)
(* stays armed until the promise has settled.                                *)
NobodyForgotten ==
  [][\A x \in timers : x \in timers' \/ outcome'[x] # "none"]_rpcVars

(* Not so: whoever waits when agent_end arrives hears it (rpc-client.ts:     *)
(* "Resolves when agent_end event is received.").                            *)
EveryWaiterHears ==
  [][\A w \in Waiters :
       (HandleLine /\ Head(stdout) = AgentEnd /\ w \in ToSet(eventListeners))
         => outcome'[w] = "resolved"]_rpcVars
=============================================================================
