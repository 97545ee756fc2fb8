----------------------------- MODULE Lifecycle -----------------------------
(***************************************************************************)
(* The life of sessions across the whole session plane: browsers' requests *)
(* at the API, the hub and the connection handlers of the server, the rows *)
(* of the store, the connections, and each wrapper's client and supervisor *)
(* with the PTY processes. Every step is one atomic step of one component. *)
(***************************************************************************)
EXTENDS WsClient, WsWrapper, SessionsAPI

CONSTANTS
  FaultKinds,   \* which of "drop", "wrapper" and "server" can fail
  MaxFaults     \* bound: drops of a connection and crashes, in all

ASSUME FaultsAssumption ==
  /\ FaultKinds \subseteq {"drop", "wrapper", "server"}
  /\ MaxFaults \in Nat

VARIABLE faults   \* faults so far

vars == <<linkVars, supVars, clientVars, storeVars, hubVars, handlerVars,
          apiVars, faults>>

TypeOK ==
  /\ LinkTypeOK /\ SupTypeOK /\ ClientTypeOK
  /\ StoreTypeOK /\ HubTypeOK /\ HandlerTypeOK /\ ApiTypeOK
  /\ faults \in 0..MaxFaults

Init ==
  /\ LinkInit /\ SupInit /\ ClientInit
  /\ StoreInit /\ HubInit /\ HandlerInit /\ ApiInit
  /\ faults = 0

-----------------------------------------------------------------------------
\* An identity no goroutine of either end holds any more.
Unused(c) ==
  /\ link[c] = "down"
  /\ c \notin backlog
  /\ handler[c] = "none"
  /\ hand[c] = Idle
  /\ \A w \in Wrappers : client[w] # c
  /\ \A s \in Sessions : sendTo[s] # c

ServerUnchanged == UNCHANGED <<storeVars, hubVars, handlerVars, apiVars, faults>>

Connect(w) ==
  /\ \E c \in Conns : Unused(c) /\ Dial(w, c)
  /\ ServerUnchanged

Client(w) ==
  /\ RunOnceReturns(w) \/ SendEvent(w)
  /\ ServerUnchanged

ReadLoop(c) == ReadLoopStep(c) /\ ServerUnchanged

Session(s) == SessionStep(s) /\ ServerUnchanged

Handler(c) ==
  /\ HandlerStep(c)
  /\ UNCHANGED <<supVars, clientVars, apiVars, faults>>

Api(s) ==
  /\ ApiStep(s)
  /\ UNCHANGED <<supVars, clientVars, handlerVars, faults>>

-----------------------------------------------------------------------------
Fault(kind) ==
  /\ kind \in FaultKinds
  /\ faults < MaxFaults
  /\ faults' = faults + 1

\* A connection breaks. Either end may go on for a while before it notices.
NetworkDrop(c) ==
  /\ Fault("drop")
  /\ link[c] = "up"
  /\ Down({c})
  /\ UNCHANGED <<peer, backlog, toServer, toWrapper, supVars, clientVars,
                 storeVars, hubVars, handlerVars, apiVars>>

WrapperRestart(w) ==
  /\ Fault("wrapper")
  /\ WrapperCrash(w)
  /\ UNCHANGED <<storeVars, hubVars, handlerVars, apiVars>>

ServerRestart ==
  /\ Fault("server")
  /\ HandlersDie
  /\ RequestsDie
  /\ UNCHANGED <<supVars, clientVars>>

Next ==
  \/ \E w \in Wrappers : Connect(w) \/ Client(w) \/ WrapperRestart(w)
  \/ \E c \in Conns : ReadLoop(c) \/ Handler(c) \/ NetworkDrop(c)
  \/ \E s \in Sessions : Session(s) \/ Api(s)
  \/ ServerRestart

Spec == Init /\ [][Next]_vars

(***************************************************************************)
(* Fairness: every goroutine that can run does. Run redials forever, both  *)
(* ends notice a connection that is down (a failed read or write, the 45 s *)
(* read timeout), the handlers serve what arrives, and a request that has  *)
(* begun goes on. Browsers, processes and faults need do nothing.          *)
(***************************************************************************)
Fairness ==
  /\ \A w \in Wrappers :
       /\ WF_vars(Connect(w))
       /\ WF_vars(RunOnceReturns(w) /\ ServerUnchanged)
       /\ WF_vars(SendEvent(w) /\ ServerUnchanged)
  /\ \A c \in Conns : WF_vars(ReadLoop(c)) /\ WF_vars(Handler(c))
  /\ \A s \in Sessions : WF_vars(create[s] # "idle" /\ Api(s) /\ create' # create)

FairSpec == Spec /\ Fairness

-----------------------------------------------------------------------------
(***************************************************************************)
(* Safety.                                                                 *)
(***************************************************************************)

\* The hub never routes to a connection whose handler is gone, or that
\* belongs to another wrapper, however handlers of one wrapper overlap.
RegisteredIsServing ==
  \A w \in Wrappers : WrapperOnline(w) =>
    /\ peer[wrappers[w]] = w
    /\ handler[wrappers[w]] \in {"serving", "claiming", "reconciled"}

\* No row says running for a session whose process was never started: not
\* after a failed spawn, a lost open_session, or a hello racing a request.
NoPhantomRunning == \A s \in Sessions : status[s] = "running" => proc[s] # "none"

\* What an exited row gives as reason is true: the process it says has ended
\* has ended, and one it says was never spawned never was, although opens,
\* events and error paths of the API cross each other.
ExitReasonIsTrue ==
  \A s \in Sessions : status[s] = "exited" =>
    /\ reason[s] \in {"normal", "wrapper_close"} => proc[s] = "dead"
    /\ reason[s] = "spawn_failed" => proc[s] = "none"

\* Everything between wrapper w and the server has settled: one connection,
\* reconciled, nothing in flight and no request under way.
Quiet(w) ==
  LET c == wrappers[w] IN
  /\ WrapperOnline(w)
  /\ client[w] = c /\ link[c] = "up"
  /\ handler[c] = "reconciled" /\ pending[c] = {}
  /\ toServer[c] = <<>> /\ toWrapper[c] = <<>> /\ events[w] = <<>>
  /\ \A d \in Conns : peer[d] = w => hand[d] = Idle
  /\ \A d \in Conns \ {c} : peer[d] = w => handler[d] = "none" /\ d \notin backlog
  /\ \A s \in Sessions : Owner[s] = w => create[s] \in {"idle", "answered"}

\* Once a wrapper and the server have settled, the hub routes every session
\* in the wrapper's table, so a browser can open it and a DELETE reaches it,
\* whatever lost connections, restarts and overlapping handlers came before.
\* Only a started event dropped on a full channel can leave one out.
SettledRoutes ==
  \A w \in Wrappers : Quiet(w) =>
    \A s \in Snapshot(w) \ dropped : sessionWrap[s] = w

\* A session id is spawned at most once: no crossing of requests, reconnects
\* and restarts starts a second process for an id whose process has ended.
NeverRespawned ==
  [][\A s \in Sessions : proc[s] = "dead" => proc'[s] = "dead"]_vars

-----------------------------------------------------------------------------
(***************************************************************************)
(* Liveness. Calm is the assumption that handlers of earlier connections   *)
(* eventually finish before the wrapper is back: without it the deferred   *)
(* UnregisterWrapper of each connection can close its successor for ever.  *)
(***************************************************************************)
Calm ==
  <>[](\A c, d \in Conns : c # d /\ peer[c] = peer[d] /\ peer[c] # NoWrapper =>
         handler[c] = "none" \/ (handler[d] = "none" /\ d \notin backlog))

\* The wrapper's connection and the hub's registration end up, and stay, the
\* same, after the last fault and after every connection that an error of
\* handleControl takes down.
Reconnects ==
  Calm => <>[](\A w \in Wrappers : WrapperOnline(w) /\ wrappers[w] = client[w])

\* The open_session of s got lost, or its request gave up on it.
OpenLost(s) ==
  /\ create[s] = "answered"
  /\ status[s] \in LiveStatuses
  /\ proc[s] = "none"
  /\ \A c \in Conns :
       /\ hand[c] \notin [type : {"open"}, session : {s}]
       /\ \A i \in DOMAIN toWrapper[c] : toWrapper[c][i].session # s

\* A row whose open_session never arrived does not stay live: the hello of
\* the next connection expires it.
LostOpenExpires ==
  Calm => \A s \in Sessions : OpenLost(s) ~> status[s] = "exited"

(***************************************************************************)
(* Statements of the design documents that the code does not keep.         *)
(***************************************************************************)

\* A session that is alive on a wrapper that has settled is not shown as
\* offline ("Found in DB and was wrapper_offline -> flip back to running").
SettledNotOffline ==
  \A w \in Wrappers : Quiet(w) =>
    \A s \in Snapshot(w) : proc[s] = "alive" => status[s] # "wrapper_offline"

\* A session whose process has ended is marked exited, by its session.exited
\* or by the next reconciliation, and its row stays so.
DeathIsRecorded ==
  Calm => \A s \in Sessions : proc[s] = "dead" ~> [](status[s] = "exited")
=============================================================================
