----------------------------- MODULE WsWrapper -----------------------------
(***************************************************************************)
(* The server's handler of a wrapper connection                            *)
(* (internal/wswrapper/wswrapper.go): one goroutine per connection that    *)
(* registers it with the hub, handles its frames in order, and on a read   *)
(* error unregisters and marks the sessions offline. Two handlers of one   *)
(* wrapper overlap whenever the wrapper is back before the server has      *)
(* noticed that the previous connection is gone.                           *)
(***************************************************************************)
EXTENDS Links, Hub, SessionStore

VARIABLES
  handler,     \* where the goroutine of c is
  helloLive,   \* the session ids of the hello being reconciled
  pending      \* the sessions the current phase of reconcile still has to do

handlerVars == <<handler, helloLive, pending>>

\* "serving": registered, hello not read yet; "claiming", then "reconciled":
\* the two loops of reconcile, and normal service when nothing is pending;
\* "left": unregistered, MarkWrapperOffline still to come.
HandlerStates == {"none", "serving", "claiming", "reconciled", "left"}

HandlerTypeOK ==
  /\ handler \in [Conns -> HandlerStates]
  /\ helloLive \in [Conns -> SUBSET Sessions]
  /\ pending \in [Conns -> SUBSET Sessions]

HandlerInit ==
  /\ handler = [c \in Conns |-> "none"]
  /\ helloLive = [c \in Conns |-> {}]
  /\ pending = [c \in Conns |-> {}]

\* ServeHTTP after Accept: the handler registers its connection, and the hub
\* closes the one it displaces.
Register(c) ==
  /\ c \in backlog
  /\ backlog' = backlog \ {c}
  /\ ServerCloses(Displaced(peer[c], c))
  /\ RegisterWrapper(peer[c], c)
  /\ handler' = [handler EXCEPT ![c] = "serving"]
  /\ UNCHANGED <<storeVars, peer, toWrapper, helloLive, pending>>

\* The goroutine is back in c.Read.
Reading(c) == handler[c] \in {"serving", "reconciled"} /\ pending[c] = {}

Receives(c, type) ==
  /\ Reading(c)
  /\ toServer[c] # <<>>
  /\ Head(toServer[c]).type = type
  /\ toServer' = [toServer EXCEPT ![c] = Tail(@)]
  /\ UNCHANGED <<link, peer, backlog, toWrapper>>

\* handleText on hello: reconcile begins with the ids the wrapper lists.
ReceiveHello(c) ==
  LET live == Head(toServer[c]).live IN
  /\ Receives(c, "hello")
  /\ handler' = [handler EXCEPT ![c] = "claiming"]
  /\ helloLive' = [helloLive EXCEPT ![c] = live]
  /\ pending' = [pending EXCEPT ![c] = live]
  /\ UNCHANGED <<storeVars, hubVars>>

\* Mutant of ReconcileClaim: only a session whose row was offline is routed.
ReconcileClaimOffline(c, s) ==
  /\ handler[c] = "claiming"
  /\ s \in pending[c]
  /\ MarkRunningFromOffline(s)
  /\ IF status[s] = "wrapper_offline" THEN AssignSession(s, peer[c]) ELSE UNCHANGED hubVars
  /\ pending' = [pending EXCEPT ![c] = @ \ {s}]
  /\ UNCHANGED <<linkVars, handler, helloLive>>

\* One round of the first loop of reconcile. MarkRunningFromOffline returns
\* no error when it matches no row, so AssignSession runs for every id.
ReconcileClaim(c, s) ==
  /\ handler[c] = "claiming"
  /\ s \in pending[c]
  /\ MarkRunningFromOffline(s)
  /\ AssignSession(s, peer[c])
  /\ pending' = [pending EXCEPT ![c] = @ \ {s}]
  /\ UNCHANGED <<linkVars, handler, helloLive>>

\* ListLiveByWrapper: the rows read here are acted on one at a time below.
ReconcileList(c) ==
  /\ handler[c] = "claiming"
  /\ pending[c] = {}
  /\ handler' = [handler EXCEPT ![c] = "reconciled"]
  /\ pending' = [pending EXCEPT ![c] = ListLiveByWrapper(peer[c]) \ helloLive[c]]
  /\ helloLive' = [helloLive EXCEPT ![c] = {}]
  /\ UNCHANGED <<linkVars, storeVars, hubVars>>

ReconcileExpire(c, s) ==
  /\ handler[c] = "reconciled"
  /\ s \in pending[c]
  /\ MarkExited(s, "wrapper_restart")
  /\ pending' = [pending EXCEPT ![c] = @ \ {s}]
  /\ UNCHANGED <<linkVars, hubVars, handler, helloLive>>

ReceiveStarted(c) ==
  LET s == Head(toServer[c]).session IN
  /\ Receives(c, "started")
  /\ MarkRunning(s)
  /\ AssignSession(s, peer[c])
  /\ UNCHANGED handlerVars

\* The row is marked; the hub's routing entry stays.
ReceiveExited(c) ==
  LET f == Head(toServer[c]) IN
  /\ Receives(c, "exited")
  /\ MarkExited(f.session, f.reason)
  /\ UNCHANGED <<hubVars, handlerVars>>

\* c.Read fails, and the deferred function begins: UnregisterWrapper(id)
\* closes the connection registered under the id, which may be a newer one.
Unregister(c) ==
  /\ Reading(c)
  /\ link[c] = "down"
  /\ ServerCloses(Unregistered(peer[c]))
  /\ UnregisterWrapper(peer[c])
  /\ handler' = [handler EXCEPT ![c] = "left"]
  /\ UNCHANGED <<storeVars, peer, backlog, toWrapper, helloLive, pending>>

\* The rest of the deferred function; what was in flight is never read.
MarkOffline(c) ==
  /\ handler[c] = "left"
  /\ MarkWrapperOffline(peer[c])
  /\ handler' = [handler EXCEPT ![c] = "none"]
  /\ toServer' = [toServer EXCEPT ![c] = <<>>]
  /\ UNCHANGED <<link, peer, backlog, toWrapper, hubVars, helloLive, pending>>

HandlerStep(c) ==
  \/ Register(c)
  \/ ReceiveHello(c)
  \/ \E s \in Sessions : ReconcileClaim(c, s)
  \/ ReconcileList(c)
  \/ \E s \in Sessions : ReconcileExpire(c, s)
  \/ ReceiveStarted(c)
  \/ ReceiveExited(c)
  \/ Unregister(c)
  \/ MarkOffline(c)

\* The server process ends: the hub and the handlers are memory, the rows are
\* not, and no deferred function runs.
HandlersDie ==
  /\ handler' = [c \in Conns |-> "none"]
  /\ helloLive' = [c \in Conns |-> {}]
  /\ pending' = [c \in Conns |-> {}]
  /\ wrappers' = [w \in Wrappers |-> NoConn]
  /\ sessionWrap' = [s \in Sessions |-> NoWrapper]
  /\ Down(Conns)
  /\ backlog' = {}
  /\ toServer' = [c \in Conns |-> <<>>]
  /\ UNCHANGED <<storeVars, peer, toWrapper>>
=============================================================================
