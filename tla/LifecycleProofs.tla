-------------------------- MODULE LifecycleProofs --------------------------
(***************************************************************************)
(* Theorems of module Lifecycle, for any number of wrappers, sessions and  *)
(* connections, any channel capacity, any buffer size and any number of    *)
(* faults. The lemmas follow the components: what an operation of one      *)
(* component does to that component's variables, then what each process    *)
(* of the composition does to all of them.                                 *)
(***************************************************************************)
EXTENDS Lifecycle, TLAPS

(***************************************************************************)
(* The supervisor.                                                         *)
(***************************************************************************)

LEMMA EventsAreEvents ==
  ASSUME NEW s \in Sessions
  PROVE  /\ Owner[s] \in Wrappers
         /\ Data \in Event /\ Started(s) \in Event
         /\ \A why \in {"normal", "wrapper_close", "spawn_failed"} : Exited(s, why) \in Event
BY DeploymentAssumption DEF Data, Started, Exited, Event

\* A started event names a session.
LEMMA StartedNamesSession ==
  ASSUME NEW e \in Event, e.type = "started"
  PROVE  e.session \in Sessions
BY DEF Event

\* Emit leaves the channel well formed, and within its capacity.
LEMMA EmitType ==
  ASSUME SupTypeOK, NEW w \in Wrappers, NEW e \in Event, Emit(w, e)
  PROVE  /\ events' \in [Wrappers -> Seq(Event)]
         /\ \A v \in Wrappers : Len(events'[v]) <= EventCap
         /\ dropped' \in SUBSET Sessions
<1>1. CASE Len(events[w]) < EventCap
  <2>1. events[w] \in Seq(Event) /\ dropped \in SUBSET Sessions
    BY DEF SupTypeOK
  <2>2. Append(events[w], e) \in Seq(Event) /\ Len(Append(events[w], e)) = Len(events[w]) + 1
    BY <2>1
  <2>3. Len(Append(events[w], e)) <= EventCap
    BY <1>1, <2>1, <2>2, EventCapAssumption
  <2>4. events' = [events EXCEPT ![w] = Append(events[w], e)] /\ dropped' = dropped
    BY <1>1 DEF Emit
  <2> QED BY <2>1, <2>2, <2>3, <2>4 DEF SupTypeOK
<1>2. CASE ~(Len(events[w]) < EventCap)
  BY <1>2, StartedNamesSession DEF Emit, SupTypeOK
<1> QED BY <1>1, <1>2

LEMMA CloseWithType ==
  ASSUME SupTypeOK, NEW s \in Sessions, NEW why \in {"normal", "wrapper_close"},
         CloseWith(s, why)
  PROVE  /\ proc' \in [Sessions -> {"none", "alive", "dead"}]
         /\ events' \in [Wrappers -> Seq(Event)]
         /\ \A v \in Wrappers : Len(events'[v]) <= EventCap
         /\ dropped' \in SUBSET Sessions
<1>1. CASE proc[s] = "alive"
  BY <1>1, EmitType, EventsAreEvents DEF CloseWith, SupTypeOK
<1>2. CASE proc[s] # "alive"
  BY <1>2 DEF CloseWith, SupTypeOK
<1> QED BY <1>1, <1>2

\* Each operation of the supervisor keeps the supervisor's types.
LEMMA SupervisorType ==
  ASSUME SupTypeOK, NEW s \in Sessions,
         \/ OpenInsert(s) \/ OpenSpawnFailed(s) \/ OpenAnnounce(s) \/ CloseKnown(s)
         \/ ProcessExits(s) \/ JSONLFound(s) \/ Output(s)
  PROVE  SupTypeOK'
<1>1. CASE OpenInsert(s)
  BY <1>1 DEF OpenInsert, SupTypeOK
<1>2. CASE OpenSpawnFailed(s)
  BY <1>2, EmitType, EventsAreEvents DEF OpenSpawnFailed, SupTypeOK
<1>3. CASE OpenAnnounce(s)
  BY <1>3, EmitType, EventsAreEvents DEF OpenAnnounce, SupTypeOK
<1>4. CASE CloseKnown(s)
  BY <1>4, CloseWithType DEF CloseKnown, SupTypeOK
<1>5. CASE ProcessExits(s)
  BY <1>5, CloseWithType DEF ProcessExits, SupTypeOK
<1>6. CASE JSONLFound(s)
  BY <1>6, EmitType, EventsAreEvents DEF JSONLFound, SupTypeOK
<1>7. CASE Output(s)
  BY <1>7, EmitType, EventsAreEvents DEF Output, SupTypeOK
<1> QED BY <1>1, <1>2, <1>3, <1>4, <1>5, <1>6, <1>7

LEMMA SupervisorDiesType ==
  ASSUME SupTypeOK, NEW w \in Wrappers, SupervisorDies(w)
  PROVE  SupTypeOK'
BY EventCapAssumption DEF SupervisorDies, SupTypeOK

(***************************************************************************)
(* The connections.                                                        *)
(***************************************************************************)

\* What the client writes for an event is a frame.
LEMMA EventIsFrame ==
  ASSUME NEW e \in Event, e.type # "data"
  PROVE  e \in WrapperFrame
BY DEF Event, WrapperFrame

LEMMA WriteType ==
  ASSUME LinkTypeOK, NEW c \in Conns
  PROVE  /\ \A f \in WrapperFrame : WriteToServer(c, f) =>
              toServer' \in [Conns -> Seq(WrapperFrame)]
         /\ \A f \in ServerFrame : WriteToWrapper(c, f) =>
              toWrapper' \in [Conns -> Seq(ServerFrame)]
<1>1. ASSUME NEW f \in WrapperFrame, WriteToServer(c, f)
      PROVE  toServer' \in [Conns -> Seq(WrapperFrame)]
  <2>1. Append(toServer[c], f) \in Seq(WrapperFrame)
    BY DEF LinkTypeOK
  <2> QED BY <1>1, <2>1 DEF WriteToServer, LinkTypeOK
<1>2. ASSUME NEW f \in ServerFrame, WriteToWrapper(c, f)
      PROVE  toWrapper' \in [Conns -> Seq(ServerFrame)]
  <2>1. Append(toWrapper[c], f) \in Seq(ServerFrame)
    BY DEF LinkTypeOK
  <2> QED BY <1>2, <2>1 DEF WriteToWrapper, LinkTypeOK
<1> QED BY <1>1, <1>2

LEMMA DownType ==
  ASSUME LinkTypeOK, NEW cs, Down(cs)
  PROVE  link' \in [Conns -> {"up", "down"}]
BY DEF Down, LinkTypeOK

LEMMA ServerClosesType ==
  ASSUME LinkTypeOK, NEW cs, ServerCloses(cs)
  PROVE  /\ link' \in [Conns -> {"up", "down"}]
         /\ toServer' \in [Conns -> Seq(WrapperFrame)]
<1>1. link' \in [Conns -> {"up", "down"}]
  BY DownType DEF ServerCloses
<1>2. ASSUME NEW c \in Conns, toServer[c] # <<>>
      PROVE  <<Head(toServer[c])>> \in Seq(WrapperFrame)
  <2>1. toServer[c] \in Seq(WrapperFrame)
    BY DEF LinkTypeOK
  <2>2. Head(toServer[c]) \in WrapperFrame
    BY <1>2, <2>1
  <2> QED BY <2>2
<1> QED BY <1>1, <1>2 DEF ServerCloses, LinkTypeOK

(***************************************************************************)
(* The store and the hub.                                                  *)
(***************************************************************************)

LEMMA StoreType ==
  ASSUME StoreTypeOK, NEW s \in Sessions, NEW w \in Wrappers, NEW why \in Reasons,
         \/ CreateRow(s) \/ MarkRunning(s) \/ MarkExited(s, why)
         \/ MarkWrapperOffline(w) \/ MarkRunningFromOffline(s)
  PROVE  StoreTypeOK'
<1>1. CASE CreateRow(s)
  BY <1>1 DEF CreateRow, StoreTypeOK, Statuses
<1>2. CASE MarkRunning(s)
  BY <1>2 DEF MarkRunning, StoreTypeOK, Statuses
<1>3. CASE MarkExited(s, why)
  BY <1>3 DEF MarkExited, StoreTypeOK, Statuses
<1>4. CASE MarkWrapperOffline(w)
  BY <1>4 DEF MarkWrapperOffline, StoreTypeOK, Statuses
<1>5. CASE MarkRunningFromOffline(s)
  BY <1>5 DEF MarkRunningFromOffline, StoreTypeOK, Statuses
<1> QED BY <1>1, <1>2, <1>3, <1>4, <1>5

LEMMA HubType ==
  ASSUME HubTypeOK, NEW s \in Sessions, NEW w \in Wrappers, NEW c \in Conns,
         \/ RegisterWrapper(w, c) \/ UnregisterWrapper(w)
         \/ AssignSession(s, w) \/ ForgetSession(s)
  PROVE  HubTypeOK'
BY DEF HubTypeOK, RegisterWrapper, UnregisterWrapper, AssignSession, ForgetSession

(***************************************************************************)
(* Type correctness.                                                       *)
(***************************************************************************)

LEMMA InitType == ASSUME Init PROVE TypeOK
BY DeploymentAssumption, EventCapAssumption, FaultsAssumption
DEF Init, TypeOK, LinkInit, SupInit, ClientInit, StoreInit, HubInit, HandlerInit,
    ApiInit, LinkTypeOK, SupTypeOK, ClientTypeOK, StoreTypeOK, HubTypeOK,
    HandlerTypeOK, ApiTypeOK, Statuses, Reasons, HandlerStates, CreateStates,
    Hand, Idle

\* Dialling, and the first frame.
LEMMA ConnectType ==
  ASSUME TypeOK, NEW w \in Wrappers, Connect(w)
  PROVE  TypeOK'
<1>1. PICK c \in Conns : Dial(w, c)
  BY DEF Connect
<1>2. LinkTypeOK'
  <2>1. Hello(Snapshot(w)) \in WrapperFrame
    BY DEF Hello, Snapshot, WrapperFrame, TypeOK, SupTypeOK
  <2>2. <<Hello(Snapshot(w))>> \in Seq(WrapperFrame)
    BY <2>1
  <2> QED BY <1>1, <2>2 DEF Dial, TypeOK, LinkTypeOK
<1>3. ClientTypeOK'
  BY <1>1 DEF Dial, TypeOK, ClientTypeOK
<1> QED
  BY <1>1, <1>2, <1>3 DEF Dial, Connect, ServerUnchanged, TypeOK, supVars, storeVars, hubVars,
     handlerVars, apiVars, SupTypeOK, StoreTypeOK, HubTypeOK, HandlerTypeOK, ApiTypeOK

LEMMA LeaveType ==
  ASSUME TypeOK, NEW w \in Wrappers, Leave(w)
  PROVE  /\ client' \in [Wrappers -> Conns \cup {NoConn}]
         /\ toWrapper' \in [Conns -> Seq(ServerFrame)]
BY DEF Leave, TypeOK, ClientTypeOK, LinkTypeOK

\* Everything that belongs to the server keeps its type when it keeps its value.
LEMMA ServerUnchangedType ==
  ASSUME TypeOK, ServerUnchanged
  PROVE  StoreTypeOK' /\ HubTypeOK' /\ HandlerTypeOK' /\ ApiTypeOK' /\ faults' \in 0..MaxFaults
BY DEF ServerUnchanged, TypeOK, storeVars, hubVars, handlerVars, apiVars, StoreTypeOK,
       HubTypeOK, HandlerTypeOK, ApiTypeOK

LEMMA SupUnchangedType ==
  ASSUME SupTypeOK, UNCHANGED supVars
  PROVE  SupTypeOK'
BY DEF SupTypeOK, supVars

LEMMA ClientUnchangedType ==
  ASSUME ClientTypeOK, UNCHANGED clientVars
  PROVE  ClientTypeOK'
BY DEF ClientTypeOK, clientVars

LEMMA LinkUnchangedType ==
  ASSUME LinkTypeOK, UNCHANGED linkVars
  PROVE  LinkTypeOK'
BY DEF LinkTypeOK, linkVars

\* The event loop of the client.
LEMMA ClientType ==
  ASSUME TypeOK, NEW w \in Wrappers, Client(w)
  PROVE  TypeOK'
<1>1. StoreTypeOK' /\ HubTypeOK' /\ HandlerTypeOK' /\ ApiTypeOK' /\ faults' \in 0..MaxFaults
  BY ServerUnchangedType DEF Client
<1>2. CASE RunOnceReturns(w)
  <2>1. SupTypeOK'
    BY <1>2, SupUnchangedType DEF RunOnceReturns, TypeOK
  <2>2. ClientTypeOK'
    BY <1>2, LeaveType DEF RunOnceReturns, TypeOK, ClientTypeOK, Hand, Idle
  <2>3. LinkTypeOK'
    BY <1>2, LeaveType, DownType DEF RunOnceReturns, TypeOK, LinkTypeOK
  <2> QED BY <1>1, <2>1, <2>2, <2>3 DEF TypeOK
<1>3. CASE SendEvent(w)
  <2> DEFINE c == client[w]
             e == Head(events[w])
  <2>1. /\ c \in Conns
        /\ events[w] \in Seq(Event) /\ events[w] # <<>> /\ Len(events[w]) <= EventCap
    BY <1>3 DEF SendEvent, TypeOK, ClientTypeOK, SupTypeOK
  <2>2. e \in Event /\ Tail(events[w]) \in Seq(Event) /\ Len(Tail(events[w])) <= EventCap
    BY <2>1, EventCapAssumption
  <2>3. SupTypeOK'
    BY <1>3, <2>2 DEF SendEvent, TypeOK, SupTypeOK
  <2>4. ClientTypeOK' /\ toWrapper' \in [Conns -> Seq(ServerFrame)]
    BY <1>3, LeaveType DEF SendEvent, TypeOK, ClientTypeOK, LinkTypeOK
  <2>5. toServer' \in [Conns -> Seq(WrapperFrame)]
    <3>1. CASE e.type = "data"
      BY <1>3, <3>1 DEF SendEvent, TypeOK, LinkTypeOK
    <3>2. CASE e.type # "data"
      BY <1>3, <3>2, <2>1, <2>2, WriteType, EventIsFrame DEF SendEvent, TypeOK
    <3> QED BY <3>1, <3>2
  <2>6. LinkTypeOK'
    BY <1>3, <2>4, <2>5 DEF SendEvent, TypeOK, LinkTypeOK
  <2> QED BY <1>1, <2>3, <2>4, <2>6 DEF TypeOK
<1> QED BY <1>2, <1>3 DEF Client

\* What readLoop does with a frame.
LEMMA ReadLoopType ==
  ASSUME TypeOK, NEW c \in Conns, ReadLoop(c)
  PROVE  TypeOK'
<1>1. StoreTypeOK' /\ HubTypeOK' /\ HandlerTypeOK' /\ ApiTypeOK' /\ faults' \in 0..MaxFaults
  BY ServerUnchangedType DEF ReadLoop
<1>2. hand \in [Conns -> Hand] /\ client \in [Wrappers -> Conns \cup {NoConn}]
  BY DEF TypeOK, ClientTypeOK
<1>3. Idle \in Hand /\ Failed \in Hand /\ \A s \in Sessions : Opened(s) \in Hand
  BY DEF Idle, Failed, Opened, Hand
<1>4. hand[c].type \in {"open", "opened", "close"} => hand[c].session \in Sessions
  BY <1>2 DEF Hand
<1>5. Handled(c) \/ HandledWithError(c) => hand' \in [Conns -> Hand]
  BY <1>2, <1>3 DEF Handled, HandledWithError
<1>6. CASE TakeFrame(c)
  <2>1. toWrapper[c] \in Seq(ServerFrame) /\ toWrapper[c] # <<>>
    BY <1>6 DEF TakeFrame, TypeOK, LinkTypeOK
  <2>2. Head(toWrapper[c]) \in ServerFrame /\ Tail(toWrapper[c]) \in Seq(ServerFrame)
    BY <2>1
  <2>3. Head(toWrapper[c]) \in Hand
    BY <2>2 DEF ServerFrame, Hand
  <2>4. ClientTypeOK'
    BY <1>2, <1>6, <2>3 DEF TakeFrame, ClientTypeOK
  <2>5. LinkTypeOK'
    BY <1>6, <2>2 DEF TakeFrame, TypeOK, LinkTypeOK
  <2>6. SupTypeOK'
    BY <1>6, SupUnchangedType DEF TakeFrame, TypeOK
  <2> QED BY <1>1, <2>4, <2>5, <2>6 DEF TypeOK
<1>7. CASE HandleOpen(c) \/ HandleOpenFails(c) \/ FinishOpen(c) \/ HandleClose(c)
  <2>1. hand[c].session \in Sessions
    BY <1>4, <1>7 DEF HandleOpen, HandleOpenFails, FinishOpen, HandleClose
  <2>2. SupTypeOK'
    BY <1>7, <2>1, SupervisorType
    DEF HandleOpen, HandleOpenFails, FinishOpen, HandleClose, TypeOK
  <2>3. ClientTypeOK'
    BY <1>2, <1>3, <1>5, <1>7, <2>1
    DEF HandleOpen, HandleOpenFails, FinishOpen, HandleClose, ClientTypeOK
  <2>4. LinkTypeOK'
    BY <1>7, LinkUnchangedType
    DEF HandleOpen, HandleOpenFails, FinishOpen, HandleClose, TypeOK
  <2> QED BY <1>1, <2>2, <2>3, <2>4 DEF TypeOK
<1>8. CASE HandleCloseUnknown(c)
  BY <1>1, <1>2, <1>5, <1>8, SupUnchangedType, LinkUnchangedType
  DEF HandleCloseUnknown, TypeOK, ClientTypeOK
<1> QED BY <1>6, <1>7, <1>8 DEF ReadLoop, ReadLoopStep

LEMMA SessionType ==
  ASSUME TypeOK, NEW s \in Sessions, Session(s)
  PROVE  TypeOK'
BY ServerUnchangedType, SupervisorType, LinkUnchangedType, ClientUnchangedType
DEF Session, SessionStep, TypeOK

\* Head of what a handler receives.
LEMMA ReceivedFrame ==
  ASSUME LinkTypeOK, NEW c \in Conns, NEW type, Receives(c, type)
  PROVE  /\ Head(toServer[c]) \in WrapperFrame
         /\ Head(toServer[c]).type = type
         /\ LinkTypeOK'
<1>1. toServer[c] \in Seq(WrapperFrame) /\ toServer[c] # <<>>
  BY DEF LinkTypeOK, Receives
<1>2. Head(toServer[c]) \in WrapperFrame /\ Tail(toServer[c]) \in Seq(WrapperFrame)
  BY <1>1
<1> QED BY <1>2 DEF Receives, LinkTypeOK

LEMMA FrameFields ==
  ASSUME NEW f \in WrapperFrame
  PROVE  /\ f.type = "hello" => f.live \in SUBSET Sessions
         /\ f.type \in {"started", "exited"} => f.session \in Sessions
         /\ f.type = "exited" => f.reason \in Reasons
BY DEF WrapperFrame, Reasons

\* The server's handler of one connection.
LEMMA HandlerType ==
  ASSUME TypeOK, NEW c \in Conns, Handler(c), peer[c] \in Wrappers
  PROVE  TypeOK'
<1>1. SupTypeOK' /\ ClientTypeOK' /\ ApiTypeOK' /\ faults' \in 0..MaxFaults
  BY SupUnchangedType, ClientUnchangedType DEF Handler, TypeOK, apiVars, ApiTypeOK
<1>2. handler \in [Conns -> HandlerStates] /\ pending \in [Conns -> SUBSET Sessions]
      /\ helloLive \in [Conns -> SUBSET Sessions]
  BY DEF TypeOK, HandlerTypeOK
<1>3. {"serving", "claiming", "reconciled", "left", "none"} \subseteq HandlerStates
  BY DEF HandlerStates
<1>4. CASE Register(c)
  <2>1. LinkTypeOK'
    BY <1>4, ServerClosesType DEF Register, TypeOK, LinkTypeOK
  <2>2. HubTypeOK'
    BY <1>4 DEF Register, RegisterWrapper, TypeOK, HubTypeOK
  <2>3. StoreTypeOK' /\ HandlerTypeOK'
    BY <1>2, <1>3, <1>4 DEF Register, storeVars, TypeOK, StoreTypeOK, HandlerTypeOK
  <2> QED BY <1>1, <2>1, <2>2, <2>3 DEF TypeOK
<1>5. CASE ReceiveHello(c)
  <2>1. LinkTypeOK' /\ Head(toServer[c]).live \in SUBSET Sessions
    BY <1>5, ReceivedFrame, FrameFields DEF ReceiveHello, TypeOK
  <2>2. HubTypeOK' /\ StoreTypeOK'
    BY <1>5 DEF ReceiveHello, storeVars, hubVars, TypeOK, StoreTypeOK, HubTypeOK
  <2>3. HandlerTypeOK'
    BY <1>2, <1>3, <1>5, <2>1 DEF ReceiveHello, HandlerTypeOK
  <2> QED BY <1>1, <2>1, <2>2, <2>3 DEF TypeOK
<1>6. ASSUME NEW s \in Sessions, ReconcileClaim(c, s)
      PROVE  TypeOK'
  <2>1. LinkTypeOK' /\ HandlerTypeOK'
    BY <1>2, <1>6, LinkUnchangedType DEF ReconcileClaim, TypeOK, HandlerTypeOK
  <2>2. StoreTypeOK'
    BY <1>6 DEF ReconcileClaim, MarkRunningFromOffline, TypeOK, StoreTypeOK, Statuses
  <2>3. HubTypeOK'
    BY <1>6 DEF ReconcileClaim, AssignSession, TypeOK, HubTypeOK
  <2> QED BY <1>1, <2>1, <2>2, <2>3 DEF TypeOK
<1>7. CASE ReconcileList(c)
  <2>1. ListLiveByWrapper(peer[c]) \in SUBSET Sessions
    BY DEF ListLiveByWrapper
  <2>2. LinkTypeOK' /\ StoreTypeOK' /\ HubTypeOK'
    BY <1>7, LinkUnchangedType
    DEF ReconcileList, storeVars, hubVars, TypeOK, StoreTypeOK, HubTypeOK
  <2>3. HandlerTypeOK'
    BY <1>2, <1>3, <1>7, <2>1 DEF ReconcileList, HandlerTypeOK
  <2> QED BY <1>1, <2>2, <2>3 DEF TypeOK
<1>8. ASSUME NEW s \in Sessions, ReconcileExpire(c, s)
      PROVE  TypeOK'
  <2>1. LinkTypeOK' /\ HandlerTypeOK'
    BY <1>2, <1>8, LinkUnchangedType DEF ReconcileExpire, TypeOK, HandlerTypeOK
  <2>2. StoreTypeOK'
    BY <1>8 DEF ReconcileExpire, MarkExited, TypeOK, StoreTypeOK, Statuses, Reasons
  <2>3. HubTypeOK'
    BY <1>8 DEF ReconcileExpire, hubVars, TypeOK, HubTypeOK
  <2> QED BY <1>1, <2>1, <2>2, <2>3 DEF TypeOK
<1>9. CASE ReceiveStarted(c)
  <2> DEFINE s == Head(toServer[c]).session
  <2>1. LinkTypeOK' /\ s \in Sessions
    BY <1>9, ReceivedFrame, FrameFields DEF ReceiveStarted, TypeOK
  <2>2. StoreTypeOK'
    BY <1>9, <2>1 DEF ReceiveStarted, MarkRunning, TypeOK, StoreTypeOK, Statuses
  <2>3. HubTypeOK'
    BY <1>9, <2>1 DEF ReceiveStarted, AssignSession, TypeOK, HubTypeOK
  <2>4. HandlerTypeOK'
    BY <1>9 DEF ReceiveStarted, handlerVars, TypeOK, HandlerTypeOK
  <2> QED BY <1>1, <2>1, <2>2, <2>3, <2>4 DEF TypeOK
<1>10. CASE ReceiveExited(c)
  <2> DEFINE f == Head(toServer[c])
  <2>1. LinkTypeOK' /\ f.session \in Sessions /\ f.reason \in Reasons
    BY <1>10, ReceivedFrame, FrameFields DEF ReceiveExited, TypeOK
  <2>2. StoreTypeOK'
    BY <1>10, <2>1 DEF ReceiveExited, MarkExited, TypeOK, StoreTypeOK, Statuses
  <2>3. HubTypeOK' /\ HandlerTypeOK'
    BY <1>10 DEF ReceiveExited, hubVars, handlerVars, TypeOK, HubTypeOK, HandlerTypeOK
  <2> QED BY <1>1, <2>1, <2>2, <2>3 DEF TypeOK
<1>11. CASE Unregister(c)
  <2>1. LinkTypeOK'
    BY <1>11, ServerClosesType DEF Unregister, TypeOK, LinkTypeOK
  <2>2. HubTypeOK'
    BY <1>11 DEF Unregister, UnregisterWrapper, TypeOK, HubTypeOK
  <2>3. StoreTypeOK' /\ HandlerTypeOK'
    BY <1>2, <1>3, <1>11 DEF Unregister, storeVars, TypeOK, StoreTypeOK, HandlerTypeOK
  <2> QED BY <1>1, <2>1, <2>2, <2>3 DEF TypeOK
<1>12. CASE MarkOffline(c)
  <2>1. LinkTypeOK'
    BY <1>12 DEF MarkOffline, TypeOK, LinkTypeOK
  <2>2. StoreTypeOK'
    BY <1>12 DEF MarkOffline, MarkWrapperOffline, TypeOK, StoreTypeOK, Statuses
  <2>3. HubTypeOK' /\ HandlerTypeOK'
    BY <1>2, <1>3, <1>12 DEF MarkOffline, hubVars, TypeOK, HubTypeOK, HandlerTypeOK
  <2> QED BY <1>1, <2>1, <2>2, <2>3 DEF TypeOK
<1> QED
  BY <1>4, <1>5, <1>6, <1>7, <1>8, <1>9, <1>10, <1>11, <1>12 DEF Handler, HandlerStep

\* The requests at the API.
LEMMA ApiType ==
  ASSUME TypeOK, NEW s \in Sessions, Api(s)
  PROVE  TypeOK'
<1>1. SupTypeOK' /\ ClientTypeOK' /\ HandlerTypeOK' /\ faults' \in 0..MaxFaults
  BY SupUnchangedType, ClientUnchangedType DEF Api, TypeOK, handlerVars, HandlerTypeOK
<1>2. /\ create \in [Sessions -> CreateStates]
      /\ sendTo \in [Sessions -> Conns \cup {NoConn}]
      /\ Owner[s] \in Wrappers
  BY DeploymentAssumption DEF TypeOK, ApiTypeOK
<1>3. {"idle", "inserted", "routed", "failed", "answered"} \subseteq CreateStates
  BY DEF CreateStates
<1>4. CASE CreateInsert(s)
  <2>1. StoreTypeOK'
    BY <1>4 DEF CreateInsert, CreateRow, TypeOK, StoreTypeOK, Statuses
  <2>2. LinkTypeOK' /\ HubTypeOK' /\ ApiTypeOK'
    BY <1>2, <1>3, <1>4, LinkUnchangedType
    DEF CreateInsert, hubVars, TypeOK, HubTypeOK, ApiTypeOK
  <2> QED BY <1>1, <2>1, <2>2 DEF TypeOK
<1>5. CASE OpenSession(s)
  <2>1. LinkTypeOK' /\ StoreTypeOK'
    BY <1>5, LinkUnchangedType DEF OpenSession, storeVars, TypeOK, StoreTypeOK
  <2>2. HubTypeOK'
    BY <1>2, <1>5 DEF OpenSession, AssignSession, hubVars, TypeOK, HubTypeOK
  <2>3. ApiTypeOK'
    BY <1>2, <1>3, <1>5 DEF OpenSession, TypeOK, HubTypeOK, ApiTypeOK
  <2> QED BY <1>1, <2>1, <2>2, <2>3 DEF TypeOK
<1>6. CASE SendOpen(s)
  <2>1. [type |-> "open", session |-> s] \in ServerFrame
    BY DEF ServerFrame
  <2>2. toWrapper' \in [Conns -> Seq(ServerFrame)]
    <3>1. CASE sendTo[s] \in Conns
      BY <1>6, <2>1, <3>1, WriteType DEF SendOpen, TypeOK
    <3>2. CASE sendTo[s] \notin Conns
      BY <1>6, <3>2 DEF SendOpen, WriteToWrapper, TypeOK, LinkTypeOK
    <3> QED BY <3>1, <3>2
  <2>3. LinkTypeOK'
    BY <1>6, <2>2 DEF SendOpen, TypeOK, LinkTypeOK
  <2>4. StoreTypeOK' /\ HubTypeOK' /\ ApiTypeOK'
    BY <1>2, <1>3, <1>6
    DEF SendOpen, storeVars, hubVars, TypeOK, StoreTypeOK, HubTypeOK, ApiTypeOK
  <2> QED BY <1>1, <2>3, <2>4 DEF TypeOK
<1>7. CASE FailCreate(s)
  <2>1. StoreTypeOK'
    BY <1>7 DEF FailCreate, MarkExited, storeVars, TypeOK, StoreTypeOK, Statuses, Reasons
  <2>2. LinkTypeOK' /\ HubTypeOK' /\ ApiTypeOK'
    BY <1>2, <1>3, <1>7, LinkUnchangedType
    DEF FailCreate, hubVars, TypeOK, HubTypeOK, ApiTypeOK
  <2> QED BY <1>1, <2>1, <2>2 DEF TypeOK
<1>8. CASE Delete(s)
  <2>1. [type |-> "close", session |-> s] \in ServerFrame
    BY DEF ServerFrame
  <2>2. sessionWrap[s] # NoWrapper /\ WrapperOnline(sessionWrap[s]) =>
          sessionWrap[s] \in Wrappers /\ wrappers[sessionWrap[s]] \in Conns
    BY DEF TypeOK, HubTypeOK, WrapperOnline
  <2>3. toWrapper' \in [Conns -> Seq(ServerFrame)]
    BY <1>8, <2>1, <2>2, WriteType DEF Delete, TypeOK, LinkTypeOK
  <2>4. LinkTypeOK'
    BY <1>8, <2>3 DEF Delete, TypeOK, LinkTypeOK
  <2>5. HubTypeOK'
    BY <1>8 DEF Delete, ForgetSession, AssignSession, hubVars, TypeOK, HubTypeOK
  <2>6. StoreTypeOK' /\ ApiTypeOK'
    BY <1>2, <1>8 DEF Delete, storeVars, TypeOK, StoreTypeOK, ApiTypeOK
  <2> QED BY <1>1, <2>4, <2>5, <2>6 DEF TypeOK
<1> QED BY <1>4, <1>5, <1>6, <1>7, <1>8 DEF Api, ApiStep

\* Network drops and crashes.
LEMMA FaultType ==
  ASSUME TypeOK,
         \/ \E c \in Conns : NetworkDrop(c)
         \/ \E w \in Wrappers : WrapperRestart(w)
         \/ ServerRestart
  PROVE  TypeOK'
<1>1. faults' \in 0..MaxFaults
  <2>1. faults < MaxFaults /\ faults' = faults + 1
    BY DEF NetworkDrop, WrapperRestart, ServerRestart, Fault
  <2> QED BY <2>1, FaultsAssumption DEF TypeOK
<1>2. CASE \E c \in Conns : NetworkDrop(c)
  <2>1. PICK c \in Conns : NetworkDrop(c)
    BY <1>2
  <2>2. LinkTypeOK'
    BY <2>1, DownType DEF NetworkDrop, TypeOK, LinkTypeOK
  <2>3. SupTypeOK' /\ ClientTypeOK'
    BY <2>1, SupUnchangedType, ClientUnchangedType DEF NetworkDrop, TypeOK
  <2>4. StoreTypeOK' /\ HubTypeOK' /\ HandlerTypeOK' /\ ApiTypeOK'
    BY <2>1 DEF NetworkDrop, storeVars, hubVars, handlerVars, apiVars, TypeOK, StoreTypeOK,
       HubTypeOK, HandlerTypeOK, ApiTypeOK
  <2> QED BY <1>1, <2>2, <2>3, <2>4 DEF TypeOK
<1>3. CASE \E w \in Wrappers : WrapperRestart(w)
  <2>1. PICK w \in Wrappers : WrapperRestart(w)
    BY <1>3
  <2>2. SupTypeOK'
    BY <2>1, SupervisorDiesType DEF WrapperRestart, WrapperCrash, TypeOK
  <2>3. ClientTypeOK' /\ LinkTypeOK'
    BY <2>1, LeaveType, DownType
    DEF WrapperRestart, WrapperCrash, TypeOK, ClientTypeOK, LinkTypeOK, Hand, Idle
  <2>4. StoreTypeOK' /\ HubTypeOK' /\ HandlerTypeOK' /\ ApiTypeOK'
    BY <2>1 DEF WrapperRestart, storeVars, hubVars, handlerVars, apiVars, TypeOK, StoreTypeOK,
       HubTypeOK, HandlerTypeOK, ApiTypeOK
  <2> QED BY <1>1, <2>2, <2>3, <2>4 DEF TypeOK
<1>4. CASE ServerRestart
  <2>1. LinkTypeOK'
    BY <1>4, DownType DEF ServerRestart, HandlersDie, TypeOK, LinkTypeOK
  <2>2. SupTypeOK' /\ ClientTypeOK'
    BY <1>4, SupUnchangedType, ClientUnchangedType DEF ServerRestart, TypeOK
  <2>3. StoreTypeOK' /\ HubTypeOK' /\ HandlerTypeOK'
    BY <1>4 DEF ServerRestart, HandlersDie, storeVars, TypeOK, StoreTypeOK, HubTypeOK,
       HandlerTypeOK, HandlerStates
  <2>4. ApiTypeOK'
    BY <1>4 DEF ServerRestart, RequestsDie, TypeOK, ApiTypeOK, CreateStates
  <2> QED BY <1>1, <2>1, <2>2, <2>3, <2>4 DEF TypeOK
<1> QED BY <1>2, <1>3, <1>4

(***************************************************************************)
(* Registrations. An identity that is dialled, or has a handler, has a     *)
(* peer; together with this, RegisteredIsServing is inductive.             *)
(***************************************************************************)

PeerKnown ==
  \A c \in Conns : c \in backlog \/ handler[c] # "none" => peer[c] \in Wrappers

Inv == TypeOK /\ PeerKnown /\ RegisteredIsServing

LEMMA InitInv == ASSUME Init PROVE Inv
<1>1. TypeOK
  BY InitType
<1>2. PeerKnown /\ RegisteredIsServing
  BY DEF Init, LinkInit, HubInit, HandlerInit, PeerKnown, RegisteredIsServing, WrapperOnline
<1> QED BY <1>1, <1>2 DEF Inv

\* Steps that leave the connections' peers, backlog, handlers and entries alone.
LEMMA UnchangedInv ==
  ASSUME PeerKnown, RegisteredIsServing, UNCHANGED <<peer, backlog, handler, wrappers>>
  PROVE  PeerKnown' /\ RegisteredIsServing'
BY DEF PeerKnown, RegisteredIsServing, WrapperOnline

LEMMA ConnectInv ==
  ASSUME Inv, NEW w \in Wrappers, Connect(w)
  PROVE  PeerKnown' /\ RegisteredIsServing'
<1>1. PICK c \in Conns : Unused(c) /\ Dial(w, c)
  BY DEF Connect
<1>2. /\ peer \in [Conns -> Wrappers \cup {NoWrapper}] /\ handler[c] = "none"
      /\ peer' = [peer EXCEPT ![c] = w] /\ backlog' = backlog \cup {c}
      /\ handler' = handler /\ wrappers' = wrappers
  BY <1>1 DEF Inv, TypeOK, LinkTypeOK, Unused, Dial, Connect, ServerUnchanged, handlerVars, hubVars
<1>3. \A v \in Wrappers : wrappers[v] # c
  BY <1>2, DeploymentAssumption DEF Inv, RegisteredIsServing, WrapperOnline
<1>4. PeerKnown'
  BY <1>2 DEF Inv, PeerKnown
<1>5. RegisteredIsServing'
  BY <1>2, <1>3 DEF Inv, TypeOK, HubTypeOK, RegisteredIsServing, WrapperOnline
<1> QED BY <1>4, <1>5

\* The handler of c: it enters its own connection, and before it is gone it has
\* removed the entry of its wrapper, whichever connection that names.
LEMMA HandlerInv ==
  ASSUME Inv, NEW c \in Conns, Handler(c)
  PROVE  PeerKnown' /\ RegisteredIsServing'
<1>1. /\ handler \in [Conns -> HandlerStates]
      /\ wrappers \in [Wrappers -> Conns \cup {NoConn}]
      /\ c # NoConn
  BY DeploymentAssumption DEF Inv, TypeOK, HandlerTypeOK, HubTypeOK
<1>2. CASE Register(c)
  BY <1>1, <1>2 DEF Inv, PeerKnown, RegisteredIsServing, WrapperOnline, Register, RegisterWrapper
<1>3. CASE ReceiveHello(c) \/ ReconcileList(c)
  BY <1>1, <1>3 DEF Inv, PeerKnown, RegisteredIsServing, WrapperOnline, ReceiveHello,
     ReconcileList, Receives, Reading, hubVars, linkVars
<1>4. CASE ReceiveStarted(c) \/ ReceiveExited(c)
  BY <1>4, UnchangedInv DEF Inv, ReceiveStarted, ReceiveExited, Receives, AssignSession,
     handlerVars, hubVars
<1>5. ASSUME NEW s \in Sessions, ReconcileClaim(c, s) \/ ReconcileExpire(c, s)
      PROVE  PeerKnown' /\ RegisteredIsServing'
  BY <1>5, UnchangedInv DEF Inv, ReconcileClaim, ReconcileExpire, AssignSession, linkVars, hubVars
<1>6. CASE Unregister(c)
  BY <1>1, <1>6 DEF Inv, PeerKnown, RegisteredIsServing, WrapperOnline, Unregister,
     UnregisterWrapper, Reading
<1>7. CASE MarkOffline(c)
  BY <1>1, <1>7 DEF Inv, PeerKnown, RegisteredIsServing, WrapperOnline, MarkOffline, hubVars
<1> QED BY <1>2, <1>3, <1>4, <1>5, <1>6, <1>7 DEF Handler, HandlerStep

LEMMA NextInv ==
  ASSUME Inv, [Next]_vars
  PROVE  Inv'
<1> USE DEF Inv
<1>1. ASSUME NEW w \in Wrappers, Connect(w) PROVE Inv'
  BY <1>1, ConnectType, ConnectInv
<1>2. ASSUME NEW w \in Wrappers, Client(w) PROVE Inv'
  <2>1. UNCHANGED <<peer, backlog, handler, wrappers>>
    BY <1>2 DEF Client, RunOnceReturns, SendEvent, ServerUnchanged, handlerVars, hubVars
  <2> QED BY <1>2, <2>1, ClientType, UnchangedInv
<1>3. ASSUME NEW c \in Conns, ReadLoop(c) PROVE Inv'
  <2>1. UNCHANGED <<peer, backlog, handler, wrappers>>
    BY <1>3 DEF ReadLoop, ReadLoopStep, TakeFrame, HandleOpen, HandleOpenFails, FinishOpen,
       HandleClose, HandleCloseUnknown, linkVars, ServerUnchanged, handlerVars, hubVars
  <2> QED BY <1>3, <2>1, ReadLoopType, UnchangedInv
<1>4. ASSUME NEW s \in Sessions, Session(s) PROVE Inv'
  <2>1. UNCHANGED <<peer, backlog, handler, wrappers>>
    BY <1>4 DEF Session, SessionStep, linkVars, ServerUnchanged, handlerVars, hubVars
  <2> QED BY <1>4, <2>1, SessionType, UnchangedInv
<1>5. ASSUME NEW c \in Conns, Handler(c) PROVE Inv'
  <2>1. peer[c] \in Wrappers
    BY <1>5 DEF PeerKnown, Handler, HandlerStep, Register, ReceiveHello, ReconcileClaim,
       ReconcileList, ReconcileExpire, ReceiveStarted, ReceiveExited, Unregister, MarkOffline,
       Receives, Reading
  <2> QED BY <1>5, <2>1, HandlerType, HandlerInv
<1>6. ASSUME NEW s \in Sessions, Api(s) PROVE Inv'
  <2>1. UNCHANGED <<peer, backlog, handler, wrappers>>
    BY <1>6 DEF Api, ApiStep, CreateInsert, OpenSession, SendOpen, FailCreate, Delete,
       ForgetSession, AssignSession, linkVars, handlerVars, hubVars
  <2> QED BY <1>6, <2>1, ApiType, UnchangedInv
<1>7. ASSUME NEW c \in Conns, NetworkDrop(c) PROVE Inv'
  <2>1. UNCHANGED <<peer, backlog, handler, wrappers>>
    BY <1>7 DEF NetworkDrop, handlerVars, hubVars
  <2> QED BY <1>7, <2>1, FaultType, UnchangedInv
<1>8. ASSUME NEW w \in Wrappers, WrapperRestart(w) PROVE Inv'
  <2>1. UNCHANGED <<peer, backlog, handler, wrappers>>
    BY <1>8 DEF WrapperRestart, WrapperCrash, handlerVars, hubVars
  <2> QED BY <1>8, <2>1, FaultType, UnchangedInv
<1>9. CASE ServerRestart
  <2>1. PeerKnown' /\ RegisteredIsServing'
    BY <1>9 DEF ServerRestart, HandlersDie, PeerKnown, RegisteredIsServing, WrapperOnline
  <2> QED BY <1>9, <2>1, FaultType
<1>10. CASE UNCHANGED vars
  <2>1. UNCHANGED <<peer, backlog, handler, wrappers>>
    BY <1>10 DEF vars, linkVars, handlerVars, hubVars
  <2>2. TypeOK'
    BY <1>10, SupUnchangedType, ClientUnchangedType, LinkUnchangedType, ServerUnchangedType
    DEF vars, ServerUnchanged, TypeOK
  <2> QED BY <2>1, <2>2, UnchangedInv
<1> QED
  BY <1>1, <1>2, <1>3, <1>4, <1>5, <1>6, <1>7, <1>8, <1>9, <1>10 DEF Next

\* Every variable keeps its type, and no wrapper's channel of events exceeds its
\* capacity, in every reachable state.
THEOREM TypeCorrect == Spec => []TypeOK
<1>1. Inv => TypeOK
  BY DEF Inv
<1> QED BY <1>1, InitInv, NextInv, PTL DEF Spec

\* The hub only ever routes to a connection of that wrapper whose handler is
\* still serving it, however the handlers of one wrapper overlap.
THEOREM RoutesAreServed == Spec => []RegisteredIsServing
<1>1. Inv => RegisteredIsServing
  BY DEF Inv
<1> QED BY <1>1, InitInv, NextInv, PTL DEF Spec

(***************************************************************************)
(* What the rows say. Each open_session is in one place at a time: index 0 *)
(* stands for the hand of readLoop, the others for the frames in flight.   *)
(* It is used up before its process begins, so none begins twice; and what *)
(* a message on its way, or a row, says of a process is true, and stays so.*)
(***************************************************************************)

OpenFrame(s) == [type |-> "open", session |-> s]

Places(c) == 0..Len(toWrapper[c])

OpenAt(s, c, i) ==
  IF i = 0 THEN hand[c] = OpenFrame(s) ELSE toWrapper[c][i] = OpenFrame(s)

Outstanding == {s \in Sessions : \E c \in Conns : \E i \in Places(c) : OpenAt(s, c, i)}

Begun == {s \in Sessions : proc[s] # "none"}
Dead == {s \in Sessions : proc[s] = "dead"}

\* The request is past its send, and no process came or can still come of it.
Unopened ==
  {s \in Sessions \ (Begun \cup Outstanding) : create[s] \in {"failed", "answered"}}

\* An open_session is in one place, and only while its process has not begun,
\* and neither happens before its request is answered.
OpensInv ==
  /\ \A s \in Sessions : \A c, d \in Conns : \A i \in Places(c), j \in Places(d) :
       OpenAt(s, c, i) /\ OpenAt(s, d, j) => c = d /\ i = j
  /\ Outstanding \cap Begun = {}
  /\ \A s \in Outstanding \cup Begun : create[s] = "answered"

\* What an event or frame m says is true of sets of sessions that have begun,
\* ended, and never will begin.
Truthful(m, begun, dead, unopened) ==
  /\ m.type = "hello" => m.live \subseteq begun
  /\ m.type = "started" => m.session \in begun
  /\ m.type = "exited" =>
       /\ m.reason \in {"normal", "wrapper_close"} => m.session \in dead
       /\ m.reason = "spawn_failed" => m.session \in unopened

AllTruthful(q, begun, dead, unopened) ==
  \A i \in 1..Len(q) : Truthful(q[i], begun, dead, unopened)

EventsTrue == \A w \in Wrappers : AllTruthful(events[w], Begun, Dead, Unopened)

FramesTrue == \A c \in Conns : AllTruthful(toServer[c], Begun, Dead, Unopened)

WrapperKnows ==
  /\ table \subseteq Begun
  /\ \A s \in Sessions : discover[s] = "watching" => s \in Begun
  /\ \A c \in Conns : hand[c].type = "opened" => hand[c].session \in Begun

ServerKnows == \A c \in Conns : handler[c] = "claiming" => pending[c] \subseteq Begun

RowsTrue ==
  \A s \in Sessions :
    /\ status[s] = "running" => s \in Begun
    /\ reason[s] \in {"normal", "wrapper_close"} => s \in Dead
    /\ reason[s] = "spawn_failed" => s \in Unopened

TruthInv == EventsTrue /\ FramesTrue /\ WrapperKnows /\ ServerKnows /\ RowsTrue

LifeInv == Inv /\ OpensInv /\ TruthInv

\* What is known of processes stays known.
Lasts ==
  /\ Begun \subseteq Begun' /\ Dead \subseteq Dead' /\ Unopened \subseteq Unopened'

-----------------------------------------------------------------------------
(***************************************************************************)
(* Where the open_session frames are.                                      *)
(***************************************************************************)

\* A step that puts no open_session anywhere, begins a process only by using
\* one up, and moves requests on only from their send.
OpensNothing ==
  /\ \A s \in Sessions : \A c \in Conns : \A i \in 0..Len(toWrapper'[c]) :
       OpenAt(s, c, i)' => i \in Places(c) /\ OpenAt(s, c, i)
  /\ \A s \in Sessions :
       /\ \/ proc'[s] = proc[s]
          \/ proc[s] = "alive" /\ proc'[s] = "dead"
          \/ s \in Outstanding \ Outstanding' /\ proc'[s] = "alive"
       /\ create[s] = "answered" => create'[s] = "answered"
       /\ create[s] = "failed" => create'[s] \in {"failed", "answered"}

LEMMA OpensNothingKeeps ==
  ASSUME OpensInv, OpensNothing
  PROVE  OpensInv' /\ Lasts
<1>1. Outstanding' \subseteq Outstanding
  BY DEF Outstanding, OpensNothing, Places
<1>2. ASSUME NEW s \in Sessions, s \in Outstanding'
      PROVE  s \notin Begun' /\ create'[s] = "answered"
  BY <1>1, <1>2 DEF OpensInv, OpensNothing, Begun
<1>3. ASSUME NEW s \in Begun'
      PROVE  create'[s] = "answered"
  BY <1>3 DEF OpensInv, OpensNothing, Begun
<1>4. ASSUME NEW s \in Sessions, NEW c \in Conns, NEW d \in Conns,
             NEW i \in 0..Len(toWrapper'[c]), NEW j \in 0..Len(toWrapper'[d]),
             OpenAt(s, c, i)', OpenAt(s, d, j)'
      PROVE  c = d /\ i = j
  BY <1>4 DEF OpensInv, OpensNothing
<1>5. Outstanding' \subseteq Sessions /\ Begun' \subseteq Sessions
  BY DEF Outstanding, Begun
<1>6. OpensInv'
  BY <1>2, <1>3, <1>4, <1>5 DEF OpensInv, Places
<1>7. Begun \subseteq Begun' /\ Dead \subseteq Dead'
  BY DEF OpensInv, OpensNothing, Begun, Dead
<1>8. Unopened \subseteq Unopened'
  BY <1>1 DEF OpensInv, OpensNothing, Unopened, Begun
<1> QED BY <1>6, <1>7, <1>8 DEF Lasts

\* A queue of frames that is emptied, or has a close_session appended, has no
\* new open_session; nor has a hand that has finished with its frame.
LEMMA NoNewOpen ==
  ASSUME TypeOK,
         \A c \in Conns : hand'[c] = hand[c] \/ hand'[c].type # "open",
         \A c \in Conns :
           \/ toWrapper'[c] = toWrapper[c]
           \/ toWrapper'[c] = <<>>
           \/ \E s : toWrapper'[c] = Append(toWrapper[c], [type |-> "close", session |-> s])
  PROVE  \A t \in Sessions : \A c \in Conns : \A i \in 0..Len(toWrapper'[c]) :
           OpenAt(t, c, i)' => i \in Places(c) /\ OpenAt(t, c, i)
<1> SUFFICES ASSUME NEW t \in Sessions, NEW c \in Conns,
                    NEW i \in 0..Len(toWrapper'[c]), OpenAt(t, c, i)'
             PROVE  i \in Places(c) /\ OpenAt(t, c, i)
  OBVIOUS
<1>1. toWrapper[c] \in Seq(ServerFrame)
  BY DEF TypeOK, LinkTypeOK
<1>2. CASE i = 0
  <2>1. hand'[c] = OpenFrame(t)
    BY <1>2 DEF OpenAt, OpenFrame
  <2>2. hand'[c] = hand[c]
    BY <2>1 DEF OpenFrame
  <2> QED BY <1>1, <1>2, <2>1, <2>2 DEF OpenAt, OpenFrame, Places
<1>3. CASE i # 0
  <2>1. toWrapper'[c][i] = OpenFrame(t)
    BY <1>3 DEF OpenAt, OpenFrame
  <2>2. CASE toWrapper'[c] = toWrapper[c]
    BY <1>3, <2>1, <2>2 DEF OpenAt, Places
  <2>3. CASE toWrapper'[c] = <<>>
    BY <1>3, <2>3
  <2>4. ASSUME NEW s, toWrapper'[c] = Append(toWrapper[c], [type |-> "close", session |-> s])
        PROVE  i \in Places(c) /\ OpenAt(t, c, i)
    <3>1. CASE i \in Places(c)
      BY <1>1, <1>3, <2>1, <2>4, <3>1 DEF OpenAt, Places
    <3>2. CASE i \notin Places(c)
      <4>1. i = Len(toWrapper[c]) + 1
        BY <1>1, <1>3, <2>4, <3>2 DEF Places
      <4>2. toWrapper'[c][i] = [type |-> "close", session |-> s]
        BY <1>1, <2>4, <4>1
      <4> QED BY <2>1, <4>2 DEF OpenFrame
    <3> QED BY <3>1, <3>2
  <2> QED BY <2>2, <2>3, <2>4
<1> QED BY <1>2, <1>3

\* readLoop takes the first frame in hand: every frame moves one place up.
LEMMA TakeFrameKeeps ==
  ASSUME TypeOK, OpensInv, NEW c \in Conns, TakeFrame(c), UNCHANGED create
  PROVE  OpensInv' /\ Lasts
<1>1. toWrapper[c] \in Seq(ServerFrame) /\ toWrapper[c] # <<>>
  BY DEF TakeFrame, TypeOK, LinkTypeOK
<1>2. /\ hand' = [hand EXCEPT ![c] = toWrapper[c][1]]
      /\ toWrapper' = [toWrapper EXCEPT ![c] = Tail(toWrapper[c])]
      /\ proc' = proc /\ hand[c] = Idle
  BY <1>1 DEF TakeFrame, supVars
<1>3. /\ hand'[c] = toWrapper[c][1] /\ toWrapper'[c] = Tail(toWrapper[c])
      /\ \A d \in Conns \ {c} : hand'[d] = hand[d] /\ toWrapper'[d] = toWrapper[d]
  BY <1>2 DEF TypeOK, ClientTypeOK, LinkTypeOK
<1>4. /\ Len(toWrapper'[c]) = Len(toWrapper[c]) - 1 /\ Len(toWrapper[c]) \in Nat \ {0}
      /\ \A i \in 1..Len(toWrapper'[c]) : toWrapper'[c][i] = toWrapper[c][i + 1]
  BY <1>1, <1>3
<1> DEFINE from(d, i) == IF d = c THEN i + 1 ELSE i
<1>5. ASSUME NEW s \in Sessions, NEW d \in Conns, NEW i \in 0..Len(toWrapper'[d]),
             OpenAt(s, d, i)'
      PROVE  from(d, i) \in Places(d) /\ OpenAt(s, d, from(d, i))
  <2>1. CASE d = c
    <3>1. i + 1 \in 1..Len(toWrapper[c])
      BY <1>4, <2>1
    <3>2. toWrapper[c][i + 1] = OpenFrame(s)
      <4>1. CASE i = 0
        BY <1>3, <1>5, <2>1, <4>1 DEF OpenAt, OpenFrame
      <4>2. CASE i # 0
        <5>1. i \in 1..Len(toWrapper'[c])
          BY <1>4, <2>1, <4>2
        <5>2. toWrapper'[c][i] = OpenFrame(s)
          BY <1>5, <2>1, <4>2 DEF OpenAt, OpenFrame
        <5> QED BY <1>4, <5>1, <5>2
      <4> QED BY <4>1, <4>2
    <3> QED BY <2>1, <3>1, <3>2 DEF OpenAt, Places
  <2>2. CASE d # c
    BY <1>3, <1>5, <2>2 DEF OpenAt, OpenFrame, Places
  <2> QED BY <2>1, <2>2
<1>6. Outstanding' \subseteq Outstanding
  BY <1>5 DEF Outstanding, Places
<1>7. ASSUME NEW s \in Sessions, NEW d \in Conns, NEW e \in Conns,
             NEW i \in 0..Len(toWrapper'[d]), NEW j \in 0..Len(toWrapper'[e]),
             OpenAt(s, d, i)', OpenAt(s, e, j)'
      PROVE  d = e /\ i = j
  <2>1. /\ from(d, i) \in Places(d) /\ OpenAt(s, d, from(d, i))
        /\ from(e, j) \in Places(e) /\ OpenAt(s, e, from(e, j))
    BY <1>5, <1>7
  <2>2. d = e /\ from(d, i) = from(e, j)
    BY <2>1 DEF OpensInv
  <2> QED BY <2>2
<1>8. Begun' = Begun /\ Dead' = Dead
  BY <1>2 DEF Begun, Dead
<1>9. OpensInv'
  BY <1>6, <1>7, <1>8 DEF OpensInv, Places
<1>10. Lasts
  BY <1>6, <1>8 DEF Lasts, Unopened
<1> QED BY <1>9, <1>10

\* The send of a request puts its open_session in one place, at most.
LEMMA SendOpenKeeps ==
  ASSUME TypeOK, OpensInv, NEW s \in Sessions, SendOpen(s), UNCHANGED <<hand, proc>>
  PROVE  OpensInv' /\ Lasts
<1> DEFINE c == sendTo[s]
<1>1. create[s] = "routed" /\ s \notin Outstanding /\ s \notin Begun
  BY DEF SendOpen, OpensInv
<1>2. create'[s] \in {"answered", "failed"} /\ \A t \in Sessions \ {s} : create'[t] = create[t]
  BY DEF SendOpen, TypeOK, ApiTypeOK
<1>3. CASE toWrapper' = toWrapper
  <2>1. OpensNothing
    BY <1>1, <1>2, <1>3 DEF OpensNothing, OpenAt, Places
  <2> QED BY <2>1, OpensNothingKeeps
<1>4. CASE toWrapper' # toWrapper
  <2>1. /\ link[c] = "up" /\ c \in Conns
        /\ toWrapper' = [toWrapper EXCEPT ![c] = Append(toWrapper[c], OpenFrame(s))]
    BY <1>4 DEF SendOpen, WriteToWrapper, TypeOK, LinkTypeOK, OpenFrame
  <2>2. create'[s] = "answered"
    BY <2>1 DEF SendOpen, TypeOK, ApiTypeOK
  <2>3. toWrapper[c] \in Seq(ServerFrame)
    BY <2>1 DEF TypeOK, LinkTypeOK
  <2> DEFINE n == Len(toWrapper[c]) + 1
  <2>4. /\ toWrapper'[c] = Append(toWrapper[c], OpenFrame(s))
        /\ \A d \in Conns \ {c} : toWrapper'[d] = toWrapper[d]
    BY <2>1 DEF TypeOK, LinkTypeOK
  <2>5. /\ Len(toWrapper'[c]) = n /\ n \in Nat \ {0} /\ toWrapper'[c][n] = OpenFrame(s)
        /\ \A i \in 1..Len(toWrapper[c]) : toWrapper'[c][i] = toWrapper[c][i]
    BY <2>3, <2>4
  <2>6. ASSUME NEW t \in Sessions, NEW d \in Conns, NEW i \in 0..Len(toWrapper'[d]),
               OpenAt(t, d, i)'
        PROVE  \/ t = s /\ d = c /\ i = n
               \/ i \in Places(d) /\ OpenAt(t, d, i)
    <3>1. CASE d = c /\ i = n
      BY <2>5, <2>6, <3>1 DEF OpenAt, OpenFrame
    <3>2. CASE d = c /\ i # n
      BY <2>5, <2>6, <3>2 DEF OpenAt, Places
    <3>3. CASE d # c
      BY <2>4, <2>6, <3>3 DEF OpenAt, Places
    <3> QED BY <3>1, <3>2, <3>3
  <2>7. Outstanding' \subseteq Outstanding \cup {s}
    BY <2>6 DEF Outstanding, Places
  <2>8. \A d \in Conns : \A i \in Places(d) : ~OpenAt(s, d, i)
    BY <1>1 DEF Outstanding
  <2>9. ASSUME NEW t \in Sessions, NEW d \in Conns, NEW e \in Conns,
               NEW i \in 0..Len(toWrapper'[d]), NEW j \in 0..Len(toWrapper'[e]),
               OpenAt(t, d, i)', OpenAt(t, e, j)'
        PROVE  d = e /\ i = j
    BY <2>6, <2>8, <2>9 DEF OpensInv
  <2>10. Begun' = Begun /\ Dead' = Dead
    BY DEF Begun, Dead
  <2>11. OpensInv'
    <3>1. Outstanding' \cap Begun' = {}
      BY <1>1, <2>7, <2>10 DEF OpensInv
    <3>2. ASSUME NEW t \in Outstanding' \cup Begun'
          PROVE  create'[t] = "answered"
      BY <1>1, <1>2, <2>2, <2>7, <2>10 DEF OpensInv, Outstanding, Begun
    <3> QED BY <2>9, <3>1, <3>2 DEF OpensInv, Places
  <2>12. Lasts
    BY <1>1, <1>2, <2>7, <2>10 DEF Lasts, Unopened
  <2> QED BY <2>11, <2>12
<1> QED BY <1>3, <1>4

\* The supervisor's own steps only ever end a process.
LEMMA CloseWithEnds ==
  ASSUME SupTypeOK, NEW s \in Sessions, NEW why, CloseWith(s, why)
  PROVE  \A t \in Sessions : proc'[t] = proc[t] \/ (proc[t] = "alive" /\ proc'[t] = "dead")
BY DEF CloseWith, SupTypeOK

\* An open_session that readLoop has done with is gone.
LEMMA OpenUsedUp ==
  ASSUME TypeOK, OpensInv, NEW c \in Conns, NEW s \in Sessions, NEW h,
         hand[c] = OpenFrame(s), hand' = [hand EXCEPT ![c] = h], h.type # "open",
         toWrapper' = toWrapper
  PROVE  s \in Outstanding \ Outstanding'
<1>1. hand \in [Conns -> Hand] /\ \A d \in Conns : hand'[d] = hand[d] \/ hand'[d].type # "open"
  BY DEF TypeOK, ClientTypeOK
<1>2. 0 \in Places(c)
  BY DEF Places, TypeOK, LinkTypeOK
<1>3. OpenAt(s, c, 0) /\ s \in Outstanding
  BY <1>2 DEF OpenAt, Outstanding
<1>4. ~OpenAt(s, c, 0)'
  BY <1>1 DEF OpenAt, OpenFrame
<1>5. s \notin Outstanding'
  <2> SUFFICES ASSUME NEW d \in Conns, NEW i \in 0..Len(toWrapper'[d]), OpenAt(s, d, i)'
               PROVE  FALSE
    BY DEF Outstanding, Places
  <2>1. i \in Places(d) /\ OpenAt(s, d, i)
    BY <1>1, NoNewOpen
  <2>2. d = c /\ i = 0
    BY <1>2, <1>3, <2>1 DEF OpensInv
  <2> QED BY <1>4, <2>2
<1> QED BY <1>3, <1>5

\* readLoop: an open_session that is handled is used up.
LEMMA ReadLoopKeeps ==
  ASSUME TypeOK, OpensInv, NEW c \in Conns, ReadLoop(c)
  PROVE  OpensInv' /\ Lasts
<1>1. create' = create
  BY DEF ReadLoop, ServerUnchanged, apiVars
<1>2. hand \in [Conns -> Hand] /\ SupTypeOK
  BY DEF TypeOK, ClientTypeOK
<1>3. hand[c].type \in {"open", "opened", "close"} => hand[c].session \in Sessions
  BY <1>2 DEF Hand
<1>4. Handled(c) \/ HandledWithError(c) =>
        \A d \in Conns : hand'[d] = hand[d] \/ hand'[d].type # "open"
  BY <1>2 DEF Handled, HandledWithError, Idle, Failed
<1>5. CASE TakeFrame(c)
  BY <1>1, <1>5, TakeFrameKeeps
<1>6. CASE HandleOpen(c)
  <2>1. PICK s \in Sessions : hand[c] = OpenFrame(s)
    BY <1>2, <1>6 DEF HandleOpen, Hand, OpenFrame
  <2>2. /\ hand' = [hand EXCEPT ![c] = Opened(s)] /\ toWrapper' = toWrapper
        /\ proc' = [proc EXCEPT ![s] = "alive"]
    BY <1>6, <2>1 DEF HandleOpen, OpenInsert, OpenFrame, linkVars
  <2>3. \A t \in Sessions : \A d \in Conns : \A i \in 0..Len(toWrapper'[d]) :
          OpenAt(t, d, i)' => i \in Places(d) /\ OpenAt(t, d, i)
    <3>1. \A d \in Conns : hand'[d] = hand[d] \/ hand'[d].type # "open"
      BY <1>2, <2>2 DEF Opened
    <3> QED BY <2>2, <3>1, NoNewOpen
  <2>4. s \in Outstanding \ Outstanding'
    <3>1. Opened(s).type # "open" /\ hand' = [hand EXCEPT ![c] = Opened(s)]
      BY <2>2 DEF Opened
    <3> QED BY <2>1, <2>2, <3>1, OpenUsedUp
  <2>5. OpensNothing
    BY <1>1, <1>2, <2>2, <2>3, <2>4 DEF OpensNothing, SupTypeOK
  <2> QED BY <2>5, OpensNothingKeeps
<1>7. CASE HandleOpenFails(c) \/ FinishOpen(c) \/ HandleClose(c)
  <2>1. hand[c].session \in Sessions
    BY <1>3, <1>7 DEF HandleOpenFails, FinishOpen, HandleClose
  <2>2. \A d \in Conns : hand'[d] = hand[d] \/ hand'[d].type # "open"
    BY <1>4, <1>7 DEF HandleOpenFails, FinishOpen, HandleClose
  <2>3. toWrapper' = toWrapper
    BY <1>7 DEF HandleOpenFails, FinishOpen, HandleClose, linkVars
  <2>4. \A t \in Sessions :
          proc'[t] = proc[t] \/ (proc[t] = "alive" /\ proc'[t] = "dead")
    BY <1>2, <1>7, <2>1, CloseWithEnds
    DEF HandleOpenFails, FinishOpen, HandleClose, OpenSpawnFailed, OpenAnnounce, CloseKnown
  <2>5. OpensNothing
    BY <1>1, <2>1, <2>2, <2>3, <2>4, NoNewOpen DEF OpensNothing
  <2> QED BY <2>5, OpensNothingKeeps
<1>8. CASE HandleCloseUnknown(c)
  <2>1. hand[c].session \in Sessions /\ toWrapper' = toWrapper /\ proc' = proc
    BY <1>3, <1>8 DEF HandleCloseUnknown, linkVars, supVars
  <2>2. OpensNothing
    BY <1>1, <1>4, <1>8, <2>1, NoNewOpen DEF OpensNothing, HandleCloseUnknown
  <2> QED BY <2>2, OpensNothingKeeps
<1> QED BY <1>5, <1>6, <1>7, <1>8 DEF ReadLoop, ReadLoopStep

\* The requests.
LEMMA ApiKeeps ==
  ASSUME TypeOK, OpensInv, NEW s \in Sessions, Api(s)
  PROVE  OpensInv' /\ Lasts
<1>1. proc' = proc /\ hand' = hand
  BY DEF Api, supVars, clientVars
<1>2. create \in [Sessions -> CreateStates]
  BY DEF TypeOK, ApiTypeOK
<1>3. CASE SendOpen(s)
  BY <1>1, <1>3, SendOpenKeeps
<1>4. CASE CreateInsert(s) \/ OpenSession(s) \/ FailCreate(s)
  <2>1. toWrapper' = toWrapper
    BY <1>4 DEF CreateInsert, OpenSession, FailCreate, linkVars
  <2>2. OpensNothing
    BY <1>1, <1>2, <1>4, <2>1
    DEF OpensNothing, OpenAt, Places, CreateInsert, OpenSession, FailCreate
  <2> QED BY <2>2, OpensNothingKeeps
<1>5. CASE Delete(s)
  <2>1. create' = create
    BY <1>5 DEF Delete
  <2>2. \A c \in Conns :
          \/ toWrapper'[c] = toWrapper[c]
          \/ toWrapper'[c] = Append(toWrapper[c], [type |-> "close", session |-> s])
    BY <1>5 DEF Delete, WriteToWrapper, TypeOK, LinkTypeOK
  <2>3. OpensNothing
    BY <1>1, <2>1, <2>2, NoNewOpen DEF OpensNothing
  <2> QED BY <2>3, OpensNothingKeeps
<1> QED BY <1>3, <1>4, <1>5 DEF Api, ApiStep

\* Leaving a connection only empties its queue.
LEMMA LeaveEmpties ==
  ASSUME NEW w \in Wrappers, Leave(w)
  PROVE  \A c \in Conns : toWrapper'[c] = toWrapper[c] \/ toWrapper'[c] = <<>>
BY DEF Leave

\* Steps that only end processes, clear queues and hands, and give requests up.
LEMMA EndingKeeps ==
  ASSUME TypeOK, OpensInv,
         \A s \in Sessions :
           /\ proc'[s] = proc[s] \/ (proc[s] = "alive" /\ proc'[s] = "dead")
           /\ create'[s] \in {create[s], "answered"},
         \A c \in Conns : hand'[c] \in {hand[c], Idle},
         \A c \in Conns : toWrapper'[c] = toWrapper[c] \/ toWrapper'[c] = <<>>
  PROVE  OpensInv' /\ Lasts
<1>1. \A c \in Conns : hand'[c] = hand[c] \/ hand'[c].type # "open"
  BY DEF Idle
<1>2. OpensNothing
  BY <1>1, NoNewOpen DEF OpensNothing
<1> QED BY <1>2, OpensNothingKeeps

LEMMA NextOpens ==
  ASSUME TypeOK, OpensInv, [Next]_vars
  PROVE  OpensInv' /\ Lasts
<1> DEFINE Done == OpensInv' /\ Lasts
<1>1. hand \in [Conns -> Hand] /\ SupTypeOK
  BY DEF TypeOK, ClientTypeOK
<1>2. ASSUME NEW w \in Wrappers, Connect(w) PROVE Done
  <2>1. hand' = hand /\ proc' = proc /\ create' = create
    BY <1>2 DEF Connect, Dial, ServerUnchanged, supVars, apiVars
  <2>2. \A c \in Conns : toWrapper'[c] = toWrapper[c] \/ toWrapper'[c] = <<>>
    BY <1>2 DEF Connect, Dial, TypeOK, LinkTypeOK
  <2> QED BY <2>1, <2>2, EndingKeeps
<1>3. ASSUME NEW w \in Wrappers, Client(w) PROVE Done
  <2>1. proc' = proc /\ create' = create
    BY <1>3 DEF Client, RunOnceReturns, SendEvent, ServerUnchanged, supVars, apiVars
  <2>2. \A c \in Conns : hand'[c] \in {hand[c], Idle}
    BY <1>1, <1>3 DEF Client, RunOnceReturns, SendEvent
  <2>3. \A c \in Conns : toWrapper'[c] = toWrapper[c] \/ toWrapper'[c] = <<>>
    BY <1>3, LeaveEmpties DEF Client, RunOnceReturns, SendEvent
  <2> QED BY <2>1, <2>2, <2>3, EndingKeeps
<1>4. ASSUME NEW c \in Conns, ReadLoop(c) PROVE Done
  BY <1>4, ReadLoopKeeps
<1>5. ASSUME NEW s \in Sessions, Session(s) PROVE Done
  <2>1. toWrapper' = toWrapper /\ hand' = hand /\ create' = create
    BY <1>5 DEF Session, SessionStep, ServerUnchanged, linkVars, clientVars, apiVars
  <2>2. \A t \in Sessions :
          proc'[t] = proc[t] \/ (proc[t] = "alive" /\ proc'[t] = "dead")
    BY <1>1, <1>5, CloseWithEnds DEF Session, SessionStep, ProcessExits, JSONLFound, Output
  <2> QED BY <2>1, <2>2, EndingKeeps
<1>6. ASSUME NEW c \in Conns, Handler(c) PROVE Done
  <2>1. UNCHANGED <<toWrapper, hand, proc, create>>
    BY <1>6 DEF Handler, HandlerStep, Register, ReceiveHello, ReconcileClaim, ReconcileList,
       ReconcileExpire, ReceiveStarted, ReceiveExited, Unregister, MarkOffline, Receives,
       linkVars, supVars, clientVars, apiVars
  <2> QED BY <2>1, EndingKeeps
<1>7. ASSUME NEW s \in Sessions, Api(s) PROVE Done
  BY <1>7, ApiKeeps
<1>8. ASSUME NEW c \in Conns, NetworkDrop(c) PROVE Done
  <2>1. UNCHANGED <<toWrapper, hand, proc, create>>
    BY <1>8 DEF NetworkDrop, supVars, clientVars, apiVars
  <2> QED BY <2>1, EndingKeeps
<1>9. ASSUME NEW w \in Wrappers, WrapperRestart(w) PROVE Done
  <2>1. create' = create /\ \A c \in Conns : hand'[c] \in {hand[c], Idle}
    BY <1>9 DEF WrapperRestart, WrapperCrash, apiVars
  <2>2. \A s \in Sessions :
          proc'[s] = proc[s] \/ (proc[s] = "alive" /\ proc'[s] = "dead")
    BY <1>9 DEF WrapperRestart, WrapperCrash, SupervisorDies
  <2>3. \A c \in Conns : toWrapper'[c] = toWrapper[c] \/ toWrapper'[c] = <<>>
    BY <1>9, LeaveEmpties DEF WrapperRestart, WrapperCrash
  <2> QED BY <2>1, <2>2, <2>3, EndingKeeps
<1>10. CASE ServerRestart
  <2>1. UNCHANGED <<toWrapper, hand, proc>>
    BY <1>10 DEF ServerRestart, HandlersDie, supVars, clientVars
  <2>2. \A s \in Sessions : create'[s] \in {create[s], "answered"}
    BY <1>10 DEF ServerRestart, RequestsDie
  <2> QED BY <2>1, <2>2, EndingKeeps
<1>11. CASE UNCHANGED vars
  <2>1. UNCHANGED <<toWrapper, hand, proc, create>>
    BY <1>11 DEF vars, linkVars, supVars, clientVars, apiVars
  <2> QED BY <2>1, EndingKeeps
<1> QED
  BY <1>2, <1>3, <1>4, <1>5, <1>6, <1>7, <1>8, <1>9, <1>10, <1>11 DEF Next

-----------------------------------------------------------------------------
(***************************************************************************)
(* What is said of processes.                                              *)
(***************************************************************************)

\* How the queue q of elements of S becomes q2 in a step: nothing is added to
\* it that is not true after the step.
Follows(S, q, q2, begun, dead, unopened) ==
  \/ q2 = q
  \/ q2 = <<>>
  \/ q # <<>> /\ (q2 = Tail(q) \/ q2 = <<Head(q)>>)
  \/ \E m \in S :
       /\ Truthful(m, begun, dead, unopened)
       /\ q2 = Append(q, m) \/ q2 = <<m>>

\* A queue of truthful messages stays one, for what is true of processes lasts.
LEMMA QueueStaysTruthful ==
  ASSUME NEW S, NEW q \in Seq(S), NEW q2,
         NEW b, NEW d, NEW u, NEW b2, NEW d2, NEW u2,
         b \subseteq b2, d \subseteq d2, u \subseteq u2, AllTruthful(q, b, d, u),
         Follows(S, q, q2, b2, d2, u2)
  PROVE  AllTruthful(q2, b2, d2, u2)
<1>1. ASSUME NEW m, Truthful(m, b, d, u)
      PROVE  Truthful(m, b2, d2, u2)
  BY <1>1 DEF Truthful
<1>2. \A i \in 1..Len(q) : Truthful(q[i], b2, d2, u2)
  BY <1>1 DEF AllTruthful
<1>3. CASE q2 = q \/ q2 = <<>>
  BY <1>2, <1>3 DEF AllTruthful
<1>4. CASE q # <<>> /\ (q2 = Tail(q) \/ q2 = <<Head(q)>>)
  <2> SUFFICES ASSUME NEW i \in 1..Len(q2) PROVE Truthful(q2[i], b2, d2, u2)
    BY DEF AllTruthful
  <2>1. \E j \in 1..Len(q) : q2[i] = q[j]
    <3>1. CASE q2 = Tail(q)
      <4>1. i + 1 \in 1..Len(q) /\ q2[i] = q[i + 1]
        BY <1>4, <3>1
      <4> QED BY <4>1
    <3>2. CASE q2 = <<Head(q)>>
      <4>1. 1 \in 1..Len(q) /\ q2[i] = q[1]
        BY <1>4, <3>2
      <4> QED BY <4>1
    <3> QED BY <1>4, <3>1, <3>2
  <2> QED BY <1>2, <2>1
<1>5. ASSUME NEW m \in S, Truthful(m, b2, d2, u2), q2 = Append(q, m) \/ q2 = <<m>>
      PROVE  AllTruthful(q2, b2, d2, u2)
  <2> SUFFICES ASSUME NEW i \in 1..Len(q2) PROVE Truthful(q2[i], b2, d2, u2)
    BY DEF AllTruthful
  <2>1. q2[i] = m \/ (i \in 1..Len(q) /\ q2[i] = q[i])
    <3>1. CASE q2 = Append(q, m)
      BY <3>1
    <3>2. CASE q2 = <<m>>
      BY <3>2
    <3> QED BY <1>5, <3>1, <3>2
  <2> QED BY <1>2, <1>5, <2>1
<1>6. CASE \E m \in S : Truthful(m, b2, d2, u2) /\ (q2 = Append(q, m) \/ q2 = <<m>>)
  BY <1>5, <1>6
<1> QED BY <1>3, <1>4, <1>6 DEF Follows

\* The events of every wrapper, and the frames of every connection.
LEMMA EventsStayTrue ==
  ASSUME SupTypeOK, EventsTrue, Lasts,
         \A w \in Wrappers : Follows(Event, events[w], events'[w], Begun', Dead', Unopened')
  PROVE  EventsTrue'
<1> SUFFICES ASSUME NEW w \in Wrappers
             PROVE  AllTruthful(events'[w], Begun', Dead', Unopened')
  BY DEF EventsTrue
<1>1. events[w] \in Seq(Event) /\ AllTruthful(events[w], Begun, Dead, Unopened)
  BY DEF SupTypeOK, EventsTrue
<1>2. Begun \subseteq Begun' /\ Dead \subseteq Dead' /\ Unopened \subseteq Unopened'
  BY DEF Lasts
<1> QED BY <1>1, <1>2, QueueStaysTruthful

LEMMA FramesStayTrue ==
  ASSUME LinkTypeOK, FramesTrue, Lasts,
         \A c \in Conns :
           Follows(WrapperFrame, toServer[c], toServer'[c], Begun', Dead', Unopened')
  PROVE  FramesTrue'
<1> SUFFICES ASSUME NEW c \in Conns
             PROVE  AllTruthful(toServer'[c], Begun', Dead', Unopened')
  BY DEF FramesTrue
<1>1. toServer[c] \in Seq(WrapperFrame) /\ AllTruthful(toServer[c], Begun, Dead, Unopened)
  BY DEF LinkTypeOK, FramesTrue
<1>2. Begun \subseteq Begun' /\ Dead \subseteq Dead' /\ Unopened \subseteq Unopened'
  BY DEF Lasts
<1> QED BY <1>1, <1>2, QueueStaysTruthful

LEMMA EmitStaysTrue ==
  ASSUME SupTypeOK, EventsTrue, Lasts, NEW w \in Wrappers, NEW e \in Event, Emit(w, e),
         Truthful(e, Begun', Dead', Unopened')
  PROVE  EventsTrue'
<1>1. \A v \in Wrappers : events'[v] = events[v] \/ events'[v] = Append(events[v], e)
  BY DEF Emit, SupTypeOK
<1>2. \A v \in Wrappers : Follows(Event, events[v], events'[v], Begun', Dead', Unopened')
  BY <1>1 DEF Follows
<1> QED BY <1>2, EventsStayTrue

\* What the first message of a queue says.
LEMMA HeadTruthful ==
  ASSUME NEW S, NEW q \in Seq(S), q # <<>>, NEW b, NEW d, NEW u, AllTruthful(q, b, d, u)
  PROVE  Head(q) \in S /\ Truthful(Head(q), b, d, u)
<1>1. 1 \in 1..Len(q) /\ Head(q) = q[1] /\ Head(q) \in S
  OBVIOUS
<1> QED BY <1>1 DEF AllTruthful

\* The supervisor closes a session: it has ended when its event says so.
LEMMA CloseWithTrue ==
  ASSUME SupTypeOK, EventsTrue, Lasts, NEW s \in Sessions,
         NEW why \in {"normal", "wrapper_close"}, CloseWith(s, why)
  PROVE  EventsTrue'
<1>1. CASE proc[s] = "alive"
  <2>1. s \in Dead'
    BY <1>1 DEF CloseWith, SupTypeOK, Dead
  <2>2. Truthful(Exited(s, why), Begun', Dead', Unopened')
    BY <2>1 DEF Truthful, Exited
  <2> QED BY <1>1, <2>2, EmitStaysTrue, EventsAreEvents DEF CloseWith
<1>2. CASE proc[s] # "alive"
  BY <1>2, EventsStayTrue DEF CloseWith, Follows
<1> QED BY <1>1, <1>2

\* Messages that say nothing, and those of what has begun.
LEMMA StartedTrue ==
  ASSUME NEW b, NEW d, NEW u
  PROVE  /\ Truthful(Data, b, d, u)
         /\ \A s \in b : Truthful(Started(s), b, d, u)
         /\ \A live \in SUBSET b : Truthful(Hello(live), b, d, u)
BY DEF Truthful, Data, Started, Hello

\* Steps that leave the supervisor, and what readLoop holds, alone.
LEMMA WrapperUnchangedTrue ==
  ASSUME TypeOK, EventsTrue, WrapperKnows, Lasts, UNCHANGED supVars,
         \A c \in Conns : hand'[c] = hand[c] \/ hand'[c].type # "opened"
  PROVE  EventsTrue' /\ WrapperKnows'
<1>1. events' = events /\ table' = table /\ discover' = discover /\ proc' = proc
  BY DEF supVars
<1>2. EventsTrue'
  BY <1>1, EventsStayTrue DEF Follows, TypeOK
<1>3. WrapperKnows'
  BY <1>1 DEF WrapperKnows, Lasts
<1> QED BY <1>2, <1>3

LEMMA ClientTrue ==
  ASSUME TypeOK, EventsTrue, FramesTrue, WrapperKnows, Lasts, NEW w \in Wrappers, Client(w)
  PROVE  EventsTrue' /\ FramesTrue' /\ WrapperKnows'
<1>1. SupTypeOK /\ LinkTypeOK /\ ClientTypeOK
  BY DEF TypeOK
<1>2. CASE RunOnceReturns(w)
  <2>1. \A c \in Conns : hand'[c] = hand[c] \/ hand'[c].type # "opened"
    BY <1>1, <1>2 DEF RunOnceReturns, ClientTypeOK, Idle
  <2>2. UNCHANGED supVars /\ toServer' = toServer
    BY <1>2 DEF RunOnceReturns
  <2> QED BY <1>1, <2>1, <2>2, WrapperUnchangedTrue, FramesStayTrue DEF Follows
<1>3. CASE SendEvent(w)
  <2> DEFINE c == client[w]
             e == Head(events[w])
  <2>1. /\ c \in Conns /\ events[w] # <<>> /\ events[w] \in Seq(Event)
        /\ events' = [events EXCEPT ![w] = Tail(events[w])]
        /\ UNCHANGED <<table, discover, hand>>
        /\ IF e.type = "data" THEN UNCHANGED toServer ELSE WriteToServer(c, e)
    BY <1>1, <1>3 DEF SendEvent, SupTypeOK, ClientTypeOK
  <2>2. e \in Event /\ Truthful(e, Begun, Dead, Unopened)
    BY <2>1, HeadTruthful DEF EventsTrue
  <2>3. Truthful(e, Begun', Dead', Unopened')
    BY <2>2 DEF Truthful, Lasts
  <2>4. EventsTrue'
    <3>1. \A v \in Wrappers : Follows(Event, events[v], events'[v], Begun', Dead', Unopened')
      BY <1>1, <2>1 DEF Follows, SupTypeOK
    <3> QED BY <1>1, <3>1, EventsStayTrue
  <2>5. WrapperKnows'
    BY <2>1 DEF WrapperKnows, Lasts
  <2>6. FramesTrue'
    <3>1. CASE e.type = "data"
      BY <1>1, <2>1, <3>1, FramesStayTrue DEF Follows
    <3>2. CASE e.type # "data"
      <4>1. e \in WrapperFrame
        BY <2>2, <3>2, EventIsFrame
      <4>2. \A d \in Conns :
              toServer'[d] = toServer[d] \/ toServer'[d] = Append(toServer[d], e)
        BY <1>1, <2>1, <3>2 DEF WriteToServer, LinkTypeOK
      <4>3. \A d \in Conns :
              Follows(WrapperFrame, toServer[d], toServer'[d], Begun', Dead', Unopened')
        BY <2>3, <4>1, <4>2 DEF Follows
      <4> QED BY <1>1, <4>3, FramesStayTrue
    <3> QED BY <3>1, <3>2
  <2> QED BY <2>4, <2>5, <2>6
<1> QED BY <1>2, <1>3 DEF Client

\* readLoop: what becomes of an open_session is what the events then say.
LEMMA ReadLoopTrue ==
  ASSUME TypeOK, OpensInv, OpensInv', EventsTrue, WrapperKnows, Lasts,
         NEW c \in Conns, ReadLoop(c)
  PROVE  EventsTrue' /\ WrapperKnows'
<1>1. hand \in [Conns -> Hand] /\ SupTypeOK
  BY DEF TypeOK, ClientTypeOK
<1>2. hand[c].type \in {"open", "opened", "close"} => hand[c].session \in Sessions
  BY <1>1 DEF Hand
<1>3. Handled(c) \/ HandledWithError(c) =>
        \A d \in Conns : hand'[d] = hand[d] \/ hand'[d].type # "opened"
  BY <1>1 DEF Handled, HandledWithError, Idle, Failed
<1>4. CASE TakeFrame(c)
  <2>1. toWrapper[c] \in Seq(ServerFrame) /\ toWrapper[c] # <<>>
    BY <1>4 DEF TakeFrame, TypeOK, LinkTypeOK
  <2>2. Head(toWrapper[c]).type # "opened"
    <3>1. Head(toWrapper[c]) \in ServerFrame
      BY <2>1
    <3> QED BY <3>1 DEF ServerFrame
  <2>3. \A d \in Conns : hand'[d] = hand[d] \/ hand'[d].type # "opened"
    BY <1>1, <1>4, <2>2 DEF TakeFrame
  <2> QED BY <1>4, <2>3, WrapperUnchangedTrue DEF TakeFrame
<1>5. CASE HandleOpen(c)
  <2>1. PICK s \in Sessions : hand[c] = OpenFrame(s)
    BY <1>1, <1>5 DEF HandleOpen, Hand, OpenFrame
  <2>2. /\ table' = table \cup {s} /\ proc' = [proc EXCEPT ![s] = "alive"]
        /\ UNCHANGED <<discover, events>> /\ hand' = [hand EXCEPT ![c] = Opened(s)]
    BY <1>5, <2>1 DEF HandleOpen, OpenInsert, OpenFrame
  <2>3. s \in Begun'
    BY <1>1, <2>2 DEF SupTypeOK, Begun
  <2>4. EventsTrue'
    BY <1>1, <2>2, EventsStayTrue DEF Follows
  <2>5. WrapperKnows'
    BY <1>1, <2>2, <2>3 DEF WrapperKnows, Lasts, Opened
  <2> QED BY <2>4, <2>5
<1>6. CASE HandleOpenFails(c)
  <2>1. PICK s \in Sessions : hand[c] = OpenFrame(s)
    BY <1>1, <1>6 DEF HandleOpenFails, Hand, OpenFrame
  <2>2. /\ UNCHANGED <<table, proc, discover, create, toWrapper>>
        /\ Emit(Owner[s], Exited(s, "spawn_failed")) /\ HandledWithError(c)
    BY <1>6, <2>1 DEF HandleOpenFails, OpenSpawnFailed, OpenFrame, linkVars, ReadLoop,
       ServerUnchanged, apiVars
  <2> DEFINE h == IF client[peer[c]] = c THEN Failed ELSE Idle
  <2>3. hand' = [hand EXCEPT ![c] = h] /\ h.type # "open"
    BY <2>2 DEF HandledWithError, Idle, Failed
  <2>4. s \in Outstanding \ Outstanding'
    BY <2>1, <2>2, <2>3, OpenUsedUp
  <2>5. s \in Unopened'
    BY <2>2, <2>4 DEF OpensInv, Unopened, Begun
  <2>6. Truthful(Exited(s, "spawn_failed"), Begun', Dead', Unopened')
    BY <2>5 DEF Truthful, Exited
  <2>7. EventsTrue'
    BY <1>1, <2>2, <2>6, EmitStaysTrue, EventsAreEvents
  <2>8. WrapperKnows'
    BY <1>3, <2>2 DEF WrapperKnows, Lasts
  <2> QED BY <2>7, <2>8
<1>7. CASE FinishOpen(c)
  <2> DEFINE s == hand[c].session
  <2>1. s \in Sessions /\ s \in Begun
    BY <1>2, <1>7 DEF FinishOpen, WrapperKnows
  <2>2. /\ Emit(Owner[s], Started(s)) /\ discover' = [discover EXCEPT ![s] = "watching"]
        /\ UNCHANGED <<table, proc>> /\ Handled(c)
    BY <1>7 DEF FinishOpen, OpenAnnounce
  <2>3. Truthful(Started(s), Begun', Dead', Unopened')
    BY <2>1, StartedTrue DEF Lasts
  <2>4. EventsTrue'
    BY <1>1, <2>1, <2>2, <2>3, EmitStaysTrue, EventsAreEvents
  <2>5. WrapperKnows'
    BY <1>1, <1>3, <2>1, <2>2 DEF WrapperKnows, Lasts, SupTypeOK
  <2> QED BY <2>4, <2>5
<1>8. CASE HandleClose(c)
  <2> DEFINE s == hand[c].session
  <2>1. s \in Sessions /\ CloseWith(s, "wrapper_close") /\ Handled(c)
        /\ table' = table \ {s} /\ discover' = discover
    BY <1>2, <1>8 DEF HandleClose, CloseKnown
  <2>2. EventsTrue'
    BY <1>1, <2>1, CloseWithTrue
  <2>3. WrapperKnows'
    BY <1>3, <2>1 DEF WrapperKnows, Lasts
  <2> QED BY <2>2, <2>3
<1>9. CASE HandleCloseUnknown(c)
  BY <1>3, <1>9, WrapperUnchangedTrue DEF HandleCloseUnknown
<1> QED BY <1>4, <1>5, <1>6, <1>7, <1>8, <1>9 DEF ReadLoop, ReadLoopStep

\* The goroutines of a session.
LEMMA SessionTrue ==
  ASSUME TypeOK, EventsTrue, WrapperKnows, Lasts, NEW s \in Sessions, Session(s)
  PROVE  EventsTrue' /\ WrapperKnows'
<1>1. SupTypeOK /\ hand' = hand /\ Owner[s] \in Wrappers
  BY DeploymentAssumption DEF TypeOK, Session, SessionStep, clientVars
<1>2. CASE ProcessExits(s)
  <2>1. CloseWith(s, "normal") /\ UNCHANGED <<table, discover>>
    BY <1>2 DEF ProcessExits
  <2> QED BY <1>1, <2>1, CloseWithTrue DEF WrapperKnows, Lasts
<1>3. CASE JSONLFound(s)
  <2>1. /\ s \in Begun /\ discover' = [discover EXCEPT ![s] = "done"]
        /\ table' = table /\ Emit(Owner[s], Started(s))
    BY <1>3 DEF JSONLFound, WrapperKnows
  <2>2. Truthful(Started(s), Begun', Dead', Unopened')
    BY <2>1, StartedTrue DEF Lasts
  <2>3. EventsTrue'
    BY <1>1, <2>1, <2>2, EmitStaysTrue, EventsAreEvents
  <2>4. WrapperKnows'
    BY <1>1, <2>1 DEF WrapperKnows, Lasts, SupTypeOK
  <2> QED BY <2>3, <2>4
<1>4. CASE Output(s)
  <2>1. Emit(Owner[s], Data) /\ UNCHANGED <<table, discover>>
    BY <1>4 DEF Output
  <2>2. Truthful(Data, Begun', Dead', Unopened')
    BY StartedTrue
  <2> QED BY <1>1, <2>1, <2>2, EmitStaysTrue, EventsAreEvents DEF WrapperKnows, Lasts
<1> QED BY <1>2, <1>3, <1>4 DEF Session, SessionStep

\* The rows: what an update writes is true of the session it writes it to.
LEMMA StoreTrue ==
  ASSUME StoreTypeOK, RowsTrue, Lasts, NEW s \in Sessions, NEW w \in Wrappers
  PROVE  /\ UNCHANGED storeVars => RowsTrue'
         /\ CreateRow(s) => RowsTrue'
         /\ MarkRunning(s) /\ s \in Begun => RowsTrue'
         /\ MarkWrapperOffline(w) => RowsTrue'
         /\ MarkRunningFromOffline(s) /\ s \in Begun => RowsTrue'
         /\ MarkExited(s, "wrapper_restart") => RowsTrue'
         /\ MarkExited(s, "spawn_failed") /\ s \in Unopened => RowsTrue'
         /\ \A why \in {"normal", "wrapper_close"} :
              MarkExited(s, why) /\ s \in Dead => RowsTrue'
<1>1. UNCHANGED storeVars => RowsTrue'
  BY DEF storeVars, RowsTrue, Lasts
<1>2. CreateRow(s) => RowsTrue'
  BY DEF CreateRow, RowsTrue, Lasts, StoreTypeOK
<1>3. MarkRunning(s) /\ s \in Begun => RowsTrue'
  BY DEF MarkRunning, RowsTrue, Lasts, StoreTypeOK
<1>4. MarkWrapperOffline(w) => RowsTrue'
  BY DEF MarkWrapperOffline, RowsTrue, Lasts, StoreTypeOK
<1>5. MarkRunningFromOffline(s) /\ s \in Begun => RowsTrue'
  BY DEF MarkRunningFromOffline, RowsTrue, Lasts, StoreTypeOK
<1>6. MarkExited(s, "wrapper_restart") => RowsTrue'
  BY DEF MarkExited, RowsTrue, Lasts, StoreTypeOK
<1>7. MarkExited(s, "spawn_failed") /\ s \in Unopened => RowsTrue'
  BY DEF MarkExited, RowsTrue, Lasts, StoreTypeOK
<1>8. \A why \in {"normal", "wrapper_close"} :
        MarkExited(s, why) /\ s \in Dead => RowsTrue'
  BY DEF MarkExited, RowsTrue, Lasts, StoreTypeOK
<1> QED BY <1>1, <1>2, <1>3, <1>4, <1>5, <1>6, <1>7, <1>8

\* A handler takes a truthful frame off its queue.
LEMMA ReceivedTrue ==
  ASSUME LinkTypeOK, FramesTrue, Lasts, NEW c \in Conns, NEW type, Receives(c, type)
  PROVE  /\ FramesTrue'
         /\ Head(toServer[c]) \in WrapperFrame /\ Head(toServer[c]).type = type
         /\ Truthful(Head(toServer[c]), Begun, Dead, Unopened)
<1>1. /\ toServer[c] \in Seq(WrapperFrame) /\ toServer[c] # <<>>
      /\ AllTruthful(toServer[c], Begun, Dead, Unopened)
  BY DEF LinkTypeOK, FramesTrue, Receives
<1>2. Head(toServer[c]) \in WrapperFrame /\ Truthful(Head(toServer[c]), Begun, Dead, Unopened)
  BY <1>1, HeadTruthful
<1>3. \A d \in Conns :
        Follows(WrapperFrame, toServer[d], toServer'[d], Begun', Dead', Unopened')
  BY <1>1 DEF Receives, Follows, LinkTypeOK
<1> QED BY <1>2, <1>3, FramesStayTrue DEF Receives

LEMMA ServerClosesTrue ==
  ASSUME LinkTypeOK, FramesTrue, Lasts, NEW cs, ServerCloses(cs)
  PROVE  FramesTrue'
<1>1. \A c \in Conns :
        Follows(WrapperFrame, toServer[c], toServer'[c], Begun', Dead', Unopened')
  BY DEF ServerCloses, Follows
<1> QED BY <1>1, FramesStayTrue

LEMMA HandlerTrue ==
  ASSUME TypeOK, TruthInv, Lasts, NEW c \in Conns, Handler(c), peer[c] \in Wrappers
  PROVE  FramesTrue' /\ ServerKnows' /\ RowsTrue'
<1>1. /\ LinkTypeOK /\ StoreTypeOK /\ FramesTrue /\ RowsTrue
      /\ handler \in [Conns -> HandlerStates] /\ pending \in [Conns -> SUBSET Sessions]
  BY DEF TypeOK, HandlerTypeOK, TruthInv
<1>2. UNCHANGED storeVars => RowsTrue'
  BY <1>1 DEF storeVars, RowsTrue, Lasts
<1>3. UNCHANGED toServer => FramesTrue'
  BY <1>1, FramesStayTrue DEF Follows
<1>4. UNCHANGED <<handler, pending>> => ServerKnows'
  BY DEF TruthInv, ServerKnows, Lasts
<1>5. CASE Register(c)
  BY <1>1, <1>2, <1>5, ServerClosesTrue DEF Register, TruthInv, ServerKnows, Lasts
<1>6. CASE ReceiveHello(c)
  <2>1. FramesTrue' /\ Head(toServer[c]).live \subseteq Begun
    BY <1>1, <1>6, ReceivedTrue DEF ReceiveHello, Truthful
  <2>2. ServerKnows'
    BY <1>1, <1>6, <2>1 DEF ReceiveHello, TruthInv, ServerKnows, Lasts
  <2> QED BY <1>2, <1>6, <2>1, <2>2 DEF ReceiveHello
<1>7. ASSUME NEW s \in Sessions, ReconcileClaim(c, s)
      PROVE  FramesTrue' /\ ServerKnows' /\ RowsTrue'
  <2>1. s \in Begun /\ MarkRunningFromOffline(s) /\ toServer' = toServer
    BY <1>7 DEF ReconcileClaim, TruthInv, ServerKnows, linkVars
  <2>2. ServerKnows'
    BY <1>1, <1>7 DEF ReconcileClaim, TruthInv, ServerKnows, Lasts
  <2> QED BY <1>1, <1>3, <2>1, <2>2, StoreTrue
<1>8. CASE ReconcileList(c)
  <2>1. ServerKnows'
    BY <1>1, <1>8 DEF ReconcileList, TruthInv, ServerKnows, Lasts
  <2> QED BY <1>2, <1>3, <1>8, <2>1 DEF ReconcileList, linkVars
<1>9. ASSUME NEW s \in Sessions, ReconcileExpire(c, s)
      PROVE  FramesTrue' /\ ServerKnows' /\ RowsTrue'
  <2>1. MarkExited(s, "wrapper_restart") /\ toServer' = toServer
    BY <1>9 DEF ReconcileExpire, linkVars
  <2>2. ServerKnows'
    BY <1>1, <1>9 DEF ReconcileExpire, TruthInv, ServerKnows, Lasts
  <2> QED BY <1>1, <1>3, <2>1, <2>2, StoreTrue
<1>10. CASE ReceiveStarted(c)
  <2> DEFINE s == Head(toServer[c]).session
  <2>1. FramesTrue' /\ s \in Begun /\ s \in Sessions /\ MarkRunning(s)
    BY <1>1, <1>10, ReceivedTrue, FrameFields DEF ReceiveStarted, Truthful
  <2>2. RowsTrue'
    BY <1>1, <2>1, StoreTrue
  <2> QED BY <1>4, <1>10, <2>1, <2>2 DEF ReceiveStarted, handlerVars
<1>11. CASE ReceiveExited(c)
  <2> DEFINE f == Head(toServer[c])
  <2>1. /\ FramesTrue' /\ f \in WrapperFrame /\ f.type = "exited"
        /\ Truthful(f, Begun, Dead, Unopened) /\ MarkExited(f.session, f.reason)
    BY <1>1, <1>11, ReceivedTrue DEF ReceiveExited
  <2>2. f.session \in Sessions /\ f.reason \in {"normal", "wrapper_close", "spawn_failed"}
    BY <2>1 DEF WrapperFrame, Hello
  <2>3. /\ f.reason \in {"normal", "wrapper_close"} => f.session \in Dead
        /\ f.reason = "spawn_failed" => f.session \in Unopened
    BY <2>1 DEF Truthful
  <2>4. RowsTrue'
    BY <1>1, <2>1, <2>2, <2>3, StoreTrue
  <2> QED BY <1>4, <1>11, <2>1, <2>4 DEF ReceiveExited, handlerVars
<1>12. CASE Unregister(c)
  BY <1>1, <1>2, <1>12, ServerClosesTrue DEF Unregister, TruthInv, ServerKnows, Lasts
<1>13. CASE MarkOffline(c)
  <2>1. FramesTrue'
    <3>1. \A d \in Conns :
            Follows(WrapperFrame, toServer[d], toServer'[d], Begun', Dead', Unopened')
      BY <1>1, <1>13 DEF MarkOffline, Follows, LinkTypeOK
    <3> QED BY <1>1, <3>1, FramesStayTrue
  <2>2. RowsTrue'
    BY <1>1, <1>13 DEF MarkOffline, MarkWrapperOffline, RowsTrue, Lasts, StoreTypeOK
  <2>3. ServerKnows'
    BY <1>1, <1>13 DEF MarkOffline, TruthInv, ServerKnows, Lasts
  <2> QED BY <2>1, <2>2, <2>3
<1> QED
  BY <1>5, <1>6, <1>7, <1>8, <1>9, <1>10, <1>11, <1>12, <1>13 DEF Handler, HandlerStep

\* The requests: one is given up for failed only when nothing can come of it.
LEMMA ApiTrue ==
  ASSUME TypeOK, OpensInv, RowsTrue, Lasts, NEW s \in Sessions, Api(s)
  PROVE  RowsTrue'
<1>1. StoreTypeOK
  BY DEF TypeOK
<1>2. UNCHANGED storeVars => RowsTrue'
  BY DEF storeVars, RowsTrue, Lasts
<1>3. CASE CreateInsert(s)
  BY <1>1, <1>3 DEF CreateInsert, CreateRow, RowsTrue, Lasts, StoreTypeOK
<1>4. CASE FailCreate(s)
  <2>1. s \in Unopened
    BY <1>4 DEF FailCreate, OpensInv, Unopened
  <2>2. MarkExited(s, "spawn_failed") => RowsTrue'
    BY <1>1, <2>1 DEF MarkExited, RowsTrue, Lasts, StoreTypeOK
  <2> QED BY <1>2, <1>4, <2>2 DEF FailCreate
<1>5. CASE OpenSession(s) \/ SendOpen(s) \/ Delete(s)
  BY <1>2, <1>5 DEF OpenSession, SendOpen, Delete
<1> QED BY <1>3, <1>4, <1>5 DEF Api, ApiStep

\* Dialling: hello names the sessions in the table, which have begun.
LEMMA ConnectTrue ==
  ASSUME TypeOK, FramesTrue, WrapperKnows, Lasts, NEW w \in Wrappers, Connect(w)
  PROVE  FramesTrue'
<1>1. PICK c \in Conns : toServer' = [toServer EXCEPT ![c] = <<Hello(Snapshot(w))>>]
  BY DEF Connect, Dial
<1>2. Hello(Snapshot(w)) \in WrapperFrame
  BY DEF Hello, Snapshot, WrapperFrame, TypeOK, SupTypeOK
<1>3. Truthful(Hello(Snapshot(w)), Begun', Dead', Unopened')
  <2>1. Snapshot(w) \in SUBSET Begun'
    BY DEF Snapshot, WrapperKnows, Lasts
  <2> QED BY <2>1, StartedTrue
<1>4. \A d \in Conns :
        toServer'[d] = toServer[d] \/ toServer'[d] = <<Hello(Snapshot(w))>>
  BY <1>1 DEF TypeOK, LinkTypeOK
<1>5. \A d \in Conns :
        Follows(WrapperFrame, toServer[d], toServer'[d], Begun', Dead', Unopened')
  BY <1>2, <1>3, <1>4 DEF Follows
<1> QED BY <1>5, FramesStayTrue DEF TypeOK

\* The wrapper's daemon crashes: what it knew is gone, what it said is not.
LEMMA WrapperRestartTrue ==
  ASSUME TypeOK, EventsTrue, WrapperKnows, Lasts, NEW w \in Wrappers, WrapperRestart(w)
  PROVE  EventsTrue' /\ WrapperKnows'
<1>1. SupTypeOK /\ SupervisorDies(w)
  BY DEF TypeOK, WrapperRestart, WrapperCrash
<1>2. EventsTrue'
  <2>1. \A v \in Wrappers : events'[v] = events[v] \/ events'[v] = <<>>
    BY <1>1 DEF SupervisorDies, SupTypeOK
  <2>2. \A v \in Wrappers : Follows(Event, events[v], events'[v], Begun', Dead', Unopened')
    BY <2>1 DEF Follows
  <2> QED BY <1>1, <2>2, EventsStayTrue
<1>3. \A c \in Conns : hand'[c] = hand[c] \/ hand'[c].type # "opened"
  BY DEF WrapperRestart, WrapperCrash, Idle
<1>4. WrapperKnows'
  BY <1>1, <1>3 DEF SupervisorDies, WrapperKnows, Lasts
<1> QED BY <1>2, <1>4

LEMMA NextTruth ==
  ASSUME LifeInv, [Next]_vars
  PROVE  TruthInv'
<1>1. /\ TypeOK /\ OpensInv /\ OpensInv' /\ Lasts /\ LinkTypeOK
      /\ EventsTrue /\ FramesTrue /\ WrapperKnows /\ ServerKnows /\ RowsTrue
  BY NextOpens DEF LifeInv, Inv, TypeOK, TruthInv
<1>2. UNCHANGED storeVars => RowsTrue'
  BY <1>1 DEF storeVars, RowsTrue, Lasts
<1>3. UNCHANGED toServer => FramesTrue'
  BY <1>1, FramesStayTrue DEF Follows
<1>4. UNCHANGED <<handler, pending>> => ServerKnows'
  BY <1>1 DEF ServerKnows, Lasts
<1>5. UNCHANGED <<supVars, hand>> => EventsTrue' /\ WrapperKnows'
  BY <1>1, WrapperUnchangedTrue
<1>6. ServerUnchanged => RowsTrue' /\ ServerKnows'
  BY <1>2, <1>4 DEF ServerUnchanged, handlerVars
<1>7. ASSUME NEW w \in Wrappers, Connect(w) PROVE TruthInv'
  <2>1. ServerUnchanged /\ UNCHANGED <<supVars, hand>>
    BY <1>7 DEF Connect, Dial
  <2> QED BY <1>1, <1>5, <1>6, <1>7, <2>1, ConnectTrue DEF TruthInv
<1>8. ASSUME NEW w \in Wrappers, Client(w) PROVE TruthInv'
  BY <1>1, <1>6, <1>8, ClientTrue DEF TruthInv, Client
<1>9. ASSUME NEW c \in Conns, ReadLoop(c) PROVE TruthInv'
  <2>1. ServerUnchanged /\ UNCHANGED toServer
    BY <1>9 DEF ReadLoop, ReadLoopStep, TakeFrame, HandleOpen, HandleOpenFails, FinishOpen,
       HandleClose, HandleCloseUnknown, linkVars
  <2> QED BY <1>1, <1>3, <1>6, <1>9, <2>1, ReadLoopTrue DEF TruthInv
<1>10. ASSUME NEW s \in Sessions, Session(s) PROVE TruthInv'
  <2>1. ServerUnchanged /\ UNCHANGED toServer
    BY <1>10 DEF Session, SessionStep, linkVars
  <2> QED BY <1>1, <1>3, <1>6, <1>10, <2>1, SessionTrue DEF TruthInv
<1>11. ASSUME NEW c \in Conns, Handler(c) PROVE TruthInv'
  <2>1. peer[c] \in Wrappers
    BY <1>11 DEF LifeInv, Inv, PeerKnown, Handler, HandlerStep, Register, ReceiveHello,
       ReconcileClaim, ReconcileList, ReconcileExpire, ReceiveStarted, ReceiveExited,
       Unregister, MarkOffline, Receives, Reading
  <2>2. FramesTrue' /\ ServerKnows' /\ RowsTrue'
    BY <1>1, <1>11, <2>1, HandlerTrue DEF LifeInv
  <2>3. UNCHANGED <<supVars, hand>>
    BY <1>11 DEF Handler, clientVars
  <2> QED BY <1>5, <2>2, <2>3 DEF TruthInv
<1>12. ASSUME NEW s \in Sessions, Api(s) PROVE TruthInv'
  <2>1. UNCHANGED <<supVars, hand, toServer, handler, pending>>
    BY <1>12 DEF Api, clientVars, handlerVars, ApiStep, CreateInsert, OpenSession, SendOpen,
       FailCreate, Delete, linkVars
  <2>2. RowsTrue'
    BY <1>1, <1>12, ApiTrue
  <2> QED BY <1>3, <1>4, <1>5, <2>1, <2>2 DEF TruthInv
<1>13. ASSUME NEW c \in Conns, NetworkDrop(c) PROVE TruthInv'
  <2>1. UNCHANGED <<supVars, hand, toServer, storeVars, handler, pending>>
    BY <1>13 DEF NetworkDrop, clientVars, handlerVars
  <2> QED BY <1>2, <1>3, <1>4, <1>5, <2>1 DEF TruthInv
<1>14. ASSUME NEW w \in Wrappers, WrapperRestart(w) PROVE TruthInv'
  <2>1. UNCHANGED <<toServer, storeVars, handler, pending>>
    BY <1>14 DEF WrapperRestart, WrapperCrash, handlerVars
  <2> QED BY <1>1, <1>2, <1>3, <1>4, <1>14, <2>1, WrapperRestartTrue DEF TruthInv
<1>15. CASE ServerRestart
  <2>1. UNCHANGED <<supVars, hand, storeVars>>
    BY <1>15 DEF ServerRestart, HandlersDie, clientVars
  <2>2. FramesTrue'
    <3>1. \A c \in Conns :
            Follows(WrapperFrame, toServer[c], toServer'[c], Begun', Dead', Unopened')
      BY <1>15 DEF ServerRestart, HandlersDie, Follows
    <3> QED BY <1>1, <3>1, FramesStayTrue
  <2>3. ServerKnows'
    BY <1>15 DEF ServerRestart, HandlersDie, ServerKnows
  <2> QED BY <1>2, <1>5, <2>1, <2>2, <2>3 DEF TruthInv
<1>16. CASE UNCHANGED vars
  <2>1. UNCHANGED <<supVars, hand, toServer, storeVars, handler, pending>>
    BY <1>16 DEF vars, clientVars, handlerVars, linkVars
  <2> QED BY <1>2, <1>3, <1>4, <1>5, <2>1 DEF TruthInv
<1> QED
  BY <1>7, <1>8, <1>9, <1>10, <1>11, <1>12, <1>13, <1>14, <1>15, <1>16 DEF Next

LEMMA InitLife == ASSUME Init PROVE LifeInv
<1>1. Inv
  BY InitInv
<1>2. Outstanding = {} /\ Begun = {} /\ Dead = {}
  BY DEF Init, LinkInit, SupInit, ClientInit, Outstanding, Places, OpenAt, OpenFrame, Idle,
     Begun, Dead
<1>3. OpensInv
  BY <1>2 DEF OpensInv, Outstanding
<1>4. EventsTrue /\ FramesTrue
  BY DEF Init, LinkInit, SupInit, EventsTrue, FramesTrue, AllTruthful
<1>5. WrapperKnows /\ ServerKnows /\ RowsTrue
  BY DEF Init, SupInit, ClientInit, HandlerInit, StoreInit, WrapperKnows, ServerKnows, RowsTrue,
     Idle
<1> QED BY <1>1, <1>3, <1>4, <1>5 DEF LifeInv, TruthInv

LEMMA NextLife ==
  ASSUME LifeInv, [Next]_vars
  PROVE  LifeInv'
BY NextInv, NextOpens, NextTruth DEF LifeInv, Inv

\* No row says running for a session whose process was never started, however
\* failed spawns, lost frames, reconnections and restarts cross the requests.
THEOREM NoPhantoms == Spec => []NoPhantomRunning
<1>1. LifeInv => NoPhantomRunning
  BY DEF LifeInv, TruthInv, RowsTrue, NoPhantomRunning, Begun
<1> QED BY <1>1, InitLife, NextLife, PTL DEF Spec

\* The reason in an exited row is true of the process: one that normal or
\* wrapper_close says has ended has, and spawn_failed was never spawned.
THEOREM ReasonsAreTrue == Spec => []ExitReasonIsTrue
<1>1. LifeInv => ExitReasonIsTrue
  BY DEF LifeInv, TruthInv, RowsTrue, ExitReasonIsTrue, Begun, Dead, Unopened
<1> QED BY <1>1, InitLife, NextLife, PTL DEF Spec

\* No crossing of requests, reconnections and restarts starts a process again
\* for a session whose process has ended.
THEOREM SpawnedAtMostOnce == Spec => NeverRespawned
<1>1. ASSUME LifeInv, [Next]_vars
      PROVE  [\A s \in Sessions : proc[s] = "dead" => proc'[s] = "dead"]_vars
  <2>1. Dead \subseteq Dead'
    BY <1>1, NextOpens DEF LifeInv, Inv, Lasts
  <2> QED BY <2>1 DEF Dead
<1> QED BY <1>1, InitLife, NextLife, PTL DEF Spec, NeverRespawned

(***************************************************************************)
(* Routes. Every session of a wrapper's table whose started events were    *)
(* not dropped is either routed or on its way to be, while the wrapper has *)
(* a connection that works.                                                *)
(***************************************************************************)

CloseFrame(s) == [type |-> "close", session |-> s]

\* Whose sessions an event or frame speaks of.
OfWrapper(m, w) ==
  /\ m.type = "hello" => \A s \in m.live : Owner[s] = w
  /\ m.type \in {"started", "open", "opened", "close"} => Owner[m.session] = w

OwnedBy(q, w) == \A i \in 1..Len(q) : OfWrapper(q[i], w)

\* A wrapper and its connections only ever concern the wrapper's own sessions:
\* in the client and the supervisor, in the server, and on the connections.
ClientOwners ==
  /\ \A w \in Wrappers : client[w] # NoConn => peer[client[w]] = w
  /\ \A w \in Wrappers : OwnedBy(events[w], w)
  /\ \A c \in Conns : OfWrapper(hand[c], peer[c])

ServerOwners ==
  /\ \A s \in Sessions : sendTo[s] # NoConn => peer[sendTo[s]] = Owner[s]
  /\ \A s \in Sessions : sessionWrap[s] \in {Owner[s], NoWrapper}
  /\ \A c \in Conns : handler[c] = "claiming" => \A s \in pending[c] : Owner[s] = peer[c]

LinkOwners ==
  /\ \A c \in Conns : OwnedBy(toWrapper[c], peer[c])
  /\ \A c \in Conns : OwnedBy(toServer[c], peer[c])

OwnersInv == ClientOwners /\ ServerOwners /\ LinkOwners

\* A connection that works is waiting for its handler, or is the registered one.
ServingInv ==
  /\ \A c \in backlog : handler[c] = "none"
  /\ \A w \in Wrappers : client[w] # NoConn /\ link[client[w]] = "up" =>
       \/ client[w] \in backlog
       \/ /\ wrappers[w] = client[w]
          /\ handler[client[w]] \in {"serving", "claiming", "reconciled"}

Mentions(q, s) ==
  \E i \in 1..Len(q) :
    \/ q[i].type = "started" /\ q[i].session = s
    \/ q[i].type = "hello" /\ s \in q[i].live

Closes(q, s) == \E i \in 1..Len(q) : q[i] = CloseFrame(s)

\* On connection c, session s is routed, about to be, or about to be closed.
Reaches(s, c) ==
  \/ \E d \in Conns : hand[d] = Opened(s)
  \/ Mentions(events[Owner[s]], s)
  \/ Mentions(toServer[c], s)
  \/ handler[c] = "claiming" /\ s \in pending[c]
  \/ hand[c] = CloseFrame(s)
  \/ Closes(toWrapper[c], s)
  \/ c \notin backlog /\ sessionWrap[s] = Owner[s]

ReachInv ==
  \A s \in table \ dropped : \A c \in Conns :
    c = client[Owner[s]] /\ link[c] = "up" /\ hand[c] # Failed => Reaches(s, c)

RouteInv == OwnersInv /\ ServingInv /\ ReachInv

-----------------------------------------------------------------------------
LEMMA OwnedQueues ==
  ASSUME NEW S, NEW q \in Seq(S), NEW w, OwnedBy(q, w)
  PROVE  /\ OwnedBy(<<>>, w)
         /\ q # <<>> => /\ OwnedBy(Tail(q), w) /\ OwnedBy(<<Head(q)>>, w)
                        /\ OfWrapper(Head(q), w) /\ Head(q) \in S
         /\ \A m \in S : OfWrapper(m, w) => OwnedBy(Append(q, m), w)
<1>1. OwnedBy(<<>>, w)
  BY DEF OwnedBy
<1>2. ASSUME q # <<>>
      PROVE  /\ OwnedBy(Tail(q), w) /\ OwnedBy(<<Head(q)>>, w)
             /\ OfWrapper(Head(q), w) /\ Head(q) \in S
  <2>1. 1 \in 1..Len(q) /\ Head(q) = q[1] /\ Head(q) \in S
    BY <1>2
  <2>2. OfWrapper(Head(q), w)
    BY <2>1 DEF OwnedBy
  <2>3. ASSUME NEW i \in 1..Len(Tail(q))
        PROVE  OfWrapper(Tail(q)[i], w)
    <3>1. i + 1 \in 1..Len(q) /\ Tail(q)[i] = q[i + 1]
      BY <1>2, <2>3
    <3> QED BY <3>1 DEF OwnedBy
  <2>4. \A i \in 1..Len(<<Head(q)>>) : <<Head(q)>>[i] = Head(q)
    OBVIOUS
  <2> QED BY <2>1, <2>2, <2>3, <2>4 DEF OwnedBy
<1>3. ASSUME NEW m \in S, OfWrapper(m, w)
      PROVE  OwnedBy(Append(q, m), w)
  <2> SUFFICES ASSUME NEW i \in 1..Len(Append(q, m)) PROVE OfWrapper(Append(q, m)[i], w)
    BY DEF OwnedBy
  <2>1. Append(q, m)[i] = m \/ (i \in 1..Len(q) /\ Append(q, m)[i] = q[i])
    OBVIOUS
  <2> QED BY <1>3, <2>1 DEF OwnedBy
<1> QED BY <1>1, <1>2, <1>3

LEMMA OwnedEvents ==
  ASSUME NEW s \in Sessions
  PROVE  /\ OfWrapper(Started(s), Owner[s]) /\ OfWrapper(Data, Owner[s])
         /\ \A why : OfWrapper(Exited(s, why), Owner[s])
         /\ OfWrapper(OpenFrame(s), Owner[s]) /\ OfWrapper(CloseFrame(s), Owner[s])
         /\ OfWrapper(Opened(s), Owner[s])
         /\ \A w : OfWrapper(Idle, w) /\ OfWrapper(Failed, w)
BY DEF OfWrapper, Started, Data, Exited, OpenFrame, CloseFrame, Opened, Idle, Failed

\* An event of a session goes to the channel of its owner.
LEMMA EmitOwned ==
  ASSUME SupTypeOK, ClientOwners, NEW s \in Sessions, NEW e \in Event,
         Emit(Owner[s], e), OfWrapper(e, Owner[s])
  PROVE  \A w \in Wrappers : OwnedBy(events'[w], w)
<1> TAKE w \in Wrappers
<1>1. events[w] \in Seq(Event) /\ OwnedBy(events[w], w) /\ Owner[s] \in Wrappers
  BY DeploymentAssumption DEF SupTypeOK, ClientOwners
<1>2. events'[w] = events[w] \/ (w = Owner[s] /\ events'[w] = Append(events[w], e))
  BY <1>1 DEF Emit, SupTypeOK
<1>3. OwnedBy(Append(events[w], e), w) \/ w # Owner[s]
  BY <1>1, OwnedQueues
<1> QED BY <1>1, <1>2, <1>3

LEMMA CloseWithOwned ==
  ASSUME SupTypeOK, ClientOwners, NEW s \in Sessions,
         NEW why \in {"normal", "wrapper_close"}, CloseWith(s, why)
  PROVE  \A w \in Wrappers : OwnedBy(events'[w], w)
<1>1. CASE proc[s] = "alive"
  BY <1>1, EmitOwned, OwnedEvents, EventsAreEvents DEF CloseWith
<1>2. CASE proc[s] # "alive"
  BY <1>2 DEF CloseWith, ClientOwners
<1> QED BY <1>1, <1>2

\* Queues of frames that lose their frames, or some of them.
LEMMA FramesOwned ==
  ASSUME LinkTypeOK, LinkOwners, NEW c \in Conns
  PROVE  /\ OwnedBy(<<>>, peer[c])
         /\ toWrapper[c] # <<>> =>
              OwnedBy(Tail(toWrapper[c]), peer[c]) /\ OfWrapper(Head(toWrapper[c]), peer[c])
         /\ toServer[c] # <<>> =>
              /\ OwnedBy(Tail(toServer[c]), peer[c]) /\ OwnedBy(<<Head(toServer[c])>>, peer[c])
              /\ OfWrapper(Head(toServer[c]), peer[c]) /\ Head(toServer[c]) \in WrapperFrame
         /\ \A f \in ServerFrame : OfWrapper(f, peer[c]) =>
              OwnedBy(Append(toWrapper[c], f), peer[c])
         /\ \A f \in WrapperFrame : OfWrapper(f, peer[c]) =>
              OwnedBy(Append(toServer[c], f), peer[c])
<1>1. /\ toWrapper[c] \in Seq(ServerFrame) /\ OwnedBy(toWrapper[c], peer[c])
      /\ toServer[c] \in Seq(WrapperFrame) /\ OwnedBy(toServer[c], peer[c])
  BY DEF LinkTypeOK, LinkOwners
<1> QED BY <1>1, OwnedQueues

\* Dialling gives an identity that nobody holds to its new wrapper.
LEMMA ConnectOwners ==
  ASSUME Inv, OwnersInv, NEW w \in Wrappers, Connect(w)
  PROVE  OwnersInv'
<1>1. PICK c \in Conns : Unused(c) /\ Dial(w, c)
  BY DEF Connect
<1>2. /\ peer' = [peer EXCEPT ![c] = w] /\ client' = [client EXCEPT ![w] = c]
      /\ toServer' = [toServer EXCEPT ![c] = <<Hello(Snapshot(w))>>]
      /\ toWrapper' = [toWrapper EXCEPT ![c] = <<>>]
      /\ UNCHANGED <<hand, events, sendTo, sessionWrap, handler, pending>>
  BY <1>1 DEF Dial, Connect, ServerUnchanged, supVars, hubVars, handlerVars, apiVars
<1>3. /\ peer \in [Conns -> Wrappers \cup {NoWrapper}] /\ client \in [Wrappers -> Conns \cup {NoConn}]
      /\ toServer \in [Conns -> Seq(WrapperFrame)] /\ toWrapper \in [Conns -> Seq(ServerFrame)]
      /\ sendTo \in [Sessions -> Conns \cup {NoConn}]
  BY DEF Inv, TypeOK, LinkTypeOK, ClientTypeOK, ApiTypeOK
<1>4. /\ handler[c] = "none" /\ hand[c] = Idle
      /\ \A v \in Wrappers : client[v] # c
      /\ \A s \in Sessions : sendTo[s] # c
  BY <1>1 DEF Unused
<1>5. /\ peer'[c] = w /\ \A d \in Conns \ {c} : peer'[d] = peer[d]
      /\ toWrapper'[c] = <<>> /\ \A d \in Conns \ {c} : toWrapper'[d] = toWrapper[d]
      /\ toServer'[c] = <<Hello(Snapshot(w))>>
      /\ \A d \in Conns \ {c} : toServer'[d] = toServer[d]
      /\ client'[w] = c /\ \A v \in Wrappers \ {w} : client'[v] = client[v]
  BY <1>2, <1>3
<1>6. ClientOwners'
  <2>1. ASSUME NEW v \in Wrappers, client'[v] # NoConn
        PROVE  peer'[client'[v]] = v
    <3>1. CASE v = w
      BY <1>5, <3>1
    <3>2. CASE v # w
      <4>1. client'[v] = client[v] /\ client[v] \in Conns \ {c} /\ peer[client[v]] = v
        BY <1>3, <1>4, <1>5, <2>1, <3>2 DEF OwnersInv, ClientOwners
      <4> QED BY <1>5, <4>1
    <3> QED BY <3>1, <3>2
  <2>2. ASSUME NEW d \in Conns
        PROVE  OfWrapper(hand'[d], peer'[d])
    <3>1. CASE d = c
      BY <1>2, <1>4, <3>1 DEF OfWrapper, Idle
    <3>2. CASE d # c
      BY <1>2, <1>5, <3>2 DEF OwnersInv, ClientOwners
    <3> QED BY <3>1, <3>2
  <2> QED BY <1>2, <2>1, <2>2 DEF OwnersInv, ClientOwners
<1>7. ServerOwners'
  BY <1>2, <1>3, <1>4, <1>5 DEF OwnersInv, ServerOwners
<1>8. LinkOwners'
  <2>1. OwnedBy(<<Hello(Snapshot(w))>>, w) /\ OwnedBy(<<>>, w)
    BY DEF OwnedBy, OfWrapper, Hello, Snapshot
  <2> QED BY <1>5, <2>1 DEF OwnersInv, LinkOwners
<1> QED BY <1>6, <1>7, <1>8 DEF OwnersInv

LEMMA ClientOwnersKept ==
  ASSUME TypeOK, OwnersInv, NEW w \in Wrappers, Client(w)
  PROVE  OwnersInv'
<1>1. /\ SupTypeOK /\ LinkTypeOK /\ client \in [Wrappers -> Conns \cup {NoConn}]
      /\ hand \in [Conns -> Hand]
  BY DEF TypeOK, ClientTypeOK
<1>2. /\ UNCHANGED <<peer, sendTo, sessionWrap, handler, pending>>
      /\ \A v \in Wrappers : client'[v] \in {client[v], NoConn}
      /\ \A c \in Conns : hand'[c] \in {hand[c], Idle}
      /\ \A c \in Conns : toWrapper'[c] \in {toWrapper[c], <<>>}
  BY <1>1 DEF Client, RunOnceReturns, SendEvent, Leave, ServerUnchanged, hubVars, handlerVars,
     apiVars
<1>4. ServerOwners' /\ (\A c \in Conns : OwnedBy(toWrapper'[c], peer'[c]))
  BY <1>1, <1>2, FramesOwned DEF OwnersInv, ServerOwners, LinkOwners
<1>5. \A v \in Wrappers : client'[v] # NoConn => peer'[client'[v]] = v
  BY <1>2 DEF OwnersInv, ClientOwners
<1>6. \A c \in Conns : OfWrapper(hand'[c], peer'[c])
  BY <1>2 DEF OwnersInv, ClientOwners, OfWrapper, Idle
<1>7. (\A v \in Wrappers : OwnedBy(events'[v], v)) /\ (\A c \in Conns : OwnedBy(toServer'[c], peer[c]))
  <2>1. CASE RunOnceReturns(w)
    BY <2>1 DEF RunOnceReturns, supVars, OwnersInv, ClientOwners, LinkOwners
  <2>2. CASE SendEvent(w)
    <3> DEFINE c == client[w]
               e == Head(events[w])
    <3>1. /\ c \in Conns /\ events[w] # <<>> /\ events[w] \in Seq(Event) /\ peer[c] = w
          /\ events' = [events EXCEPT ![w] = Tail(events[w])]
          /\ IF e.type = "data" THEN UNCHANGED toServer ELSE WriteToServer(c, e)
      BY <1>1, <2>2 DEF SendEvent, SupTypeOK, OwnersInv, ClientOwners
    <3>2. OwnedBy(Tail(events[w]), w) /\ OfWrapper(e, w) /\ e \in Event
      BY <3>1, OwnedQueues DEF OwnersInv, ClientOwners
    <3>3. \A v \in Wrappers : OwnedBy(events'[v], v)
      BY <1>1, <3>1, <3>2 DEF OwnersInv, ClientOwners, SupTypeOK
    <3>4. ASSUME NEW d \in Conns
          PROVE  OwnedBy(toServer'[d], peer[d])
      <4>1. \/ toServer'[d] = toServer[d]
            \/ d = c /\ e.type # "data" /\ toServer'[d] = Append(toServer[d], e)
        BY <1>1, <3>1 DEF WriteToServer, LinkTypeOK
      <4>2. CASE toServer'[d] = toServer[d]
        BY <4>2 DEF OwnersInv, LinkOwners
      <4>3. CASE d = c /\ e.type # "data" /\ toServer'[d] = Append(toServer[d], e)
        <5>1. e \in WrapperFrame
          BY <3>2, <4>3, EventIsFrame
        <5> QED BY <1>1, <3>1, <3>2, <4>3, <5>1, FramesOwned DEF OwnersInv
      <4> QED BY <4>1, <4>2, <4>3
    <3> QED BY <3>3, <3>4
  <2> QED BY <2>1, <2>2 DEF Client
<1> QED BY <1>2, <1>4, <1>5, <1>6, <1>7 DEF OwnersInv, ClientOwners, LinkOwners

\* readLoop and the supervisor: a frame's session is its connection's, and an
\* event goes to the owner of its session.
LEMMA ReadLoopOwners ==
  ASSUME TypeOK, OwnersInv, NEW c \in Conns, ReadLoop(c)
  PROVE  OwnersInv'
<1>1. /\ SupTypeOK /\ LinkTypeOK /\ hand \in [Conns -> Hand]
      /\ OfWrapper(hand[c], peer[c]) /\ ClientOwners /\ LinkOwners
  BY DEF TypeOK, ClientTypeOK, OwnersInv, ClientOwners
<1>2. UNCHANGED <<peer, client, toServer, sendTo, sessionWrap, handler, pending>>
  BY DEF ReadLoop, ReadLoopStep, TakeFrame, HandleOpen, HandleOpenFails, FinishOpen,
     HandleClose, HandleCloseUnknown, linkVars, ServerUnchanged, hubVars, handlerVars, apiVars
<1>3. ServerOwners'
  BY <1>2 DEF OwnersInv, ServerOwners
<1>4. hand[c].type \in {"open", "opened", "close"} =>
        hand[c].session \in Sessions /\ Owner[hand[c].session] = peer[c]
  BY <1>1 DEF Hand, OfWrapper
<1>5. Handled(c) \/ HandledWithError(c) => \A d \in Conns : OfWrapper(hand'[d], peer[d])
  BY <1>1 DEF Handled, HandledWithError, OfWrapper, Idle, Failed, ClientOwners
<1> DEFINE Kept == /\ \A w \in Wrappers : OwnedBy(events'[w], w)
                   /\ \A d \in Conns : OfWrapper(hand'[d], peer[d])
                   /\ \A d \in Conns : OwnedBy(toWrapper'[d], peer[d])
<1>6. ASSUME TakeFrame(c) PROVE Kept
  <2>1. /\ toWrapper[c] # <<>> /\ UNCHANGED events
        /\ hand' = [hand EXCEPT ![c] = Head(toWrapper[c])]
        /\ toWrapper' = [toWrapper EXCEPT ![c] = Tail(toWrapper[c])]
    BY <1>6 DEF TakeFrame, supVars
  <2>2. OwnedBy(Tail(toWrapper[c]), peer[c]) /\ OfWrapper(Head(toWrapper[c]), peer[c])
    BY <1>1, <2>1, FramesOwned
  <2> QED BY <1>1, <2>1, <2>2 DEF ClientOwners, LinkOwners, LinkTypeOK
<1>7. ASSUME HandleOpen(c) PROVE Kept
  <2>1. /\ hand[c].type = "open" /\ UNCHANGED <<toWrapper, events>>
        /\ hand' = [hand EXCEPT ![c] = Opened(hand[c].session)]
    BY <1>7 DEF HandleOpen, OpenInsert, linkVars
  <2>2. OfWrapper(Opened(hand[c].session), peer[c])
    BY <1>4, <2>1 DEF OfWrapper, Opened
  <2> QED BY <1>1, <2>1, <2>2 DEF ClientOwners, LinkOwners
<1>8. ASSUME HandleOpenFails(c) PROVE Kept
  <2> DEFINE s == hand[c].session
  <2>1. /\ s \in Sessions /\ toWrapper' = toWrapper /\ HandledWithError(c)
        /\ Emit(Owner[s], Exited(s, "spawn_failed"))
    BY <1>4, <1>8 DEF HandleOpenFails, OpenSpawnFailed, linkVars
  <2>2. \A w \in Wrappers : OwnedBy(events'[w], w)
    BY <1>1, <2>1, EmitOwned, OwnedEvents, EventsAreEvents
  <2> QED BY <1>1, <1>5, <2>1, <2>2 DEF LinkOwners
<1>9. ASSUME FinishOpen(c) PROVE Kept
  <2> DEFINE s == hand[c].session
  <2>1. /\ s \in Sessions /\ toWrapper' = toWrapper /\ Handled(c)
        /\ Emit(Owner[s], Started(s))
    BY <1>4, <1>9 DEF FinishOpen, OpenAnnounce, linkVars
  <2>2. \A w \in Wrappers : OwnedBy(events'[w], w)
    BY <1>1, <2>1, EmitOwned, OwnedEvents, EventsAreEvents
  <2> QED BY <1>1, <1>5, <2>1, <2>2 DEF LinkOwners
<1>10. ASSUME HandleClose(c) PROVE Kept
  <2> DEFINE s == hand[c].session
  <2>1. /\ s \in Sessions /\ toWrapper' = toWrapper /\ Handled(c)
        /\ CloseWith(s, "wrapper_close")
    BY <1>4, <1>10 DEF HandleClose, CloseKnown, linkVars
  <2>2. \A w \in Wrappers : OwnedBy(events'[w], w)
    BY <1>1, <2>1, CloseWithOwned
  <2> QED BY <1>1, <1>5, <2>1, <2>2 DEF LinkOwners
<1>11. ASSUME HandleCloseUnknown(c) PROVE Kept
  BY <1>1, <1>5, <1>11 DEF HandleCloseUnknown, supVars, linkVars, ClientOwners, LinkOwners
<1>12. Kept
  BY <1>6, <1>7, <1>8, <1>9, <1>10, <1>11 DEF ReadLoop, ReadLoopStep
<1> QED BY <1>2, <1>3, <1>12 DEF OwnersInv, ClientOwners, LinkOwners

LEMMA SessionOwners ==
  ASSUME TypeOK, OwnersInv, NEW s \in Sessions, Session(s)
  PROVE  OwnersInv'
<1>1. SupTypeOK /\ ClientOwners
  BY DEF TypeOK, OwnersInv
<1>2. UNCHANGED <<peer, client, hand, toServer, toWrapper, sendTo, sessionWrap, handler, pending>>
  BY DEF Session, SessionStep, linkVars, clientVars, ServerUnchanged, hubVars, handlerVars,
     apiVars
<1>3. \A w \in Wrappers : OwnedBy(events'[w], w)
  <2>1. CASE ProcessExits(s)
    BY <1>1, <2>1, CloseWithOwned DEF ProcessExits
  <2>2. CASE JSONLFound(s)
    BY <1>1, <2>2, EmitOwned, OwnedEvents, EventsAreEvents DEF JSONLFound
  <2>3. CASE Output(s)
    BY <1>1, <2>3, EmitOwned, OwnedEvents, EventsAreEvents DEF Output
  <2> QED BY <2>1, <2>2, <2>3 DEF Session, SessionStep
<1> QED BY <1>2, <1>3 DEF OwnersInv, ClientOwners, ServerOwners, LinkOwners

\* A handler routes what its frames name to its own wrapper.
LEMMA HandlerOwners ==
  ASSUME TypeOK, OwnersInv, NEW c \in Conns, Handler(c)
  PROVE  OwnersInv'
<1>1. /\ LinkTypeOK /\ ServerOwners /\ LinkOwners
      /\ handler \in [Conns -> HandlerStates] /\ pending \in [Conns -> SUBSET Sessions]
      /\ sessionWrap \in [Sessions -> Wrappers \cup {NoWrapper}]
  BY DEF TypeOK, HandlerTypeOK, HubTypeOK, OwnersInv
<1>2. UNCHANGED <<peer, client, hand, events, toWrapper, sendTo>>
  BY DEF Handler, HandlerStep, Register, ReceiveHello, ReconcileClaim, ReconcileList,
     ReconcileExpire, ReceiveStarted, ReceiveExited, Unregister, MarkOffline, Receives, linkVars,
     supVars, clientVars, apiVars
<1>3. ClientOwners' /\ \A d \in Conns : OwnedBy(toWrapper'[d], peer'[d])
  BY <1>2 DEF OwnersInv, ClientOwners, LinkOwners
<1>4. ASSUME NEW type, Receives(c, type)
      PROVE  /\ OfWrapper(Head(toServer[c]), peer[c]) /\ Head(toServer[c]) \in WrapperFrame
             /\ Head(toServer[c]).type = type
  BY <1>1, <1>4, FramesOwned DEF Receives
<1>5. ASSUME NEW d \in Conns
      PROVE  OwnedBy(toServer'[d], peer[d])
  <2>1. \/ toServer'[d] = toServer[d]
        \/ toServer'[d] = <<>>
        \/ toServer[d] # <<>> /\ toServer'[d] \in {Tail(toServer[d]), <<Head(toServer[d])>>}
    BY <1>1 DEF Handler, HandlerStep, Register, ReceiveHello, ReconcileClaim, ReconcileList,
       ReconcileExpire, ReceiveStarted, ReceiveExited, Unregister, MarkOffline, Receives,
       ServerCloses, linkVars, LinkTypeOK
  <2> QED BY <1>1, <2>1, FramesOwned DEF LinkOwners
<1>6. \A s \in Sessions : sessionWrap'[s] \in {Owner[s], NoWrapper}
  <2>1. ASSUME NEW s \in Sessions, ReconcileClaim(c, s)
        PROVE  \A u \in Sessions : sessionWrap'[u] \in {Owner[u], NoWrapper}
    BY <1>1, <2>1 DEF ReconcileClaim, AssignSession, ServerOwners
  <2>2. CASE ReceiveStarted(c)
    <3> DEFINE s == Head(toServer[c]).session
    <3>1. s \in Sessions /\ peer[c] = Owner[s]
      BY <1>4, <2>2, FrameFields DEF ReceiveStarted, OfWrapper
    <3>2. sessionWrap' = [sessionWrap EXCEPT ![s] = peer[c]]
      BY <2>2 DEF ReceiveStarted, AssignSession
    <3> QED BY <1>1, <3>1, <3>2 DEF ServerOwners
  <2>3. CASE Register(c) \/ ReceiveHello(c) \/ ReconcileList(c) \/ ReceiveExited(c) \/ MarkOffline(c)
    <3>1. sessionWrap' = sessionWrap
      BY <2>3 DEF Register, RegisterWrapper, ReceiveHello, ReconcileList, ReceiveExited,
         MarkOffline, hubVars
    <3> QED BY <1>1, <3>1 DEF ServerOwners
  <2>4. CASE Unregister(c)
    BY <1>1, <2>4 DEF Unregister, UnregisterWrapper, ServerOwners
  <2>5. ASSUME NEW s \in Sessions, ReconcileExpire(c, s)
        PROVE  \A u \in Sessions : sessionWrap'[u] \in {Owner[u], NoWrapper}
    BY <1>1, <2>5 DEF ReconcileExpire, hubVars, ServerOwners
  <2> QED BY <2>1, <2>2, <2>3, <2>4, <2>5 DEF Handler, HandlerStep
<1>7. ASSUME NEW d \in Conns, handler'[d] = "claiming", NEW s \in pending'[d]
      PROVE  Owner[s] = peer[d]
  <2>1. CASE ReceiveHello(c)
    <3>1. \A u \in Head(toServer[c]).live : Owner[u] = peer[c]
      BY <1>4, <2>1 DEF ReceiveHello, OfWrapper
    <3> QED BY <1>1, <1>7, <2>1, <3>1 DEF ReceiveHello, ServerOwners
  <2>2. CASE ~ReceiveHello(c)
    <3>1. handler[d] = "claiming" /\ s \in pending[d]
      BY <1>1, <1>7, <2>2 DEF Handler, HandlerStep, Register, ReconcileClaim, ReconcileList,
         ReconcileExpire, ReceiveStarted, ReceiveExited, Unregister, MarkOffline, handlerVars
    <3> QED BY <1>1, <3>1 DEF ServerOwners
  <2> QED BY <2>1, <2>2
<1>8. ServerOwners'
  BY <1>1, <1>2, <1>6, <1>7 DEF ServerOwners
<1> QED BY <1>2, <1>3, <1>5, <1>8 DEF OwnersInv, LinkOwners

\* The requests go to the wrapper that they name, or that the hub routes to.
LEMMA ApiOwners ==
  ASSUME Inv, OwnersInv, NEW s \in Sessions, Api(s)
  PROVE  OwnersInv'
<1>1. /\ LinkTypeOK /\ ServerOwners /\ LinkOwners /\ RegisteredIsServing
      /\ sendTo \in [Sessions -> Conns \cup {NoConn}]
      /\ sessionWrap \in [Sessions -> Wrappers \cup {NoWrapper}]
      /\ wrappers \in [Wrappers -> Conns \cup {NoConn}]
      /\ Owner[s] \in Wrappers
  BY DeploymentAssumption DEF Inv, TypeOK, ApiTypeOK, HubTypeOK, OwnersInv
<1>2. UNCHANGED <<peer, client, hand, events, toServer, handler, pending>>
  BY DEF Api, ApiStep, CreateInsert, OpenSession, SendOpen, FailCreate, Delete, linkVars,
     supVars, clientVars, handlerVars
<1>3. ClientOwners' /\ \A d \in Conns : OwnedBy(toServer'[d], peer'[d])
  BY <1>2 DEF OwnersInv, ClientOwners, LinkOwners
<1>4. \A u \in Sessions : sessionWrap'[u] \in {Owner[u], NoWrapper}
  BY <1>1 DEF Api, ApiStep, CreateInsert, OpenSession, SendOpen, FailCreate, Delete,
     AssignSession, ForgetSession, hubVars, ServerOwners
<1>5. ASSUME NEW u \in Sessions, sendTo'[u] # NoConn
      PROVE  peer[sendTo'[u]] = Owner[u]
  <2>1. \/ sendTo'[u] = sendTo[u]
        \/ u = s /\ WrapperOnline(Owner[s]) /\ sendTo'[s] = wrappers[Owner[s]]
    BY <1>1, <1>5 DEF Api, ApiStep, CreateInsert, OpenSession, SendOpen, FailCreate, Delete
  <2> QED BY <1>1, <1>5, <2>1 DEF ServerOwners, RegisteredIsServing
<1>6. OpenFrame(s) \in ServerFrame /\ CloseFrame(s) \in ServerFrame
  BY DEF ServerFrame, OpenFrame, CloseFrame
<1>7. ASSUME NEW d \in Conns
      PROVE  OwnedBy(toWrapper'[d], peer[d])
  <2>1. \/ toWrapper'[d] = toWrapper[d]
        \/ peer[d] = Owner[s] /\ toWrapper'[d] = Append(toWrapper[d], OpenFrame(s))
        \/ peer[d] = Owner[s] /\ toWrapper'[d] = Append(toWrapper[d], CloseFrame(s))
    <3>1. CASE SendOpen(s)
      <4>1. toWrapper'[d] = toWrapper[d] \/ (d = sendTo[s] /\ toWrapper'[d] = Append(toWrapper[d], OpenFrame(s)))
        BY <1>1, <3>1 DEF SendOpen, WriteToWrapper, LinkTypeOK, OpenFrame
      <4>2. d = sendTo[s] => peer[d] = Owner[s]
        BY <1>1, DeploymentAssumption DEF ServerOwners
      <4> QED BY <4>1, <4>2
    <3>2. CASE Delete(s)
      <4> DEFINE w == sessionWrap[s]
      <4>1. \/ toWrapper'[d] = toWrapper[d]
            \/ /\ w # NoWrapper /\ WrapperOnline(w) /\ d = wrappers[w]
               /\ toWrapper'[d] = Append(toWrapper[d], CloseFrame(s))
        BY <1>1, <3>2 DEF Delete, WriteToWrapper, LinkTypeOK, CloseFrame
      <4>2. w # NoWrapper => w = Owner[s]
        BY <1>1 DEF ServerOwners
      <4>3. WrapperOnline(Owner[s]) => peer[wrappers[Owner[s]]] = Owner[s]
        BY <1>1 DEF RegisteredIsServing
      <4> QED BY <4>1, <4>2, <4>3
    <3>3. CASE CreateInsert(s) \/ OpenSession(s) \/ FailCreate(s)
      BY <3>3 DEF CreateInsert, OpenSession, FailCreate, linkVars
    <3> QED BY <3>1, <3>2, <3>3 DEF Api, ApiStep
  <2> QED BY <1>1, <1>6, <2>1, FramesOwned, OwnedEvents DEF LinkOwners
<1>8. ServerOwners'
  BY <1>1, <1>2, <1>4, <1>5 DEF ServerOwners
<1> QED BY <1>2, <1>3, <1>7, <1>8 DEF OwnersInv, LinkOwners

LEMMA FaultOwners ==
  ASSUME TypeOK, OwnersInv,
         \/ \E c \in Conns : NetworkDrop(c)
         \/ \E w \in Wrappers : WrapperRestart(w)
         \/ ServerRestart
  PROVE  OwnersInv'
<1>1. \A w : OwnedBy(<<>>, w)
  BY DEF OwnedBy
<1>2. \A w : OfWrapper(Idle, w)
  <2>1. Idle.type \notin {"hello", "started", "open", "opened", "close"}
    BY DEF Idle
  <2> QED BY <2>1, Zenon DEF OfWrapper
<1>3. ASSUME NEW c \in Conns, NetworkDrop(c) PROVE OwnersInv'
  BY <1>3 DEF NetworkDrop, OwnersInv, ClientOwners, ServerOwners, LinkOwners, supVars, clientVars,
     storeVars, hubVars, handlerVars, apiVars
<1>4. ASSUME NEW w \in Wrappers, WrapperRestart(w) PROVE OwnersInv'
  <2>1. /\ UNCHANGED <<peer, toServer, sendTo, sessionWrap, handler, pending>>
        /\ client' = [client EXCEPT ![w] = NoConn]
        /\ \A c \in Conns : hand'[c] \in {hand[c], Idle}
        /\ \A c \in Conns : toWrapper'[c] \in {toWrapper[c], <<>>}
        /\ events' = [events EXCEPT ![w] = <<>>]
    BY <1>4 DEF WrapperRestart, WrapperCrash, SupervisorDies, Leave, hubVars, handlerVars, apiVars
  <2>2. ClientOwners'
    BY <1>1, <1>2, <2>1 DEF OwnersInv, ClientOwners, TypeOK, ClientTypeOK, SupTypeOK
  <2> QED BY <1>1, <2>1, <2>2 DEF OwnersInv, ServerOwners, LinkOwners
<1>5. CASE ServerRestart
  <2>1. /\ UNCHANGED <<peer, toWrapper, client, hand, events>>
        /\ \A c \in Conns : toServer'[c] = <<>> /\ handler'[c] = "none"
        /\ \A s \in Sessions : sendTo'[s] = NoConn /\ sessionWrap'[s] = NoWrapper
    BY <1>5 DEF ServerRestart, HandlersDie, RequestsDie, supVars, clientVars
  <2> QED BY <1>1, <2>1 DEF OwnersInv, ClientOwners, ServerOwners, LinkOwners
<1> QED BY <1>3, <1>4, <1>5

LEMMA NextOwners ==
  ASSUME Inv, OwnersInv, [Next]_vars
  PROVE  OwnersInv'
<1>1. TypeOK
  BY DEF Inv
<1>2. CASE UNCHANGED vars
  BY <1>2 DEF vars, linkVars, supVars, clientVars, hubVars, handlerVars, apiVars, OwnersInv,
     ClientOwners, ServerOwners, LinkOwners
<1>3. CASE Next
  BY <1>1, <1>3, ConnectOwners, ClientOwnersKept, ReadLoopOwners, SessionOwners, HandlerOwners,
     ApiOwners, FaultOwners DEF Next
<1> QED BY <1>2, <1>3

\* Steps of the wrapper and of the requests: connections only go down.
LEMMA ServingKept ==
  ASSUME TypeOK, ServingInv, UNCHANGED <<backlog, handler, wrappers>>,
         \A w \in Wrappers : client'[w] \in {client[w], NoConn},
         \A c \in Conns : link'[c] \in {link[c], "down"}
  PROVE  ServingInv'
BY DEF ServingInv, TypeOK, ClientTypeOK

LEMMA HandlerServing ==
  ASSUME Inv, OwnersInv, ServingInv, NEW c \in Conns, Handler(c)
  PROVE  ServingInv'
<1>1. /\ handler \in [Conns -> HandlerStates] /\ client \in [Wrappers -> Conns \cup {NoConn}]
      /\ wrappers \in [Wrappers -> Conns \cup {NoConn}] /\ link \in [Conns -> {"up", "down"}]
  BY DEF Inv, TypeOK, HandlerTypeOK, ClientTypeOK, HubTypeOK, LinkTypeOK
<1>2. client' = client
  BY DEF Handler, clientVars
<1>3. \A w \in Wrappers : client[w] # NoConn => peer[client[w]] = w
  BY DEF OwnersInv, ClientOwners
<1>4. CASE Register(c)
  <2>1. /\ c \in backlog /\ backlog' = backlog \ {c}
        /\ handler' = [handler EXCEPT ![c] = "serving"]
        /\ wrappers' = [wrappers EXCEPT ![peer[c]] = c]
        /\ link' = [d \in Conns |-> IF d \in Displaced(peer[c], c) THEN "down" ELSE link[d]]
    BY <1>4 DEF Register, RegisterWrapper, ServerCloses, Down
  <2>2. \A d \in backlog' : handler'[d] = "none"
    BY <1>1, <2>1 DEF ServingInv
  <2>3. ASSUME NEW w \in Wrappers, client'[w] # NoConn, link'[client'[w]] = "up"
        PROVE  \/ client'[w] \in backlog'
               \/ /\ wrappers'[w] = client'[w]
                  /\ handler'[client'[w]] \in {"serving", "claiming", "reconciled"}
    <3>1. PICK d \in Conns : d = client[w] /\ d = client'[w]
      BY <1>1, <1>2, <2>3
    <3>2. link[d] = "up" /\ d \notin Displaced(peer[c], c) /\ peer[d] = w
      BY <1>1, <1>3, <2>1, <2>3, <3>1, DeploymentAssumption
    <3>3. CASE d = c
      BY <1>1, <2>1, <3>1, <3>2, <3>3
    <3>4. CASE d # c
      <4>1. CASE d \in backlog
        BY <2>1, <3>1, <3>4, <4>1
      <4>2. CASE d \notin backlog
        <5>1. wrappers[w] = d /\ handler[d] \in {"serving", "claiming", "reconciled"}
          <6>1. client[w] # NoConn /\ link[client[w]] = "up" /\ client[w] \notin backlog
            BY <3>1, <3>2, <4>2, DeploymentAssumption
          <6> QED BY <3>1, <6>1 DEF ServingInv
        <5>2. peer[c] # w
          BY <3>2, <3>4, <5>1, DeploymentAssumption DEF Displaced
        <5> QED BY <1>1, <2>1, <3>1, <3>4, <5>1, <5>2
      <4> QED BY <4>1, <4>2
    <3> QED BY <3>3, <3>4
  <2> QED BY <2>2, <2>3 DEF ServingInv
<1>5. CASE Unregister(c)
  <2>1. /\ link[c] = "down" /\ backlog' = backlog
        /\ handler[c] \in {"serving", "reconciled"}
        /\ handler' = [handler EXCEPT ![c] = "left"]
        /\ wrappers' = [wrappers EXCEPT ![peer[c]] = NoConn]
        /\ link' = [d \in Conns |-> IF d \in Unregistered(peer[c]) THEN "down" ELSE link[d]]
    BY <1>5 DEF Unregister, UnregisterWrapper, ServerCloses, Down, Reading
  <2>2. \A d \in backlog' : handler'[d] = "none"
    BY <1>1, <2>1 DEF ServingInv
  <2>3. ASSUME NEW w \in Wrappers, client'[w] # NoConn, link'[client'[w]] = "up"
        PROVE  \/ client'[w] \in backlog'
               \/ /\ wrappers'[w] = client'[w]
                  /\ handler'[client'[w]] \in {"serving", "claiming", "reconciled"}
    <3>1. PICK d \in Conns : d = client[w] /\ d = client'[w]
      BY <1>1, <1>2, <2>3
    <3>2. link[d] = "up" /\ d \notin Unregistered(peer[c]) /\ d # c
      BY <1>1, <2>1, <2>3, <3>1
    <3>3. CASE d \in backlog
      BY <2>1, <3>1, <3>3
    <3>4. CASE d \notin backlog
      <4>1. wrappers[w] = d /\ handler[d] \in {"serving", "claiming", "reconciled"}
        <5>1. client[w] # NoConn /\ link[client[w]] = "up" /\ client[w] \notin backlog
          BY <3>1, <3>2, <3>4, DeploymentAssumption
        <5> QED BY <3>1, <5>1 DEF ServingInv
      <4>2. peer[c] # w
        BY <3>2, <4>1, DeploymentAssumption DEF Unregistered
      <4> QED BY <1>1, <2>1, <3>1, <3>2, <4>1, <4>2
    <3> QED BY <3>3, <3>4
  <2> QED BY <2>2, <2>3 DEF ServingInv
<1>6. CASE MarkOffline(c)
  <2>1. /\ handler[c] = "left" /\ UNCHANGED <<backlog, wrappers, link>>
        /\ handler' = [handler EXCEPT ![c] = "none"]
    BY <1>6 DEF MarkOffline, hubVars
  <2> QED BY <1>1, <1>2, <2>1 DEF ServingInv
<1>7. CASE ReceiveHello(c) \/ ReconcileList(c)
  <2>1. /\ handler[c] \in {"serving", "claiming", "reconciled"}
        /\ UNCHANGED <<backlog, wrappers, link>>
        /\ \/ handler' = [handler EXCEPT ![c] = "claiming"]
           \/ handler' = [handler EXCEPT ![c] = "reconciled"]
    BY <1>7 DEF ReceiveHello, ReconcileList, Receives, Reading, linkVars, hubVars
  <2>2. \A d \in Conns :
          /\ d # c => handler'[d] = handler[d]
          /\ d = c => handler'[d] \in {"claiming", "reconciled"}
    BY <1>1, <2>1
  <2>3. ASSUME NEW d \in backlog' PROVE handler'[d] = "none"
    <3>1. d \in backlog /\ d \in Conns
      BY <2>1 DEF Inv, TypeOK, LinkTypeOK
    <3>2. handler[d] = "none"
      BY <3>1 DEF ServingInv
    <3>3. d # c
      BY <2>1, <3>2
    <3> QED BY <2>2, <3>1, <3>2, <3>3
  <2>4. ASSUME NEW w \in Wrappers, client[w] # NoConn, link[client[w]] = "up",
               client[w] \notin backlog
        PROVE  /\ wrappers[w] = client[w]
               /\ handler'[client[w]] \in {"serving", "claiming", "reconciled"}
    <3>1. /\ wrappers[w] = client[w]
          /\ handler[client[w]] \in {"serving", "claiming", "reconciled"}
      BY <2>4 DEF ServingInv
    <3>2. client[w] \in Conns
      BY <1>1, <2>4
    <3> QED BY <2>2, <3>1, <3>2
  <2> QED BY <1>2, <2>1, <2>3, <2>4 DEF ServingInv
<1>8. ASSUME UNCHANGED <<backlog, handler, wrappers, link>>
      PROVE  ServingInv'
  BY <1>1, <1>2, <1>8 DEF ServingInv
<1>9. CASE ReceiveStarted(c) \/ ReceiveExited(c)
  BY <1>8, <1>9 DEF ReceiveStarted, ReceiveExited, Receives, AssignSession, handlerVars, hubVars
<1>10. CASE \E s \in Sessions : ReconcileClaim(c, s) \/ ReconcileExpire(c, s)
  BY <1>8, <1>10 DEF ReconcileClaim, ReconcileExpire, AssignSession, linkVars, hubVars
<1> QED BY <1>4, <1>5, <1>6, <1>7, <1>9, <1>10 DEF Handler, HandlerStep

LEMMA NextServing ==
  ASSUME Inv, OwnersInv, ServingInv, [Next]_vars
  PROVE  ServingInv'
<1>1. TypeOK /\ client \in [Wrappers -> Conns \cup {NoConn}]
  BY DEF Inv, TypeOK, ClientTypeOK
<1>2. ASSUME NEW w \in Wrappers, Connect(w) PROVE ServingInv'
  <2>1. PICK c \in Conns : Unused(c) /\ Dial(w, c)
    BY <1>2 DEF Connect
  <2>2. /\ handler[c] = "none" /\ \A v \in Wrappers : client[v] # c
        /\ client' = [client EXCEPT ![w] = c] /\ link' = [link EXCEPT ![c] = "up"]
        /\ backlog' = backlog \cup {c} /\ UNCHANGED <<handler, wrappers>>
    BY <1>2, <2>1 DEF Unused, Dial, Connect, ServerUnchanged, handlerVars, hubVars
  <2> QED BY <1>1, <2>2 DEF ServingInv, TypeOK, LinkTypeOK
<1>3. ASSUME NEW w \in Wrappers, Client(w) PROVE ServingInv'
  <2>1. /\ UNCHANGED <<backlog, handler, wrappers>>
        /\ \A v \in Wrappers : client'[v] \in {client[v], NoConn}
        /\ \A c \in Conns : link'[c] \in {link[c], "down"}
    BY <1>1, <1>3 DEF Client, RunOnceReturns, SendEvent, Leave, Down, ServerUnchanged, handlerVars,
       hubVars
  <2> QED BY <1>1, <2>1, ServingKept
<1>4. ASSUME NEW c \in Conns, ReadLoop(c) PROVE ServingInv'
  <2>1. UNCHANGED <<backlog, handler, wrappers, client, link>>
    BY <1>4 DEF ReadLoop, ReadLoopStep, TakeFrame, HandleOpen, HandleOpenFails, FinishOpen,
       HandleClose, HandleCloseUnknown, linkVars, ServerUnchanged, handlerVars, hubVars
  <2> QED BY <1>1, <2>1, ServingKept
<1>5. ASSUME NEW s \in Sessions, Session(s) \/ Api(s) PROVE ServingInv'
  <2>1. UNCHANGED <<backlog, handler, wrappers, client, link>>
    BY <1>5 DEF Session, SessionStep, ServerUnchanged, Api, ApiStep, CreateInsert, OpenSession,
       SendOpen, FailCreate, Delete, ForgetSession, AssignSession, linkVars, clientVars,
       handlerVars, hubVars
  <2> QED BY <1>1, <2>1, ServingKept
<1>6. ASSUME NEW c \in Conns, Handler(c) PROVE ServingInv'
  BY <1>6, HandlerServing
<1>7. ASSUME NEW c \in Conns, NetworkDrop(c) PROVE ServingInv'
  <2>1. /\ UNCHANGED <<backlog, handler, wrappers, client>>
        /\ \A d \in Conns : link'[d] \in {link[d], "down"}
    BY <1>7 DEF NetworkDrop, Down, clientVars, handlerVars, hubVars
  <2> QED BY <1>1, <2>1, ServingKept
<1>8. ASSUME NEW w \in Wrappers, WrapperRestart(w) PROVE ServingInv'
  <2>1. /\ UNCHANGED <<backlog, handler, wrappers>>
        /\ \A v \in Wrappers : client'[v] \in {client[v], NoConn}
        /\ \A d \in Conns : link'[d] \in {link[d], "down"}
    BY <1>1, <1>8 DEF WrapperRestart, WrapperCrash, Leave, Down, handlerVars, hubVars
  <2> QED BY <1>1, <2>1, ServingKept
<1>9. CASE ServerRestart
  <2>1. /\ backlog' = {} /\ client' = client
        /\ \A c \in Conns : link'[c] = "down"
    BY <1>9 DEF ServerRestart, HandlersDie, Down, clientVars
  <2> QED BY <1>1, <2>1 DEF ServingInv
<1>10. CASE UNCHANGED vars
  <2>1. UNCHANGED <<backlog, handler, wrappers, client, link>>
    BY <1>10 DEF vars, clientVars, handlerVars, hubVars, linkVars
  <2> QED BY <1>1, <2>1, ServingKept
<1> QED
  BY <1>2, <1>3, <1>4, <1>5, <1>6, <1>7, <1>8, <1>9, <1>10 DEF Next

-----------------------------------------------------------------------------
\* What a queue says of a session, when a message is appended or taken off.
LEMMA QueueSays ==
  ASSUME NEW S, NEW q \in Seq(S), NEW s
  PROVE  /\ \A m \in S :
              /\ Mentions(q, s) => Mentions(Append(q, m), s)
              /\ m.type = "started" /\ m.session = s => Mentions(Append(q, m), s)
              /\ Closes(q, s) => Closes(Append(q, m), s)
         /\ CloseFrame(s) \in S => Closes(Append(q, CloseFrame(s)), s)
         /\ q # <<>> /\ Mentions(q, s) =>
              \/ Mentions(Tail(q), s)
              \/ Head(q).type = "started" /\ Head(q).session = s
              \/ Head(q).type = "hello" /\ s \in Head(q).live
         /\ q # <<>> /\ Closes(q, s) => Closes(Tail(q), s) \/ Head(q) = CloseFrame(s)
<1>1. ASSUME NEW m \in S
      PROVE  /\ Len(Append(q, m)) = Len(q) + 1 /\ Len(q) \in Nat /\ Append(q, m)[Len(q) + 1] = m
             /\ \A i \in 1..Len(q) : i \in 1..Len(Append(q, m)) /\ Append(q, m)[i] = q[i]
  OBVIOUS
<1>2. ASSUME q # <<>>
      PROVE  \A i \in 1..Len(q) :
               q[i] = Head(q) \/ (i - 1 \in 1..Len(Tail(q)) /\ Tail(q)[i - 1] = q[i])
  BY <1>2
<1>3. ASSUME NEW m \in S
      PROVE  /\ Mentions(q, s) => Mentions(Append(q, m), s)
             /\ m.type = "started" /\ m.session = s => Mentions(Append(q, m), s)
             /\ Closes(q, s) => Closes(Append(q, m), s)
  <2>1. Len(q) + 1 \in 1..Len(Append(q, m))
    BY <1>1
  <2>2. Mentions(q, s) => Mentions(Append(q, m), s)
    BY <1>1 DEF Mentions
  <2>3. m.type = "started" /\ m.session = s => Mentions(Append(q, m), s)
    BY <1>1, <2>1 DEF Mentions
  <2>4. Closes(q, s) => Closes(Append(q, m), s)
    BY <1>1 DEF Closes
  <2> QED BY <2>2, <2>3, <2>4
<1>4. ASSUME CloseFrame(s) \in S
      PROVE  Closes(Append(q, CloseFrame(s)), s)
  <2>1. /\ Len(q) + 1 \in 1..Len(Append(q, CloseFrame(s)))
        /\ Append(q, CloseFrame(s))[Len(q) + 1] = CloseFrame(s)
    BY <1>1, <1>4
  <2> QED BY <2>1 DEF Closes
<1>5. ASSUME q # <<>>, Mentions(q, s)
      PROVE  \/ Mentions(Tail(q), s)
             \/ Head(q).type = "started" /\ Head(q).session = s
             \/ Head(q).type = "hello" /\ s \in Head(q).live
  BY <1>2, <1>5 DEF Mentions
<1>6. ASSUME q # <<>>, Closes(q, s)
      PROVE  Closes(Tail(q), s) \/ Head(q) = CloseFrame(s)
  BY <1>2, <1>6 DEF Closes
<1> QED BY <1>3, <1>4, <1>5, <1>6

\* An event sent does not disturb those that are in the channel.
LEMMA EmitMentions ==
  ASSUME SupTypeOK, NEW w \in Wrappers, NEW e \in Event, Emit(w, e)
  PROVE  /\ \A v \in Wrappers : \A s : Mentions(events[v], s) => Mentions(events'[v], s)
         /\ dropped \subseteq dropped'
         /\ e.type = "started" => Mentions(events'[w], e.session) \/ e.session \in dropped'
<1>1. events[w] \in Seq(Event) /\ events \in [Wrappers -> Seq(Event)]
  BY DEF SupTypeOK
<1>2. CASE Len(events[w]) < EventCap
  <2>1. /\ events'[w] = Append(events[w], e) /\ dropped' = dropped
        /\ \A v \in Wrappers \ {w} : events'[v] = events[v]
    BY <1>1, <1>2 DEF Emit
  <2>2. \A s : Mentions(events[w], s) => Mentions(events'[w], s)
    BY <1>1, <2>1, QueueSays
  <2>3. e.type = "started" => Mentions(events'[w], e.session)
    <3>1. \A t : e.type = "started" /\ e.session = t => Mentions(Append(events[w], e), t)
      BY <1>1, QueueSays
    <3> QED BY <2>1, <3>1
  <2> QED BY <2>1, <2>2, <2>3
<1>3. CASE ~(Len(events[w]) < EventCap)
  BY <1>3 DEF Emit
<1> QED BY <1>2, <1>3

LEMMA CloseWithMentions ==
  ASSUME SupTypeOK, NEW s \in Sessions, NEW why \in {"normal", "wrapper_close"},
         CloseWith(s, why)
  PROVE  /\ \A v \in Wrappers : \A t : Mentions(events[v], t) => Mentions(events'[v], t)
         /\ dropped \subseteq dropped'
<1>1. CASE proc[s] = "alive"
  BY <1>1, EmitMentions, EventsAreEvents DEF CloseWith
<1>2. CASE proc[s] # "alive"
  BY <1>2 DEF CloseWith
<1> QED BY <1>1, <1>2

-----------------------------------------------------------------------------
(***************************************************************************)
(* Each process keeps a session that is routed, or on its way, reachable.  *)
(***************************************************************************)

LEMMA ReachConnect ==
  ASSUME Inv, OwnersInv, ReachInv, NEW w \in Wrappers, Connect(w)
  PROVE  ReachInv'
<1>1. PICK k \in Conns : Unused(k) /\ Dial(w, k)
  BY DEF Connect
<1>2. /\ client' = [client EXCEPT ![w] = k] /\ link' = [link EXCEPT ![k] = "up"]
      /\ toServer' = [toServer EXCEPT ![k] = <<Hello(Snapshot(w))>>]
      /\ toWrapper' = [toWrapper EXCEPT ![k] = <<>>]
      /\ backlog' = backlog \cup {k} /\ \A v \in Wrappers : client[v] # k
      /\ UNCHANGED <<hand, table, events, dropped, sessionWrap, handler, pending>>
  BY <1>1 DEF Unused, Dial, Connect, ServerUnchanged, supVars, hubVars, handlerVars
<1>3. /\ client \in [Wrappers -> Conns \cup {NoConn}] /\ link \in [Conns -> {"up", "down"}]
      /\ toServer \in [Conns -> Seq(WrapperFrame)] /\ toWrapper \in [Conns -> Seq(ServerFrame)]
      /\ table \in SUBSET Sessions /\ \A s \in Sessions : Owner[s] \in Wrappers
  BY DeploymentAssumption DEF Inv, TypeOK, LinkTypeOK, ClientTypeOK, SupTypeOK
<1> SUFFICES ASSUME NEW s \in table \ dropped, NEW c \in Conns,
                    c = client'[Owner[s]], link'[c] = "up", hand'[c] # Failed
             PROVE  Reaches(s, c)'
  BY <1>2 DEF ReachInv
<1>4. CASE Owner[s] = w
  <2>1. c = k /\ toServer'[c] = <<Hello(Snapshot(w))>>
    BY <1>2, <1>3, <1>4
  <2>2. s \in Snapshot(w)
    BY <1>4 DEF Snapshot
  <2>3. Mentions(toServer'[c], s)
    BY <2>1, <2>2 DEF Mentions, Hello
  <2> QED BY <2>3 DEF Reaches
<1>5. CASE Owner[s] # w
  <2>1. c = client[Owner[s]] /\ c # k
    BY <1>2, <1>3, <1>5
  <2>2. /\ link[c] = "up" /\ hand[c] # Failed
        /\ toServer'[c] = toServer[c] /\ toWrapper'[c] = toWrapper[c]
        /\ c \notin backlog => c \notin backlog'
    BY <1>2, <1>3, <2>1
  <2>3. Reaches(s, c)
    BY <2>1, <2>2 DEF ReachInv
  <2> QED BY <1>2, <2>2, <2>3 DEF Reaches
<1> QED BY <1>4, <1>5

LEMMA ReachClient ==
  ASSUME TypeOK, OwnersInv, ReachInv, NEW w \in Wrappers, Client(w)
  PROVE  ReachInv'
<1>1. /\ client \in [Wrappers -> Conns \cup {NoConn}] /\ link \in [Conns -> {"up", "down"}]
      /\ hand \in [Conns -> Hand] /\ NoConn \notin Conns
      /\ toServer \in [Conns -> Seq(WrapperFrame)] /\ toWrapper \in [Conns -> Seq(ServerFrame)]
      /\ events \in [Wrappers -> Seq(Event)]
      /\ table \in SUBSET Sessions /\ \A s \in Sessions : Owner[s] \in Wrappers
  BY DeploymentAssumption DEF TypeOK, LinkTypeOK, ClientTypeOK, SupTypeOK
<1>2. UNCHANGED <<table, dropped, backlog, handler, pending, sessionWrap>>
  BY DEF Client, RunOnceReturns, SendEvent, ServerUnchanged, supVars, handlerVars, hubVars
<1>3. client[w] # NoConn /\ \A v \in Wrappers : client'[v] \in {client[v], NoConn}
  BY <1>1 DEF Client, RunOnceReturns, SendEvent, Leave
<1> SUFFICES ASSUME NEW s \in table \ dropped, NEW c \in Conns,
                    c = client'[Owner[s]], link'[c] = "up", hand'[c] # Failed
             PROVE  Reaches(s, c)'
  BY <1>2 DEF ReachInv
<1>4. c = client[Owner[s]] /\ s \in Sessions /\ Owner[s] \in Wrappers
  BY <1>1, <1>3
<1>5. Owner[s] # w => c # client[w]
  <2>1. \A v \in Wrappers : client[v] # NoConn => peer[client[v]] = v
    BY DEF OwnersInv, ClientOwners
  <2>2. peer[c] = Owner[s] /\ peer[client[w]] = w
    BY <1>1, <1>3, <1>4, <2>1
  <2> QED BY <2>2
<1>6. CASE RunOnceReturns(w)
  <2>1. Owner[s] # w
    BY <1>1, <1>6 DEF RunOnceReturns, Leave
  <2>2. /\ toWrapper'[c] = toWrapper[c] /\ link[c] = "up" /\ hand'[c] = hand[c]
        /\ UNCHANGED <<events, toServer>>
    BY <1>1, <1>4, <1>5, <1>6, <2>1 DEF RunOnceReturns, Leave, Down, supVars
  <2>3. \A d \in Conns : hand[d] = Opened(s) => hand'[d] = Opened(s)
    BY <1>1, <1>6 DEF RunOnceReturns, Opened, Failed
  <2>4. Reaches(s, c)
    BY <1>4, <2>2 DEF ReachInv
  <2> QED BY <1>2, <2>2, <2>3, <2>4 DEF Reaches
<1>7. CASE SendEvent(w)
  <2>1. /\ UNCHANGED <<hand, link>>
        /\ events[w] # <<>> /\ events' = [events EXCEPT ![w] = Tail(events[w])]
    BY <1>7 DEF SendEvent
  <2>2. toWrapper'[c] = toWrapper[c]
    BY <1>1, <1>4, <1>5, <1>7 DEF SendEvent, Leave
  <2>3. Reaches(s, c)
    BY <1>4, <2>1 DEF ReachInv
  <2>4. CASE Owner[s] # w
    <3>1. events'[Owner[s]] = events[Owner[s]] /\ toServer'[c] = toServer[c]
      BY <1>1, <1>4, <1>5, <1>7, <2>4 DEF SendEvent, WriteToServer
    <3> QED BY <1>2, <2>1, <2>2, <2>3, <3>1 DEF Reaches
  <2>5. CASE Owner[s] = w
    <3> DEFINE e == Head(events[w])
    <3>1. /\ events[w] \in Seq(Event) /\ e \in Event /\ toServer[c] \in Seq(WrapperFrame)
          /\ events'[w] = Tail(events[w]) /\ e.type # "hello"
      BY <1>1, <2>1 DEF Event
    <3>2. IF e.type = "data" THEN toServer'[c] = toServer[c]
                             ELSE toServer'[c] = Append(toServer[c], e) /\ e \in WrapperFrame
      BY <1>1, <1>4, <1>7, <2>1, <2>5, <3>1, EventIsFrame DEF SendEvent, WriteToServer
    <3>3. Mentions(toServer[c], s) => Mentions(toServer'[c], s)
      <4>1. CASE e.type = "data"
        BY <3>2, <4>1
      <4>2. CASE e.type # "data"
        <5>1. toServer'[c] = Append(toServer[c], e) /\ e \in WrapperFrame
          BY <3>2, <4>2
        <5>2. Mentions(toServer[c], s) => Mentions(Append(toServer[c], e), s)
          BY <3>1, <5>1, QueueSays
        <5> QED BY <5>1, <5>2
      <4> QED BY <4>1, <4>2
    <3>4. ASSUME Mentions(events[w], s)
          PROVE  Mentions(events'[w], s) \/ Mentions(toServer'[c], s)
      <4>1. \/ Mentions(Tail(events[w]), s)
            \/ e.type = "started" /\ e.session = s
        BY <2>1, <3>1, <3>4, QueueSays
      <4>2. CASE e.type = "started" /\ e.session = s
        <5>1. toServer'[c] = Append(toServer[c], e) /\ e \in WrapperFrame
          BY <3>2, <4>2
        <5> QED BY <3>1, <4>2, <5>1, QueueSays
      <4> QED BY <3>1, <4>1, <4>2
    <3> QED BY <1>2, <2>1, <2>2, <2>3, <2>5, <3>3, <3>4 DEF Reaches
  <2> QED BY <2>4, <2>5
<1> QED BY <1>6, <1>7 DEF Client

LEMMA ReachReadLoop ==
  ASSUME TypeOK, OwnersInv, ReachInv, NEW d \in Conns, ReadLoop(d)
  PROVE  ReachInv'
<1>1. /\ hand \in [Conns -> Hand] /\ toWrapper \in [Conns -> Seq(ServerFrame)] /\ SupTypeOK
      /\ table \in SUBSET Sessions /\ \A s \in Sessions : Owner[s] \in Wrappers
  BY DeploymentAssumption DEF TypeOK, LinkTypeOK, ClientTypeOK, SupTypeOK
<1>2. UNCHANGED <<client, link, backlog, toServer, handler, pending, sessionWrap>>
  BY DEF ReadLoop, ReadLoopStep, TakeFrame, HandleOpen, HandleOpenFails, FinishOpen,
     HandleClose, HandleCloseUnknown, linkVars, ServerUnchanged, hubVars, handlerVars
<1>3. \A e \in Conns : e # d => hand'[e] = hand[e]
  BY <1>1 DEF ReadLoop, ReadLoopStep, TakeFrame, HandleOpen, HandleOpenFails, FinishOpen,
     HandleClose, HandleCloseUnknown, Handled, HandledWithError
<1> SUFFICES ASSUME NEW s \in table' \ dropped', NEW c \in Conns,
                    c = client[Owner[s]], link[c] = "up", hand'[c] # Failed
             PROVE  Reaches(s, c)'
  BY <1>2 DEF ReachInv
<1>4. CASE TakeFrame(d)
  <2>1. /\ hand[d] = Idle /\ hand'[d] = Head(toWrapper[d]) /\ UNCHANGED <<table, dropped, events>>
        /\ toWrapper[d] # <<>> /\ toWrapper' = [toWrapper EXCEPT ![d] = Tail(toWrapper[d])]
    BY <1>1, <1>4 DEF TakeFrame, supVars
  <2>2. Idle # Failed /\ Idle # Opened(s) /\ Idle # CloseFrame(s)
    BY DEF Idle, Failed, Opened, CloseFrame
  <2>3. Reaches(s, c)
    BY <1>3, <2>1, <2>2 DEF ReachInv
  <2>4. Closes(toWrapper[c], s) => Closes(toWrapper'[c], s) \/ hand'[c] = CloseFrame(s)
    <3>1. CASE c = d
      <4>1. toWrapper[c] \in Seq(ServerFrame) /\ toWrapper'[c] = Tail(toWrapper[c])
        BY <1>1, <2>1, <3>1
      <4> QED BY <2>1, <3>1, <4>1, QueueSays
    <3>2. CASE c # d
      BY <1>1, <2>1, <3>2
    <3> QED BY <3>1, <3>2
  <2>5. \A e \in Conns : hand[e] \in {Opened(s), CloseFrame(s)} => hand'[e] = hand[e]
    BY <1>3, <2>1, <2>2
  <2> QED BY <1>2, <2>1, <2>3, <2>4, <2>5 DEF Reaches
<1>5. CASE HandleOpen(d) \/ HandleOpenFails(d) \/ FinishOpen(d) \/ HandleClose(d)
             \/ HandleCloseUnknown(d)
  <2> DEFINE t == hand[d].session
  <2>1. /\ hand[d].type \in {"open", "opened", "close"} /\ t \in Sessions
        /\ hand[d] # Failed /\ toWrapper' = toWrapper
    BY <1>1, <1>5 DEF HandleOpen, HandleOpenFails, FinishOpen, HandleClose, HandleCloseUnknown,
       Hand, Failed, linkVars
  <2>2. table' \subseteq table \cup {t}
    BY <1>5 DEF HandleOpen, OpenInsert, HandleOpenFails, OpenSpawnFailed, FinishOpen,
       OpenAnnounce, HandleClose, CloseKnown, HandleCloseUnknown, supVars
  <2>3. /\ \A u : Mentions(events[Owner[s]], u) => Mentions(events'[Owner[s]], u)
        /\ dropped \subseteq dropped'
    <3>1. Owner[s] \in Wrappers
      BY <1>1, <2>1, <2>2
    <3>2. CASE HandleOpen(d) \/ HandleCloseUnknown(d)
      BY <3>2 DEF HandleOpen, OpenInsert, HandleCloseUnknown, supVars
    <3>3. CASE HandleOpenFails(d)
      BY <1>1, <2>1, <3>1, <3>3, EmitMentions, EventsAreEvents DEF HandleOpenFails,
         OpenSpawnFailed
    <3>4. CASE FinishOpen(d)
      BY <1>1, <2>1, <3>1, <3>4, EmitMentions, EventsAreEvents DEF FinishOpen, OpenAnnounce
    <3>5. CASE HandleClose(d)
      BY <1>1, <2>1, <3>1, <3>5, CloseWithMentions DEF HandleClose, CloseKnown
    <3> QED BY <1>5, <3>2, <3>3, <3>4, <3>5
  <2>4. CASE s # t
    <3>1. hand[d] # Opened(s) /\ hand[d] # CloseFrame(s)
      BY <2>4 DEF Opened, CloseFrame
    <3>2. Reaches(s, c)
      BY <1>3, <2>1, <2>2, <2>3, <2>4 DEF ReachInv
    <3>3. \A e \in Conns : hand[e] \in {Opened(s), CloseFrame(s)} => hand'[e] = hand[e]
      BY <1>3, <3>1
    <3> QED BY <1>2, <2>1, <2>3, <3>2, <3>3 DEF Reaches
  <2>5. CASE s = t
    <3>1. CASE HandleOpen(d)
      <4>1. hand'[d] = Opened(s)
        BY <1>1, <2>5, <3>1 DEF HandleOpen
      <4> QED BY <4>1 DEF Reaches
    <3>2. CASE FinishOpen(d)
      <4>1. Emit(Owner[s], Started(s)) /\ Started(s) \in Event /\ Owner[s] \in Wrappers
        BY <2>1, <2>5, <3>2, EventsAreEvents DEF FinishOpen, OpenAnnounce
      <4>2. Mentions(events'[Owner[s]], s) \/ s \in dropped'
        BY <1>1, <4>1, EmitMentions DEF Started
      <4> QED BY <4>2 DEF Reaches
    <3>3. ~(HandleOpenFails(d) \/ HandleClose(d) \/ HandleCloseUnknown(d))
      BY <2>5 DEF HandleOpenFails, OpenSpawnFailed, HandleClose, CloseKnown,
         HandleCloseUnknown, supVars
    <3> QED BY <1>5, <3>1, <3>2, <3>3
  <2> QED BY <2>4, <2>5
<1> QED BY <1>4, <1>5 DEF ReadLoop, ReadLoopStep

LEMMA ReachSession ==
  ASSUME TypeOK, ReachInv, NEW t \in Sessions, Session(t)
  PROVE  ReachInv'
<1>1. SupTypeOK /\ \A s \in table : Owner[s] \in Wrappers
  BY DeploymentAssumption DEF TypeOK, SupTypeOK
<1>2. UNCHANGED <<client, hand, link, backlog, toServer, toWrapper, handler, pending,
                  sessionWrap, table>>
  BY DEF Session, SessionStep, ProcessExits, JSONLFound, Output, linkVars, clientVars,
     ServerUnchanged, hubVars, handlerVars
<1>3. /\ \A v \in Wrappers : \A s : Mentions(events[v], s) => Mentions(events'[v], s)
      /\ dropped \subseteq dropped'
  <2>1. CASE ProcessExits(t)
    BY <1>1, <2>1, CloseWithMentions DEF ProcessExits
  <2>2. CASE JSONLFound(t)
    BY <1>1, <2>2, EmitMentions, EventsAreEvents DEF JSONLFound
  <2>3. CASE Output(t)
    BY <1>1, <2>3, EmitMentions, EventsAreEvents DEF Output
  <2> QED BY <2>1, <2>2, <2>3 DEF Session, SessionStep
<1>4. ASSUME NEW s \in table \ dropped', NEW c \in Conns,
             c = client[Owner[s]], link[c] = "up", hand[c] # Failed
      PROVE  Reaches(s, c)'
  <2>1. Reaches(s, c)
    BY <1>3, <1>4 DEF ReachInv
  <2> QED BY <1>1, <1>2, <1>3, <2>1 DEF Reaches
<1> QED BY <1>2, <1>4 DEF ReachInv

\* The handlers: what they read off a connection is routed, or taken down
\* with the connection.
LEMMA ReachHandler ==
  ASSUME Inv, OwnersInv, ServingInv, ReachInv, NEW d \in Conns, Handler(d)
  PROVE  ReachInv'
<1>1. /\ handler \in [Conns -> HandlerStates] /\ pending \in [Conns -> SUBSET Sessions]
      /\ toServer \in [Conns -> Seq(WrapperFrame)] /\ link \in [Conns -> {"up", "down"}]
      /\ sessionWrap \in [Sessions -> Wrappers \cup {NoWrapper}]
      /\ client \in [Wrappers -> Conns \cup {NoConn}] /\ NoConn \notin Conns
      /\ table \in SUBSET Sessions /\ \A s \in Sessions : Owner[s] \in Wrappers
  BY DeploymentAssumption DEF Inv, TypeOK, LinkTypeOK, HandlerTypeOK, HubTypeOK, ClientTypeOK,
     SupTypeOK
<1>2. UNCHANGED <<table, events, dropped, client, hand, toWrapper>>
  BY DEF Handler, supVars, clientVars, HandlerStep, Register, ReceiveHello, ReconcileClaim,
     ReconcileList, ReconcileExpire, ReceiveStarted, ReceiveExited, Unregister, MarkOffline,
     Receives, linkVars
<1> SUFFICES ASSUME NEW s \in table \ dropped, NEW c \in Conns,
                    c = client[Owner[s]], link'[c] = "up", hand[c] # Failed
             PROVE  Reaches(s, c)'
  BY <1>2 DEF ReachInv
<1>3. s \in Sessions /\ Owner[s] \in Wrappers /\ client[Owner[s]] # NoConn
  BY <1>1
<1>4. link[c] = "up"
  BY <1>1 DEF Handler, HandlerStep, Register, ReceiveHello, ReconcileClaim, ReconcileList,
     ReconcileExpire, ReceiveStarted, ReceiveExited, Unregister, MarkOffline, Receives, linkVars,
     ServerCloses, Down
<1>5. Reaches(s, c)
  BY <1>4 DEF ReachInv
<1>6. \/ c \in backlog /\ handler[c] = "none"
      \/ /\ c \notin backlog /\ wrappers[Owner[s]] = c
         /\ handler[c] \in {"serving", "claiming", "reconciled"}
  BY <1>3, <1>4 DEF ServingInv
<1>7. CASE Register(d)
  <2>1. /\ d \in backlog /\ backlog' = backlog \ {d} /\ UNCHANGED <<pending, sessionWrap>>
        /\ handler' = [handler EXCEPT ![d] = "serving"]
    BY <1>7 DEF Register, RegisterWrapper
  <2>2. toServer'[c] = toServer[c]
    BY <1>1, <1>7 DEF Register, ServerCloses, Down
  <2>3. handler[c] = "claiming" => handler'[c] = "claiming"
    BY <1>1, <2>1 DEF ServingInv
  <2> QED BY <1>2, <1>5, <2>1, <2>2, <2>3 DEF Reaches
<1>8. CASE ReceiveHello(d)
  <2>1. /\ UNCHANGED <<backlog, sessionWrap>> /\ handler[d] # "claiming"
        /\ toServer[d] # <<>> /\ Head(toServer[d]).type = "hello"
        /\ toServer' = [toServer EXCEPT ![d] = Tail(toServer[d])]
        /\ handler' = [handler EXCEPT ![d] = "claiming"]
        /\ pending' = [pending EXCEPT ![d] = Head(toServer[d]).live]
    BY <1>8 DEF ReceiveHello, Receives, Reading, hubVars
  <2>2. CASE c = d
    <3>1. toServer'[c] = Tail(toServer[c]) /\ handler'[c] = "claiming"
          /\ pending'[c] = Head(toServer[c]).live
      BY <1>1, <2>1, <2>2
    <3>2. toServer[c] \in Seq(WrapperFrame)
      BY <1>1
    <3>3. Mentions(toServer[c], s) => Mentions(toServer'[c], s) \/ s \in pending'[c]
      BY <2>1, <2>2, <3>1, <3>2, QueueSays
    <3> QED BY <1>2, <1>5, <2>1, <2>2, <3>1, <3>3 DEF Reaches
  <2>3. CASE c # d
    <3>1. toServer'[c] = toServer[c] /\ handler'[c] = handler[c] /\ pending'[c] = pending[c]
      BY <1>1, <2>1, <2>3
    <3> QED BY <1>2, <1>5, <2>1, <3>1 DEF Reaches
  <2> QED BY <2>2, <2>3
<1>9. ASSUME NEW t \in Sessions, ReconcileClaim(d, t) PROVE Reaches(s, c)'
  <2>1. /\ handler[d] = "claiming" /\ t \in pending[d] /\ UNCHANGED <<backlog, toServer, handler>>
        /\ sessionWrap' = [sessionWrap EXCEPT ![t] = peer[d]]
        /\ pending' = [pending EXCEPT ![d] = pending[d] \ {t}]
    BY <1>9 DEF ReconcileClaim, AssignSession, linkVars
  <2>2. peer[d] = Owner[t]
    BY <2>1 DEF OwnersInv, ServerOwners
  <2>3. sessionWrap[s] = Owner[s] => sessionWrap'[s] = Owner[s]
    BY <1>1, <1>3, <2>1, <2>2
  <2>4. CASE c = d /\ s = t
    <3>1. sessionWrap'[s] = Owner[s] /\ c \notin backlog'
      BY <1>1, <1>3, <1>6, <2>1, <2>2, <2>4
    <3> QED BY <3>1 DEF Reaches
  <2>5. CASE ~(c = d /\ s = t)
    <3>1. s \in pending[c] => s \in pending'[c]
      BY <1>1, <2>1, <2>5
    <3> QED BY <1>2, <1>5, <2>1, <2>3, <3>1 DEF Reaches
  <2> QED BY <2>4, <2>5
<1>10. CASE ReconcileList(d)
  <2>1. /\ UNCHANGED <<backlog, toServer, sessionWrap>>
        /\ \A e \in Conns : handler[e] = "claiming" /\ s \in pending[e] =>
             handler'[e] = "claiming" /\ s \in pending'[e]
    BY <1>1, <1>10 DEF ReconcileList, linkVars, hubVars
  <2> QED BY <1>2, <1>5, <2>1 DEF Reaches
<1>11. ASSUME NEW t \in Sessions, ReconcileExpire(d, t) PROVE Reaches(s, c)'
  <2>1. /\ UNCHANGED <<backlog, toServer, sessionWrap, handler>>
        /\ \A e \in Conns : handler[e] = "claiming" /\ s \in pending[e] => s \in pending'[e]
    BY <1>1, <1>11 DEF ReconcileExpire, linkVars, hubVars
  <2> QED BY <1>2, <1>5, <2>1 DEF Reaches
<1>12. CASE ReceiveStarted(d)
  <2> DEFINE t == Head(toServer[d]).session
  <2>1. /\ UNCHANGED <<backlog, handler, pending>> /\ handler[d] \in {"serving", "reconciled"}
        /\ toServer[d] # <<>> /\ Head(toServer[d]).type = "started"
        /\ toServer' = [toServer EXCEPT ![d] = Tail(toServer[d])]
        /\ sessionWrap' = [sessionWrap EXCEPT ![t] = peer[d]]
    BY <1>12 DEF ReceiveStarted, Receives, Reading, AssignSession, handlerVars
  <2>2. peer[d] = Owner[t]
    BY <2>1, FramesOwned DEF Inv, TypeOK, OwnersInv, OfWrapper
  <2>3. sessionWrap'[s] = sessionWrap[s] \/ sessionWrap'[s] = Owner[s]
    BY <1>1, <1>3, <2>1, <2>2
  <2>4. CASE c = d /\ s = t
    <3>1. sessionWrap'[s] = Owner[s] /\ c \notin backlog'
      BY <1>1, <1>3, <1>6, <2>1, <2>2, <2>4
    <3> QED BY <3>1 DEF Reaches
  <2>5. CASE ~(c = d /\ s = t)
    <3>1. Mentions(toServer[c], s) => Mentions(toServer'[c], s)
      <4>1. CASE c = d
        <5>1. toServer[c] \in Seq(WrapperFrame) /\ toServer'[c] = Tail(toServer[c])
          BY <1>1, <2>1, <4>1
        <5> QED BY <2>1, <2>5, <4>1, <5>1, QueueSays
      <4>2. CASE c # d
        BY <1>1, <2>1, <4>2
      <4> QED BY <4>1, <4>2
    <3> QED BY <1>2, <1>5, <2>1, <2>3, <3>1 DEF Reaches
  <2> QED BY <2>4, <2>5
<1>13. CASE ReceiveExited(d)
  <2>1. /\ UNCHANGED <<backlog, handler, pending, sessionWrap>>
        /\ toServer[d] # <<>> /\ Head(toServer[d]).type = "exited"
        /\ toServer' = [toServer EXCEPT ![d] = Tail(toServer[d])]
    BY <1>13 DEF ReceiveExited, Receives, handlerVars, hubVars
  <2>2. Mentions(toServer[c], s) => Mentions(toServer'[c], s)
    <3>1. CASE c = d
      <4>1. toServer[c] \in Seq(WrapperFrame) /\ toServer'[c] = Tail(toServer[c])
        BY <1>1, <2>1, <3>1
      <4> QED BY <2>1, <3>1, <4>1, QueueSays
    <3>2. CASE c # d
      BY <1>1, <2>1, <3>2
    <3> QED BY <3>1, <3>2
  <2> QED BY <1>2, <1>5, <2>1, <2>2 DEF Reaches
<1>14. CASE Unregister(d)
  <2>1. /\ UNCHANGED <<backlog, pending>> /\ link[d] = "down"
        /\ handler' = [handler EXCEPT ![d] = "left"] /\ c \notin Unregistered(peer[d])
        /\ sessionWrap' = [u \in Sessions |->
                             IF sessionWrap[u] = peer[d] THEN NoWrapper ELSE sessionWrap[u]]
    BY <1>14 DEF Unregister, UnregisterWrapper, ServerCloses, Down
  <2>2. toServer'[c] = toServer[c]
    BY <1>1, <1>14, <2>1 DEF Unregister, ServerCloses
  <2>3. handler'[c] = handler[c]
    BY <1>1, <1>4, <2>1
  <2>4. c \notin backlog => wrappers[Owner[s]] = c
    BY <1>6
  <2>5. c \notin backlog => peer[d] # Owner[s]
    BY <1>1, <2>1, <2>4 DEF Unregistered
  <2>6. c \notin backlog /\ sessionWrap[s] = Owner[s] => sessionWrap'[s] = Owner[s]
    BY <1>3, <2>1, <2>5
  <2> QED BY <1>2, <1>5, <2>1, <2>2, <2>3, <2>6 DEF Reaches
<1>15. CASE MarkOffline(d)
  <2>1. /\ handler[d] = "left" /\ UNCHANGED <<backlog, pending, sessionWrap>>
        /\ handler' = [handler EXCEPT ![d] = "none"]
        /\ toServer' = [toServer EXCEPT ![d] = <<>>]
    BY <1>15 DEF MarkOffline, hubVars
  <2>2. c # d
    BY <1>6, <2>1
  <2>3. handler'[c] = handler[c] /\ toServer'[c] = toServer[c]
    BY <1>1, <2>1, <2>2
  <2> QED BY <1>2, <1>5, <2>1, <2>3 DEF Reaches
<1> QED
  BY <1>7, <1>8, <1>9, <1>10, <1>11, <1>12, <1>13, <1>14, <1>15 DEF Handler, HandlerStep

\* A request that forgets a route leaves a close_session on its way, unless
\* the wrapper's connection is not up.
LEMMA ReachApi ==
  ASSUME Inv, OwnersInv, ServingInv, ReachInv, NEW t \in Sessions, Api(t)
  PROVE  ReachInv'
<1>1. /\ toWrapper \in [Conns -> Seq(ServerFrame)] /\ link \in [Conns -> {"up", "down"}]
      /\ sessionWrap \in [Sessions -> Wrappers \cup {NoWrapper}]
      /\ client \in [Wrappers -> Conns \cup {NoConn}] /\ NoConn \notin Conns
      /\ table \in SUBSET Sessions /\ \A s \in Sessions : Owner[s] \in Wrappers
      /\ NoWrapper \notin Wrappers
  BY DeploymentAssumption DEF Inv, TypeOK, LinkTypeOK, HubTypeOK, ClientTypeOK, SupTypeOK
<1>2. UNCHANGED <<table, events, dropped, client, hand, link, backlog, toServer, handler, pending>>
  BY DEF Api, supVars, clientVars, handlerVars, ApiStep, CreateInsert, OpenSession, SendOpen,
     FailCreate, Delete, linkVars
<1> SUFFICES ASSUME NEW s \in table \ dropped, NEW c \in Conns,
                    c = client[Owner[s]], link[c] = "up", hand[c] # Failed
             PROVE  Reaches(s, c)'
  BY <1>2 DEF ReachInv
<1>3. Reaches(s, c) /\ s \in Sessions /\ Owner[s] \in Wrappers /\ client[Owner[s]] # NoConn
  BY <1>1 DEF ReachInv
<1>4. c \notin backlog => wrappers[Owner[s]] = c
  BY <1>3 DEF ServingInv
<1>5. ASSUME NEW f \in ServerFrame, NEW k, WriteToWrapper(k, f)
      PROVE  Closes(toWrapper[c], s) => Closes(toWrapper'[c], s)
  <2>1. toWrapper'[c] = toWrapper[c] \/ toWrapper'[c] = Append(toWrapper[c], f)
    BY <1>1, <1>5 DEF WriteToWrapper
  <2>2. toWrapper[c] \in Seq(ServerFrame)
    BY <1>1
  <2>3. Closes(toWrapper[c], s) => Closes(Append(toWrapper[c], f), s)
    BY <2>2, QueueSays
  <2> QED BY <2>1, <2>3
<1>6. CloseFrame(t) \in ServerFrame /\ [type |-> "open", session |-> t] \in ServerFrame
  BY DEF CloseFrame, ServerFrame
<1>7. CASE CreateInsert(t) \/ FailCreate(t)
  <2>1. UNCHANGED <<toWrapper, sessionWrap>>
    BY <1>7 DEF CreateInsert, FailCreate, linkVars, hubVars
  <2> QED BY <1>2, <1>3, <2>1 DEF Reaches
<1>8. CASE OpenSession(t)
  <2>1. toWrapper' = toWrapper /\ (sessionWrap[s] = Owner[s] => sessionWrap'[s] = Owner[s])
    BY <1>1, <1>3, <1>8 DEF OpenSession, AssignSession, hubVars, linkVars
  <2> QED BY <1>2, <1>3, <2>1 DEF Reaches
<1>9. CASE SendOpen(t)
  <2>1. sessionWrap' = sessionWrap /\ (Closes(toWrapper[c], s) => Closes(toWrapper'[c], s))
    BY <1>5, <1>6, <1>9 DEF SendOpen, hubVars
  <2> QED BY <1>2, <1>3, <2>1 DEF Reaches
<1>10. CASE Delete(t)
  <2>1. Closes(toWrapper[c], s) => Closes(toWrapper'[c], s)
    <3>1. \/ toWrapper' = toWrapper
          \/ \E k : WriteToWrapper(k, CloseFrame(t))
      BY <1>10 DEF Delete, CloseFrame
    <3> QED BY <1>5, <1>6, <3>1
  <2>2. CASE s = t /\ sessionWrap[s] = Owner[s] /\ c \notin backlog
    <3>1. WriteToWrapper(c, CloseFrame(s))
      BY <1>1, <1>3, <1>4, <1>10, <2>2 DEF Delete, WrapperOnline, CloseFrame
    <3>2. toWrapper'[c] = Append(toWrapper[c], CloseFrame(s))
      BY <1>1, <3>1 DEF WriteToWrapper
    <3>3. toWrapper[c] \in Seq(ServerFrame) /\ CloseFrame(s) \in ServerFrame
      BY <1>1, <1>6, <2>2
    <3>4. Closes(toWrapper'[c], s)
      BY <3>2, <3>3, QueueSays
    <3> QED BY <3>4 DEF Reaches
  <2>3. CASE ~(s = t /\ sessionWrap[s] = Owner[s] /\ c \notin backlog)
    <3>1. s # t => sessionWrap'[s] = sessionWrap[s]
      BY <1>1, <1>3, <1>10 DEF Delete, ForgetSession, AssignSession, hubVars
    <3> QED BY <1>2, <1>3, <2>1, <2>3, <3>1 DEF Reaches
  <2> QED BY <2>2, <2>3
<1> QED BY <1>7, <1>8, <1>9, <1>10 DEF Api, ApiStep

LEMMA ReachRestart ==
  ASSUME TypeOK, OwnersInv, ReachInv, NEW w \in Wrappers, WrapperRestart(w)
  PROVE  ReachInv'
<1>1. /\ hand \in [Conns -> Hand] /\ link \in [Conns -> {"up", "down"}]
      /\ client \in [Wrappers -> Conns \cup {NoConn}] /\ NoConn \notin Conns
      /\ events \in [Wrappers -> Seq(Event)] /\ toWrapper \in [Conns -> Seq(ServerFrame)]
      /\ table \in SUBSET Sessions /\ \A s \in Sessions : Owner[s] \in Wrappers
  BY DeploymentAssumption DEF TypeOK, LinkTypeOK, ClientTypeOK, SupTypeOK
<1>2. /\ UNCHANGED <<dropped, backlog, toServer, handler, pending, sessionWrap>>
      /\ table' = table \ Snapshot(w) /\ events' = [events EXCEPT ![w] = <<>>]
      /\ client' = [client EXCEPT ![w] = NoConn]
      /\ hand' = [d \in Conns |-> IF peer[d] = w THEN Idle ELSE hand[d]]
      /\ toWrapper' = [d \in Conns |-> IF d = client[w] THEN <<>> ELSE toWrapper[d]]
      /\ \A d \in Conns : link'[d] \in {link[d], "down"}
  BY <1>1 DEF WrapperRestart, WrapperCrash, SupervisorDies, Leave, Down, hubVars, handlerVars
<1> SUFFICES ASSUME NEW s \in (table \ Snapshot(w)) \ dropped, NEW c \in Conns,
                    c = client'[Owner[s]], link'[c] = "up", hand'[c] # Failed
             PROVE  Reaches(s, c)'
  BY <1>2 DEF ReachInv
<1>3. s \in Sessions /\ Owner[s] \in Wrappers /\ Owner[s] # w
  BY <1>1 DEF Snapshot
<1>4. c = client[Owner[s]] /\ link[c] = "up"
  BY <1>1, <1>2, <1>3
<1>5. \A v \in Wrappers : client[v] # NoConn => peer[client[v]] = v
  BY DEF OwnersInv, ClientOwners
<1>6. peer[c] = Owner[s] /\ c # client[w]
  BY <1>1, <1>3, <1>4, <1>5
<1>7. hand'[c] = hand[c] /\ toWrapper'[c] = toWrapper[c] /\ events'[Owner[s]] = events[Owner[s]]
  BY <1>1, <1>2, <1>3, <1>6
<1>8. \A d \in Conns : hand[d] = Opened(s) => hand'[d] = Opened(s)
  <2> SUFFICES ASSUME NEW d \in Conns, hand[d] = Opened(s) PROVE hand'[d] = Opened(s)
    OBVIOUS
  <2>1. OfWrapper(hand[d], peer[d])
    BY DEF OwnersInv, ClientOwners
  <2>2. peer[d] = Owner[s]
    BY <2>1 DEF OfWrapper, Opened
  <2> QED BY <1>2, <1>3, <2>2
<1>9. Reaches(s, c)
  BY <1>4, <1>7 DEF ReachInv
<1> QED BY <1>2, <1>7, <1>8, <1>9 DEF Reaches

LEMMA NextReach ==
  ASSUME Inv, OwnersInv, ServingInv, ReachInv, [Next]_vars
  PROVE  ReachInv'
<1>1. TypeOK /\ link \in [Conns -> {"up", "down"}]
  BY DEF Inv, TypeOK, LinkTypeOK
<1>2. ASSUME NEW c \in Conns, NetworkDrop(c) PROVE ReachInv'
  <2>1. /\ UNCHANGED <<table, events, dropped, client, hand, backlog, toServer, toWrapper,
                       handler, pending, sessionWrap>>
        /\ \A d \in Conns : link'[d] \in {link[d], "down"}
    BY <1>1, <1>2 DEF NetworkDrop, Down, supVars, clientVars, handlerVars, hubVars
  <2> QED BY <2>1 DEF ReachInv, Reaches
<1>3. ASSUME ServerRestart PROVE ReachInv'
  <2>1. \A c \in Conns : link'[c] = "down"
    BY <1>3 DEF ServerRestart, HandlersDie, Down
  <2> QED BY <2>1 DEF ReachInv
<1>4. ASSUME UNCHANGED vars PROVE ReachInv'
  <2>1. UNCHANGED <<table, events, dropped, client, hand, link, backlog, toServer, toWrapper,
                    handler, pending, sessionWrap>>
    BY <1>4 DEF vars, supVars, clientVars, linkVars, handlerVars, hubVars
  <2> QED BY <2>1 DEF ReachInv, Reaches
<1> QED
  BY <1>1, <1>2, <1>3, <1>4, ReachConnect, ReachClient, ReachReadLoop, ReachSession,
     ReachHandler, ReachApi, ReachRestart DEF Next

LEMMA InitRoute == ASSUME Init PROVE RouteInv
<1>1. OwnersInv
  BY DEF Init, LinkInit, SupInit, ClientInit, HubInit, HandlerInit, ApiInit, OwnersInv,
     ClientOwners, ServerOwners, LinkOwners, OwnedBy, OfWrapper, Idle
<1>2. ServingInv /\ ReachInv
  BY DEF Init, LinkInit, SupInit, ClientInit, ServingInv, ReachInv
<1> QED BY <1>1, <1>2 DEF RouteInv

LEMMA NextRoute ==
  ASSUME Inv, RouteInv, [Next]_vars
  PROVE  RouteInv'
BY NextOwners, NextServing, NextReach DEF RouteInv

\* When a wrapper has settled nothing is on its way: what is left is a route.
LEMMA QuietRoutes ==
  ASSUME Inv, RouteInv, NEW w \in Wrappers, Quiet(w), NEW s \in Snapshot(w) \ dropped
  PROVE  sessionWrap[s] = w
<1> DEFINE c == wrappers[w]
<1>1. /\ s \in table \ dropped /\ Owner[s] = w /\ c \in Conns
      /\ client[w] = c /\ link[c] = "up"
  BY DEF Snapshot, Quiet, WrapperOnline, Inv, TypeOK, HubTypeOK
<1>2. /\ handler[c] # "claiming" /\ toServer[c] = <<>> /\ toWrapper[c] = <<>> /\ events[w] = <<>>
      /\ \A d \in Conns : peer[d] = w => hand[d] = Idle
  BY DEF Quiet
<1>3. peer[c] = w
  BY DEF Quiet, Inv, RegisteredIsServing
<1>4. Idle # Failed /\ Idle # Opened(s) /\ Idle # CloseFrame(s)
  BY DEF Idle, Failed, Opened, CloseFrame
<1>5. Reaches(s, c)
  BY <1>1, <1>2, <1>3, <1>4 DEF RouteInv, ReachInv
<1>6. \A d \in Conns : hand[d] # Opened(s)
  <2> SUFFICES ASSUME NEW d \in Conns, hand[d] = Opened(s) PROVE FALSE
    OBVIOUS
  <2>1. OfWrapper(hand[d], peer[d])
    BY DEF RouteInv, OwnersInv, ClientOwners
  <2>2. peer[d] = w
    BY <1>1, <2>1 DEF OfWrapper, Opened
  <2> QED BY <1>2, <1>4, <2>2
<1>7. ~Mentions(<<>>, s) /\ ~Closes(<<>>, s)
  BY DEF Mentions, Closes
<1> QED BY <1>1, <1>2, <1>3, <1>4, <1>5, <1>6, <1>7 DEF Reaches

\* Once a wrapper and the server have settled, the hub routes every session of
\* the wrapper's table, except those whose started event found the channel full.
THEOREM SettledAreRouted == Spec => []SettledRoutes
<1>1. Inv /\ RouteInv => SettledRoutes
  BY QuietRoutes DEF SettledRoutes
<1> QED BY <1>1, InitInv, NextInv, InitRoute, NextRoute, PTL DEF Spec

=============================================================================
