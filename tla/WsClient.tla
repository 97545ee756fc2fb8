------------------------------ MODULE WsClient ------------------------------
(***************************************************************************)
(* The wrapper's WebSocket client (internal/ws/client.go, reconnect.go)    *)
(* over its supervisor: Run redials forever, runOnce sends hello and then  *)
(* runs two goroutines, the event loop (SendEvent) and readLoop            *)
(* (TakeFrame ... ). readLoop of a dropped connection may still be inside  *)
(* handleControl while the next runOnce is under way.                      *)
(***************************************************************************)
EXTENDS Links, Supervisor

VARIABLES
  client,   \* client[w]: the connection runOnce holds, or NoConn
  hand      \* hand[c]: what readLoop of c has read and not finished handling

clientVars == <<client, hand>>

Hand == [type : {"idle", "failed"}]
          \cup [type : {"open", "opened", "close"}, session : Sessions]

Idle == [type |-> "idle"]
Failed == [type |-> "failed"]
Opened(s) == [type |-> "opened", session |-> s]

ClientTypeOK ==
  /\ client \in [Wrappers -> Conns \cup {NoConn}]
  /\ hand \in [Conns -> Hand]

ClientInit ==
  /\ client = [w \in Wrappers |-> NoConn]
  /\ hand = [c \in Conns |-> Idle]

\* handleControl returned: an error makes readLoop return it to the event
\* loop, if there still is one.
Handled(c) == hand' = [hand EXCEPT ![c] = Idle]
HandledWithError(c) ==
  hand' = [hand EXCEPT ![c] = IF client[peer[c]] = c THEN Failed ELSE Idle]

\* Dial and hello: the snapshot of the table is the first frame written.
Dial(w, c) ==
  /\ client[w] = NoConn
  /\ client' = [client EXCEPT ![w] = c]
  /\ link' = [link EXCEPT ![c] = "up"]
  /\ peer' = [peer EXCEPT ![c] = w]
  /\ backlog' = backlog \cup {c}
  /\ toServer' = [toServer EXCEPT ![c] = <<Hello(Snapshot(w))>>]
  /\ toWrapper' = [toWrapper EXCEPT ![c] = <<>>]
  /\ UNCHANGED <<supVars, hand>>

\* Nobody reads the frames of a connection that the client has left.
Leave(w) ==
  /\ client' = [client EXCEPT ![w] = NoConn]
  /\ toWrapper' = [c \in Conns |-> IF c = client[w] THEN <<>> ELSE toWrapper[c]]

\* runOnce returns, and its deferred CloseNow runs: the connection is seen
\* to be down, or readLoop returned the error of handleControl.
RunOnceReturns(w) ==
  LET c == client[w] IN
  /\ c # NoConn
  /\ link[c] = "down" \/ hand[c] = Failed
  /\ Leave(w)
  /\ Down({c})
  /\ hand' = [hand EXCEPT ![c] = IF @ = Failed THEN Idle ELSE @]
  /\ UNCHANGED <<supVars, peer, backlog, toServer>>

\* The event loop takes an event off the channel, and only then writes it:
\* an event taken while the connection is down is gone. The write may report
\* the error, and runOnce returns, or the socket may accept the bytes.
SendEvent(w) ==
  LET c == client[w]
      e == Head(events[w])
  IN
  /\ c # NoConn
  /\ events[w] # <<>>
  /\ events' = [events EXCEPT ![w] = Tail(@)]
  /\ IF e.type = "data" THEN UNCHANGED toServer ELSE WriteToServer(c, e)
  /\ \/ UNCHANGED <<client, toWrapper>>
     \/ link[c] = "down" /\ hand[c] # Failed /\ Leave(w)
  /\ UNCHANGED <<table, proc, discover, dropped, link, peer, backlog, hand>>

\* readLoop reads the next frame.
TakeFrame(c) ==
  /\ hand[c] = Idle
  /\ toWrapper[c] # <<>>
  /\ \E w \in Wrappers : client[w] = c
  /\ hand' = [hand EXCEPT ![c] = Head(toWrapper[c])]
  /\ toWrapper' = [toWrapper EXCEPT ![c] = Tail(@)]
  /\ UNCHANGED <<supVars, client, link, peer, backlog, toServer>>

\* handleControl on open_session: the process starts (an id is opened once, so
\* ErrSessionExists is out of reach) ...
HandleOpen(c) ==
  /\ hand[c].type = "open"
  /\ OpenInsert(hand[c].session)
  /\ hand' = [hand EXCEPT ![c] = Opened(hand[c].session)]
  /\ UNCHANGED <<linkVars, client>>

\* ... or it does not, and the error of Open takes the connection down.
HandleOpenFails(c) ==
  /\ hand[c].type = "open"
  /\ OpenSpawnFailed(hand[c].session)
  /\ HandledWithError(c)
  /\ UNCHANGED <<linkVars, client>>

FinishOpen(c) ==
  /\ hand[c].type = "opened"
  /\ OpenAnnounce(hand[c].session)
  /\ Handled(c)
  /\ UNCHANGED <<linkVars, client>>

HandleClose(c) ==
  /\ hand[c].type = "close"
  /\ CloseKnown(hand[c].session)
  /\ Handled(c)
  /\ UNCHANGED <<linkVars, client>>

\* ErrSessionNotFound is an error like any other: the connection goes down.
HandleCloseUnknown(c) ==
  /\ hand[c].type = "close"
  /\ hand[c].session \notin table
  /\ HandledWithError(c)
  /\ UNCHANGED <<supVars, linkVars, client>>

\* The supervisor's own goroutines, one set per session.
SessionStep(s) ==
  /\ ProcessExits(s) \/ JSONLFound(s) \/ Output(s)
  /\ UNCHANGED <<linkVars, clientVars>>

ReadLoopStep(c) ==
  \/ TakeFrame(c)
  \/ HandleOpen(c)
  \/ HandleOpenFails(c)
  \/ FinishOpen(c)
  \/ HandleClose(c)
  \/ HandleCloseUnknown(c)

\* The wrapper's daemon crashes or is restarted.
WrapperCrash(w) ==
  /\ SupervisorDies(w)
  /\ Leave(w)
  /\ hand' = [c \in Conns |-> IF peer[c] = w THEN Idle ELSE hand[c]]
  /\ Down({client[w]})
  /\ UNCHANGED <<peer, backlog, toServer>>
=============================================================================
