------------------------------- MODULE Links -------------------------------
(***************************************************************************)
(* The WebSocket connections between wrappers and server, as the two ends  *)
(* of this repository use github.com/coder/websocket: a FIFO of frames     *)
(* each way over one TCP connection. A connection that is down carries     *)
(* nothing new; what was already in flight may still be read or may be     *)
(* lost, and each end finds out in its own time.                           *)
(***************************************************************************)
EXTENDS Deployment, Naturals, Sequences

CONSTANT FrameCap   \* bound: frames in flight each way (the socket buffers)

ASSUME FrameCapAssumption == FrameCap \in Nat \ {0}

VARIABLES
  link,       \* link[c]: "up" or "down"
  peer,       \* peer[c]: the wrapper that dialled c last
  backlog,    \* connections dialled whose server handler has not begun
  toServer,   \* toServer[c]: frames in flight from the wrapper
  toWrapper   \* toWrapper[c]: frames in flight from the server

linkVars == <<link, peer, backlog, toServer, toWrapper>>

Hello(live) == [type |-> "hello", live |-> live]

WrapperFrame ==
  [type : {"hello"}, live : SUBSET Sessions]
    \cup [type : {"started"}, session : Sessions]
    \cup [type : {"exited"}, session : Sessions,
          reason : {"normal", "wrapper_close", "spawn_failed"}]

ServerFrame == [type : {"open", "close"}, session : Sessions]

LinkTypeOK ==
  /\ link \in [Conns -> {"up", "down"}]
  /\ peer \in [Conns -> Wrappers \cup {NoWrapper}]
  /\ backlog \in SUBSET Conns
  /\ toServer \in [Conns -> Seq(WrapperFrame)]
  /\ toWrapper \in [Conns -> Seq(ServerFrame)]

LinkInit ==
  /\ link = [c \in Conns |-> "down"]
  /\ peer = [c \in Conns |-> NoWrapper]
  /\ backlog = {}
  /\ toServer = [c \in Conns |-> <<>>]
  /\ toWrapper = [c \in Conns |-> <<>>]

\* The network, or CloseNow on the wrapper's end, takes connections down.
Down(cs) == link' = [c \in Conns |-> IF c \in cs THEN "down" ELSE link[c]]

\* CloseNow on the server's end: the handler of c reads nothing more, and at
\* most finishes the frame that its last Read returned.
ServerCloses(cs) ==
  /\ Down(cs)
  /\ toServer' = [c \in Conns |->
                    IF c \in cs /\ toServer[c] # <<>>
                    THEN <<Head(toServer[c])>> ELSE toServer[c]]

\* A write on a connection that is up is delivered in order; on one that is
\* down it is lost, whether or not the writer gets an error.
WriteToServer(c, f) ==
  IF link[c] = "up"
  THEN /\ Len(toServer[c]) < FrameCap
       /\ toServer' = [toServer EXCEPT ![c] = Append(@, f)]
  ELSE UNCHANGED toServer

WriteToWrapper(c, f) ==
  IF link[c] = "up"
  THEN /\ Len(toWrapper[c]) < FrameCap
       /\ toWrapper' = [toWrapper EXCEPT ![c] = Append(@, f)]
  ELSE UNCHANGED toWrapper
=============================================================================
