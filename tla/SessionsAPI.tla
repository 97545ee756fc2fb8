---------------------------- MODULE SessionsAPI ----------------------------
(***************************************************************************)
(* The HTTP handlers that create and delete sessions                       *)
(* (internal/api/sessions.go), with hub.OpenSession in its halves under    *)
(* and outside the hub's lock, and hub.CloseSession. Create and Resume     *)
(* differ in where cwd and args come from, which nothing here depends on;  *)
(* the request names a wrapper its user owns.                              *)
(***************************************************************************)
EXTENDS Links, Hub, SessionStore

VARIABLES
  create,   \* create[s]: where the POST /api/sessions that mints s is
  sendTo    \* the connection that OpenSession looked up for s

apiVars == <<create, sendTo>>

CreateStates == {"idle", "inserted", "routed", "failed", "answered"}

ApiTypeOK ==
  /\ create \in [Sessions -> CreateStates]
  /\ sendTo \in [Sessions -> Conns \cup {NoConn}]

ApiInit ==
  /\ create = [s \in Sessions |-> "idle"]
  /\ sendTo = [s \in Sessions |-> NoConn]

CreateInsert(s) ==
  /\ create[s] = "idle"
  /\ CreateRow(s)
  /\ create' = [create EXCEPT ![s] = "inserted"]
  /\ UNCHANGED <<linkVars, hubVars, sendTo>>

\* OpenSession under the lock.
OpenSession(s) ==
  LET w == Owner[s] IN
  /\ create[s] = "inserted"
  /\ IF WrapperOnline(w)
     THEN /\ AssignSession(s, w)
          /\ sendTo' = [sendTo EXCEPT ![s] = wrappers[w]]
          /\ create' = [create EXCEPT ![s] = "routed"]
     ELSE /\ create' = [create EXCEPT ![s] = "failed"]
          /\ UNCHANGED <<hubVars, sendTo>>
  /\ UNCHANGED <<linkVars, storeVars>>

\* Mutant of SendOpen: the frame is sent again after a first success.
SendOpenTwice(s) ==
  LET c == sendTo[s] IN
  /\ create[s] = "routed"
  /\ WriteToWrapper(c, [type |-> "open", session |-> s])
  /\ \/ create' = [create EXCEPT ![s] = "answered"]
        /\ sendTo' = [sendTo EXCEPT ![s] = NoConn]
     \/ UNCHANGED <<create, sendTo>>
  /\ UNCHANGED <<storeVars, hubVars, link, peer, backlog, toServer>>

\* Mutant of SendOpen: a send that went out is reported as an error.
SendOpenGivesUp(s) ==
  LET c == sendTo[s] IN
  /\ create[s] = "routed"
  /\ WriteToWrapper(c, [type |-> "open", session |-> s])
  /\ create' = [create EXCEPT ![s] = "failed"]
  /\ sendTo' = [sendTo EXCEPT ![s] = NoConn]
  /\ UNCHANGED <<storeVars, hubVars, link, peer, backlog, toServer>>

\* conn.Send after the lock is released. On a connection that is down the
\* frame is lost, and the write may or may not report it.
SendOpen(s) ==
  LET c == sendTo[s] IN
  /\ create[s] = "routed"
  /\ WriteToWrapper(c, [type |-> "open", session |-> s])
  /\ \/ create' = [create EXCEPT ![s] = "answered"]
     \/ link[c] = "down" /\ create' = [create EXCEPT ![s] = "failed"]
  /\ sendTo' = [sendTo EXCEPT ![s] = NoConn]
  /\ UNCHANGED <<storeVars, hubVars, link, peer, backlog, toServer>>

\* The error path marks the row, under the request's context: if the browser
\* has gone meanwhile the update fails and its error is ignored.
FailCreate(s) ==
  /\ create[s] = "failed"
  /\ MarkExited(s, "spawn_failed") \/ UNCHANGED storeVars
  /\ create' = [create EXCEPT ![s] = "answered"]
  /\ UNCHANGED <<linkVars, hubVars, sendTo>>

\* DELETE: CloseSession does nothing for a session the hub does not route,
\* and ignores the error of Send for one it does; the answer is 204 always.
\* (A connection displaced between lock and Send loses the frame, as one that
\* is down already does.)
Delete(s) ==
  LET w == sessionWrap[s] IN
  /\ RowExists(s)
  /\ IF w = NoWrapper
     THEN UNCHANGED <<hubVars, toWrapper>>
     ELSE /\ ForgetSession(s)
          /\ IF WrapperOnline(w)
             THEN WriteToWrapper(wrappers[w], [type |-> "close", session |-> s])
             ELSE UNCHANGED toWrapper
  /\ UNCHANGED <<storeVars, link, peer, backlog, toServer, create, sendTo>>

ApiStep(s) ==
  \/ CreateInsert(s)
  \/ OpenSession(s)
  \/ SendOpen(s)
  \/ FailCreate(s)
  \/ Delete(s)

\* The requests in progress end with the server process.
RequestsDie ==
  /\ create' = [s \in Sessions |->
                  IF create[s] = "idle" THEN "idle" ELSE "answered"]
  /\ sendTo' = [s \in Sessions |-> NoConn]
=============================================================================
