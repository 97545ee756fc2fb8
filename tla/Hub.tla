-------------------------------- MODULE Hub --------------------------------
(***************************************************************************)
(* The server's in-memory routing tables (internal/hub/hub.go). Each       *)
(* operation below is one critical section of h.mu; what a method does     *)
(* after unlocking (Send, Close) belongs to the module that composes it.   *)
(* Subscribers and replay rings are in module Stream.                      *)
(***************************************************************************)
EXTENDS Deployment

VARIABLES
  wrappers,     \* wrappers[w]: the connection registered for w, or NoConn
  sessionWrap   \* sessionWrap[s]: the wrapper s is routed to, or NoWrapper

hubVars == <<wrappers, sessionWrap>>

HubTypeOK ==
  /\ wrappers \in [Wrappers -> Conns \cup {NoConn}]
  /\ sessionWrap \in [Sessions -> Wrappers \cup {NoWrapper}]

HubInit ==
  /\ wrappers = [w \in Wrappers |-> NoConn]
  /\ sessionWrap = [s \in Sessions |-> NoWrapper]

WrapperOnline(w) == wrappers[w] # NoConn

\* The connection RegisterWrapper closes when c takes over for w.
Displaced(w, c) == {wrappers[w]} \ {c, NoConn}

\* Mutant of RegisterWrapper: the first connection keeps the entry.
RegisterFirst(w, c) ==
  /\ wrappers' = [wrappers EXCEPT ![w] = IF @ = NoConn THEN c ELSE @]
  /\ UNCHANGED sessionWrap

RegisterWrapper(w, c) ==
  /\ wrappers' = [wrappers EXCEPT ![w] = c]
  /\ UNCHANGED sessionWrap

\* UnregisterWrapper takes an id, not a connection: it removes, and then
\* closes, whichever connection is registered under that id by now.
Unregistered(w) == {wrappers[w]} \ {NoConn}

\* Mutant of UnregisterWrapper: the routes go, the connection's entry stays.
UnregisterRoutes(w) ==
  /\ sessionWrap' = [s \in Sessions |->
                       IF sessionWrap[s] = w THEN NoWrapper ELSE sessionWrap[s]]
  /\ UNCHANGED wrappers

UnregisterWrapper(w) ==
  /\ wrappers' = [wrappers EXCEPT ![w] = NoConn]
  /\ sessionWrap' = [s \in Sessions |->
                       IF sessionWrap[s] = w THEN NoWrapper ELSE sessionWrap[s]]

AssignSession(s, w) ==
  /\ sessionWrap' = [sessionWrap EXCEPT ![s] = w]
  /\ UNCHANGED wrappers

ForgetSession(s) == AssignSession(s, NoWrapper)
=============================================================================
