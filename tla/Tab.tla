-------------------------------- MODULE Tab --------------------------------
(***************************************************************************)
(* A session's page in one browser tab: useSessionStream.ts (the socket,   *)
(* its reconnection, the effect that is set up again when the session      *)
(* changes), SessionView.tsx, which shows the control frames as toasts,    *)
(* and Terminal.tsx, which is set up once and lives as long as the page.   *)
(* The browser's WebSocket and the server at its other end are external    *)
(* (Stream models the server's side).                                      *)
(***************************************************************************)
EXTENDS Toasts, PtyFrame, FiniteSets

CONSTANTS
  Sessions,     \* sessions the page may show, by ULID
  NoSession,    \* the page is not mounted
  Sockets,      \* bound: sockets not yet closed at a time; recycled
  NoSocket,
  DelaySteps,   \* doublings of the delay until maxDelayMs caps it
  MaxFrames,    \* bound: frames in flight per socket and direction
  MaxTurns      \* bound: navigations, refusals and losses

ASSUME TabAssumption ==
  /\ Sessions \subseteq ULIDs /\ NoSession \notin Sessions
  /\ NoSocket \notin Sockets
  /\ {DelaySteps, MaxFrames, MaxTurns} \subseteq Nat

VARIABLES
  shown,     \* opts.sessionID of the last render, or NoSession
  first,     \* opts.sessionID of the render the terminal was set up in
  sock,      \* sock[k]: a WebSocket, see SocketState
  down, up,  \* frames in flight to the tab and to the server, per socket
  ref,       \* ref.current
  timer,     \* the retry timer is pending
  attempts,  \* closes since the last open, up to DelaySteps
  status,    \* what the header of the page says
  term,      \* the sessions whose output the terminal shows
  arrived,   \* history: what was typed, where, and which process got it
  turns

sockVars == <<sock, down, up>>
hookVars == <<ref, timer, attempts, status>>
vars == <<toastVars, shown, first, sockVars, hookVars, term, arrived, turns>>

\* What a user types, and what a session prints.
Key == <<42>>
Output == <<7>>

Notices == {"wrapper.offline", "session.exited"}
Typing == [at : Sessions, frame : Seq(Byte)]
\* mine: the effect that made the socket has not been cleaned up; alive: the
\* connection is there (false: refused, lost or closed by the server).
SocketState == [rs : {"closed", "connecting", "open", "closing"}, sid : Sessions \cup {NoSession},
                mine : BOOLEAN, alive : BOOLEAN]
Closed == [rs |-> "closed", sid |-> NoSession, mine |-> FALSE, alive |-> FALSE]

TabTypeOK ==
  /\ shown \in Sessions \cup {NoSession} /\ first \in Sessions \cup {NoSession}
  /\ sock \in [Sockets -> SocketState]
  /\ ref \in Sockets \cup {NoSocket}
  /\ timer \in BOOLEAN
  /\ attempts \in 0..DelaySteps
  /\ status \in {"connecting", "open", "closed"}
  /\ term \in SUBSET Sessions
  /\ turns \in 0..MaxTurns

Init ==
  /\ ToastInit
  /\ shown = NoSession /\ first = NoSession
  /\ sock = [k \in Sockets |-> Closed]
  /\ down = [k \in Sockets |-> <<>>] /\ up = [k \in Sockets |-> <<>>]
  /\ ref = NoSocket /\ timer = FALSE /\ attempts = 0 /\ status = "connecting"
  /\ term = {} /\ arrived = {} /\ turns = 0

Turn == turns < MaxTurns /\ turns' = turns + 1

Live(k) == sock[k].rs \in {"connecting", "open"}

-----------------------------------------------------------------------------
\* The sockets after the clean-up of the effect: stopped is set for all that
\* it made, ref.current?.close() for the last of them.
CleanedUp ==
  [k \in Sockets |->
     IF k = ref /\ Live(k) THEN [sock[k] EXCEPT !.rs = "closing", !.mine = FALSE]
                           ELSE [sock[k] EXCEPT !.mine = FALSE]]

\* connect(), for session s, with the other sockets as in others.
Connect(s, others) ==
  \E k \in Sockets :
    /\ sock[k].rs = "closed"
    /\ sock' = [others EXCEPT ![k] = [rs |-> "connecting", sid |-> s, mine |-> TRUE, alive |-> TRUE]]
    /\ ref' = k
    /\ status' = "connecting"
    /\ UNCHANGED <<down, up>>

\* The page is mounted: a terminal, and a first connection.
Mount(s) ==
  /\ Turn
  /\ shown = NoSession
  /\ shown' = s /\ first' = s
  /\ Connect(s, sock)
  /\ timer' = FALSE /\ attempts' = 0 /\ term' = {}
  /\ UNCHANGED <<toastVars, arrived>>

\* Mutant of Switch: the effect does not depend on the session.
SwitchNoEffect(s) ==
  /\ Turn
  /\ shown \notin {NoSession, s}
  /\ shown' = s
  /\ UNCHANGED <<toastVars, first, sockVars, hookVars, term, arrived>>

\* /sessions/$id with another id renders the same page: the effect is cleaned
\* up and set up again. The terminal is not, and keeps what it shows.
Switch(s) ==
  /\ Turn
  /\ shown \notin {NoSession, s}
  /\ shown' = s
  /\ Connect(s, CleanedUp)
  /\ timer' = FALSE /\ attempts' = 0
  /\ UNCHANGED <<toastVars, first, term, arrived>>

Unmount ==
  /\ Turn
  /\ shown # NoSession
  /\ shown' = NoSession /\ first' = NoSession
  /\ sock' = CleanedUp
  /\ ref' = NoSocket /\ timer' = FALSE /\ attempts' = 0 /\ status' = "connecting"
  /\ term' = {}
  /\ UNCHANGED <<toastVars, down, up, arrived>>

-----------------------------------------------------------------------------
\* The browser's events, handled by the hook.
OnOpen(k) ==
  /\ sock[k].rs = "connecting" /\ sock[k].alive
  /\ sock' = [sock EXCEPT ![k].rs = "open"]
  /\ attempts' = 0 /\ status' = "open"
  /\ UNCHANGED <<toastVars, shown, first, down, up, ref, timer, term, arrived, turns>>

\* SessionView's onControl: two types make a toast, the rest is ignored.
OnControl(type) == IF type \in Notices THEN AddToast ELSE UNCHANGED toastVars

\* A frame that does not decode is ignored. No message is delivered once
\* close() has been called.
OnMessage(k) ==
  /\ sock[k].rs = "open" /\ down[k] # <<>>
  /\ down' = [down EXCEPT ![k] = Tail(@)]
  /\ LET m == Head(down[k])
     IN  IF m.type = "pty.data"
         THEN /\ term' = IF Decodable(m.frame) THEN term \cup {sock[k].sid} ELSE term
              /\ UNCHANGED toastVars
         ELSE OnControl(m.type) /\ UNCHANGED term
  /\ UNCHANGED <<shown, first, sock, up, hookVars, arrived, turns>>

\* The close event: at once after close(), else when the connection is gone and
\* what the server had sent is delivered. onerror only calls close(), which the
\* event follows in any case.
CloseEvent(k) ==
  /\ \/ sock[k].rs = "closing"
     \/ Live(k) /\ ~sock[k].alive /\ down[k] = <<>>
  /\ sock' = [sock EXCEPT ![k] = Closed]
  /\ down' = [down EXCEPT ![k] = <<>>] /\ up' = [up EXCEPT ![k] = <<>>]
  /\ UNCHANGED <<toastVars, shown, first, ref, term, arrived, turns>>

Backoff == IF attempts < DelaySteps THEN attempts + 1 ELSE attempts

\* Mutant of OnClose: the flag of the effect is not looked at.
OnCloseOfAny(k) ==
  /\ CloseEvent(k)
  /\ IF shown # NoSession
     THEN status' = "closed" /\ timer' = TRUE /\ attempts' = Backoff
     ELSE UNCHANGED <<status, timer, attempts>>

\* Mutant of OnClose: a connection that was never open is not retried.
OnCloseIfOpened(k) ==
  /\ CloseEvent(k)
  /\ IF sock[k].mine
     THEN status' = "closed" /\ timer' = (sock[k].rs = "open") /\ attempts' = Backoff
     ELSE UNCHANGED <<status, timer, attempts>>

OnClose(k) ==
  /\ CloseEvent(k)
  /\ IF sock[k].mine
     THEN status' = "closed" /\ timer' = TRUE /\ attempts' = Backoff
     ELSE UNCHANGED <<status, timer, attempts>>

\* The timer: connect() for the session of this effect.
Retry ==
  /\ timer
  /\ timer' = FALSE
  /\ Connect(shown, sock)
  /\ UNCHANGED <<toastVars, shown, first, attempts, term, arrived, turns>>

\* The terminal's onData calls the write of its first render, which shares the
\* ref: a frame that names the first session, on the socket of the shown one.
Write ==
  /\ ref # NoSocket /\ sock[ref].rs = "open"
  /\ Len(up[ref]) < MaxFrames
  /\ up' = [up EXCEPT ![ref] = Append(@, [at |-> shown, frame |-> EncodePTYData(first, Key)])]
  /\ UNCHANGED <<toastVars, shown, first, sock, down, hookVars, term, arrived, turns>>

-----------------------------------------------------------------------------
\* The server at the other end of the socket of a session (wsbrowser.go).
\* What it writes to a socket that is closing is never seen.
Send(k, m) ==
  /\ sock[k].rs = "open" /\ sock[k].alive
  /\ Len(down[k]) < MaxFrames
  /\ down' = [down EXCEPT ![k] = Append(@, m)]
  /\ UNCHANGED <<toastVars, shown, first, sock, up, hookVars, term, arrived, turns>>

SendPTYData(k) == Send(k, [type |-> "pty.data", frame |-> EncodePTYData(sock[k].sid, Output)])

\* Bound: no more notices than MaxToasts, the ones in flight included.
SendControl(k, type) ==
  /\ count + Cardinality({x \in Sockets \X (1..MaxFrames) :
                            x[2] <= Len(down[x[1]]) /\ down[x[1]][x[2]].type # "pty.data"}) < MaxToasts
  /\ Send(k, [type |-> type, frame |-> <<>>])

\* Input is routed by the session of the URL; the one in the frame is ignored.
Receive(k) ==
  /\ up[k] # <<>> /\ sock[k].alive
  /\ up' = [up EXCEPT ![k] = Tail(@)]
  /\ LET m == Head(up[k])  d == DecodePTYData(m.frame)
     IN  arrived' = IF Decodable(m.frame)
                    THEN arrived \cup {[at |-> m.at, to |-> sock[k].sid,
                                        named |-> d.session, keys |-> d.payload]}
                    ELSE arrived
  /\ UNCHANGED <<toastVars, shown, first, sock, down, hookVars, term, turns>>

\* The server refuses or closes the connection (n is all of down), or it is
\* lost with what was in flight.
Lose(k) ==
  /\ Turn
  /\ sock[k].alive
  /\ sock' = [sock EXCEPT ![k].alive = FALSE]
  /\ \E n \in 0..Len(down[k]) : down' = [down EXCEPT ![k] = SubSeq(@, 1, n)]
  /\ up' = [up EXCEPT ![k] = <<>>]
  /\ UNCHANGED <<toastVars, shown, first, hookVars, term, arrived>>

Toasting == ToastStep /\ UNCHANGED <<shown, first, sockVars, hookVars, term, arrived, turns>>

Next ==
  \/ \E s \in Sessions : Mount(s) \/ Switch(s)
  \/ Unmount \/ Retry \/ Write \/ Toasting
  \/ \E k \in Sockets : \/ OnOpen(k) \/ OnMessage(k) \/ OnClose(k)
                        \/ SendPTYData(k) \/ Receive(k) \/ Lose(k)
                        \/ \E type \in Notices : SendControl(k, type)

\* The browser's event loop and the timer. Opening is fair because a refusal
\* is a turn: the server answers a connection in one way or the other.
Fairness ==
  /\ WF_vars(Retry)
  /\ \A k \in Sockets : WF_vars(OnOpen(k)) /\ WF_vars(OnMessage(k)) /\ WF_vars(OnClose(k))

Spec == Init /\ [][Next]_vars /\ Fairness

-----------------------------------------------------------------------------
(* However fast the user changes sessions and whatever closes late, the    *)
(* tab has at most one connection that is up or coming up: that of the     *)
(* session it shows, the one write() uses, and no timer is about to make   *)
(* another (useSessionStream.ts, stopped, timer and ref).                  *)
OneLiveSocket ==
  \A k \in Sockets : Live(k) => shown # NoSession /\ sock[k].sid = shown /\ k = ref /\ ~timer

(* A page that is shown always has a connection or a timer that will make  *)
(* one, and its header says which (useSessionStream.ts, status).           *)
NeverStuck ==
  shown # NoSession =>
    \/ status = "closed" /\ timer
    \/ ref # NoSocket /\ Live(ref) /\ status = sock[ref].rs

(* What is typed reaches the process of the session that was shown when it *)
(* was typed, whole, in a frame that names a session this page has shown,  *)
(* although the terminal keeps the callbacks of its first render           *)
(* (Terminal.tsx:43-45; useSessionStream.ts, write).                       *)
InputReachesShown ==
  \A a \in arrived : a.to = a.at /\ a.keys = Key /\ a.named \in Sessions

(* Once the user and the network rest, the page is connected or left.      *)
ComesBack == []<>(shown = NoSession \/ status = "open")
=============================================================================
