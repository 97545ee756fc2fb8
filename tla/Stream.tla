------------------------------- MODULE Stream -------------------------------
(***************************************************************************)
(* The live stream of one session on the server: fan-out of its pty.data   *)
(* from the wrapper handlers to the subscribed browsers and the replay     *)
(* ring (internal/hub/hub.go), the handler of a browser's WebSocket        *)
(* (internal/wsbrowser/wsbrowser.go), and the hook at its other end        *)
(* (web/src/hooks/useSessionStream.ts). Nothing here joins two sessions    *)
(* but the hub's lock. A chunk stands for the bytes of one pty.data frame. *)
(***************************************************************************)
EXTENDS Naturals, Sequences, SequencesExt

CONSTANTS
  Tabs,        \* mounted useSessionStream hooks
  Browsers,    \* browser connections; recycled once both ends are done
  Handlers,    \* wrapper handlers that fan out: one, and its successor
  NoBrowser,   \* a hook that has no socket
  RingCap,     \* bound: chunks that fit in the ring (32 KiB)
  MaxChunks,   \* bound: chunks fanned out, in all
  MaxTurns     \* bound: losses of the wrapper, DELETEs and tabs that go

ASSUME StreamAssumption ==
  /\ NoBrowser \notin Browsers
  /\ RingCap \in Nat \ {0}
  /\ MaxChunks \in Nat
  /\ MaxTurns \in Nat

VARIABLES
  routed,    \* the session has an entry in sessionWrap
  subs,      \* subscribers[session]
  ring,      \* rings[session], as the chunks that are in it
  fan,       \* fan[h]: where FanoutPTYData of handler h is
  fed,       \* chunks fanned out so far
  toClose,   \* browsers that UnregisterWrapper or CloseSession has yet to close
  sock,      \* sock[b]: the WebSocket of b, "open" or "closed"
  serve,     \* serve[b]: where the server's handler of b is
  replay,    \* replay[b]: the snapshot Subscribe returned to it
  got,       \* got[b]: the chunks written to b
  tab,       \* tab[t]: the connection of hook t, or NoBrowser
  turns      \* losses, DELETEs and departures so far

hubVars == <<routed, subs, ring, toClose>>
fanVars == <<fan, fed>>
serveVars == <<sock, serve, replay, got>>
vars == <<hubVars, fanVars, serveVars, tab, turns>>

Chunks == 1..MaxChunks
FanStates == {"idle", "found", "orphan", "written", "sending"}
ServeStates == {"none", "accepted", "start", "data", "end", "live"}

StreamTypeOK ==
  /\ routed \in BOOLEAN
  /\ subs \in SUBSET Browsers
  /\ ring \in Seq(Chunks) /\ Len(ring) <= RingCap
  /\ fan \in [Handlers -> [at : FanStates, chunk : 0..MaxChunks, left : SUBSET Browsers]]
  /\ fed \in 0..MaxChunks
  /\ toClose \in SUBSET Browsers
  /\ sock \in [Browsers -> {"open", "closed"}]
  /\ serve \in [Browsers -> ServeStates]
  /\ replay \in [Browsers -> Seq(Chunks)]
  /\ got \in [Browsers -> SUBSET Chunks]
  /\ tab \in [Tabs -> Browsers \cup {NoBrowser}]
  /\ turns \in 0..MaxTurns

Idle == [at |-> "idle", chunk |-> 0, left |-> {}]

Init ==
  /\ routed \in BOOLEAN
  /\ subs = {} /\ ring = <<>> /\ toClose = {}
  /\ fan = [h \in Handlers |-> Idle] /\ fed = 0
  /\ sock = [b \in Browsers |-> "closed"]
  /\ serve = [b \in Browsers |-> "none"]
  /\ replay = [b \in Browsers |-> <<>>]
  /\ got = [b \in Browsers |-> {}]
  /\ tab = [t \in Tabs |-> NoBrowser]
  /\ turns = 0

-----------------------------------------------------------------------------
\* Fan-out, on a wrapper handler: UpdateRing finds the ring under the lock,
\* writes to it after unlocking, and the subscribers are read after that.
FanoutPTYData(h) ==
  /\ fan[h].at = "idle"
  /\ fed < MaxChunks
  /\ fed' = fed + 1
  /\ fan' = [fan EXCEPT ![h] = [at |-> "found", chunk |-> fed + 1, left |-> {}]]
  /\ UNCHANGED <<hubVars, serveVars, tab, turns>>

\* What the ring holds after a write: the newest chunks that fit.
Pushed(k) ==
  LET all == Append(ring, k)
  IN  SubSeq(all, Len(all) - (IF Len(all) > RingCap THEN RingCap ELSE Len(all)) + 1, Len(all))

\* A ring that CloseSession has taken out of the map is written to in vain.
WriteRing(h) ==
  /\ fan[h].at \in {"found", "orphan"}
  /\ ring' = IF fan[h].at = "found" THEN Pushed(fan[h].chunk) ELSE ring
  /\ fan' = [fan EXCEPT ![h].at = "written"]
  /\ UNCHANGED <<routed, subs, toClose, fed, serveVars, tab, turns>>

ReadSubscribers(h) ==
  /\ fan[h].at = "written"
  /\ fan' = [fan EXCEPT ![h] = IF subs = {} THEN Idle ELSE [@ EXCEPT !.at = "sending", !.left = subs]]
  /\ UNCHANGED <<hubVars, fed, serveVars, tab, turns>>

\* SendPTYData to one of them; a write to a closed socket is lost.
FanoutTo(h, b) ==
  /\ b \in fan[h].left
  /\ fan' = [fan EXCEPT ![h] = IF fan[h].left = {b} THEN Idle
                              ELSE [fan[h] EXCEPT !.left = fan[h].left \ {b}]]
  /\ got' = [got EXCEPT ![b] = IF sock[b] = "open" THEN @ \cup {fan[h].chunk} ELSE @]
  /\ UNCHANGED <<hubVars, fed, sock, serve, replay, tab, turns>>

-----------------------------------------------------------------------------
AssignSession ==
  /\ ~routed
  /\ routed' = TRUE
  /\ UNCHANGED <<subs, ring, toClose, fanVars, serveVars, tab, turns>>

Turn == turns < MaxTurns /\ turns' = turns + 1

\* Mutant of UnregisterWrapper: the subscribers are forgotten, not closed.
UnregisterForgets ==
  /\ Turn
  /\ routed
  /\ routed' = FALSE
  /\ subs' = {}
  /\ UNCHANGED <<ring, toClose, fanVars, serveVars, tab>>

\* The route and the subscribers go under the lock; the ring stays, for the
\* next connection of the wrapper to go on with. The subscribers are told
\* wrapper.offline and closed after the lock is released.
UnregisterWrapper ==
  /\ Turn
  /\ routed
  /\ routed' = FALSE
  /\ toClose' = toClose \cup subs
  /\ subs' = {}
  /\ UNCHANGED <<ring, fanVars, serveVars, tab>>

\* Mutant of CloseSession: the subscribers are closed and stay in the map.
CloseSessionKeepsSubs ==
  /\ Turn
  /\ routed
  /\ routed' = FALSE
  /\ toClose' = toClose \cup subs
  /\ ring' = <<>>
  /\ UNCHANGED <<subs, fanVars, serveVars, tab>>

CloseSession ==
  /\ Turn
  /\ routed
  /\ routed' = FALSE
  /\ toClose' = toClose \cup subs
  /\ subs' = {}
  /\ ring' = <<>>
  /\ fan' = [h \in Handlers |-> IF fan[h].at = "found" THEN [fan[h] EXCEPT !.at = "orphan"] ELSE fan[h]]
  /\ UNCHANGED <<fed, serveVars, tab>>

CloseBrowser(b) ==
  /\ b \in toClose
  /\ toClose' = toClose \ {b}
  /\ sock' = [sock EXCEPT ![b] = "closed"]
  /\ UNCHANGED <<routed, subs, ring, fanVars, serve, replay, got, tab, turns>>

-----------------------------------------------------------------------------
\* The server's handler of a browser connection, once it is authorized.
Refuse(b) ==
  /\ sock' = [sock EXCEPT ![b] = "closed"]
  /\ serve' = [serve EXCEPT ![b] = "none"]
  /\ UNCHANGED <<hubVars, replay>>

Accept(b) ==
  /\ subs' = subs \cup {b}
  /\ replay' = [replay EXCEPT ![b] = ring]
  /\ serve' = [serve EXCEPT ![b] = "start"]
  /\ UNCHANGED <<routed, ring, toClose, sock>>

\* Mutant of Subscribe: only the first subscriber is given the ring.
SubscribeFirstReplays(b) ==
  /\ serve[b] = "accepted"
  /\ IF routed
     THEN /\ subs' = subs \cup {b}
          /\ replay' = [replay EXCEPT ![b] = IF subs = {} THEN ring ELSE <<>>]
          /\ serve' = [serve EXCEPT ![b] = "start"]
          /\ UNCHANGED <<routed, ring, toClose, sock>>
     ELSE Refuse(b)
  /\ UNCHANGED <<fanVars, got, tab, turns>>

\* Mutant of Subscribe: a refused browser is told and left open.
SubscribeLeavesOpen(b) ==
  /\ serve[b] = "accepted"
  /\ IF routed
     THEN Accept(b)
     ELSE serve' = [serve EXCEPT ![b] = "none"] /\ UNCHANGED <<hubVars, replay, sock>>
  /\ UNCHANGED <<fanVars, got, tab, turns>>

\* Under the hub's lock: no route, no subscription.
Subscribe(b) ==
  /\ serve[b] = "accepted"
  /\ IF routed THEN Accept(b) ELSE Refuse(b)
  /\ UNCHANGED <<fanVars, got, tab, turns>>

\* replay.start, the snapshot, replay.end; their errors are ignored.
SendReplay(b) ==
  /\ \/ serve[b] = "start" /\ serve' = [serve EXCEPT ![b] = "data"] /\ UNCHANGED got
     \/ /\ serve[b] = "data"
        /\ serve' = [serve EXCEPT ![b] = "end"]
        /\ got' = [got EXCEPT ![b] = IF sock[b] = "open" THEN @ \cup ToSet(replay[b]) ELSE @]
     \/ serve[b] = "end" /\ serve' = [serve EXCEPT ![b] = "live"] /\ UNCHANGED got
  /\ UNCHANGED <<hubVars, fanVars, sock, replay, tab, turns>>

\* c.Read fails, and the deferred Unsubscribe runs.
Unsubscribe(b) ==
  /\ serve[b] = "live"
  /\ sock[b] = "closed"
  /\ subs' = subs \ {b}
  /\ serve' = [serve EXCEPT ![b] = "none"]
  /\ UNCHANGED <<routed, ring, toClose, fanVars, sock, replay, got, tab, turns>>

-----------------------------------------------------------------------------
\* The hook: a new socket when mounted and whenever its timer fires.
Unused(b) ==
  /\ sock[b] = "closed" /\ serve[b] = "none" /\ b \notin toClose
  /\ \A t \in Tabs : tab[t] # b
  /\ \A h \in Handlers : b \notin fan[h].left

Connect(t) ==
  /\ tab[t] = NoBrowser
  /\ \E b \in Browsers :
       /\ Unused(b)
       /\ tab' = [tab EXCEPT ![t] = b]
       /\ sock' = [sock EXCEPT ![b] = "open"]
       /\ serve' = [serve EXCEPT ![b] = "accepted"]
       /\ replay' = [replay EXCEPT ![b] = <<>>]
       /\ got' = [got EXCEPT ![b] = {}]
  /\ UNCHANGED <<hubVars, fanVars, turns>>

\* onclose: the status is "closed" until the backoff has passed.
OnClose(t) ==
  /\ tab[t] # NoBrowser
  /\ sock[tab[t]] = "closed"
  /\ tab' = [tab EXCEPT ![t] = NoBrowser]
  /\ UNCHANGED <<hubVars, fanVars, serveVars, turns>>

\* The tab navigates away, or its network fails.
Leave(t) ==
  /\ Turn
  /\ tab[t] # NoBrowser
  /\ sock' = [sock EXCEPT ![tab[t]] = "closed"]
  /\ UNCHANGED <<hubVars, fanVars, serve, replay, got, tab>>

-----------------------------------------------------------------------------
FanStep(h) == WriteRing(h) \/ ReadSubscribers(h) \/ \E b \in Browsers : FanoutTo(h, b)
ServeStep(b) == Subscribe(b) \/ SendReplay(b) \/ Unsubscribe(b)
TabStep(t) == Connect(t) \/ OnClose(t)

Next ==
  \/ \E h \in Handlers : FanoutPTYData(h) \/ FanStep(h)
  \/ AssignSession \/ UnregisterWrapper \/ CloseSession
  \/ \E b \in Browsers : CloseBrowser(b) \/ ServeStep(b)
  \/ \E t \in Tabs : TabStep(t) \/ Leave(t)

\* Every goroutine and the hook's timer run; wrappers and users need not act.
Spec ==
  /\ Init /\ [][Next]_vars
  /\ \A h \in Handlers : WF_vars(FanStep(h))
  /\ \A b \in Browsers : WF_vars(CloseBrowser(b)) /\ WF_vars(ServeStep(b))
  /\ \A t \in Tabs : WF_vars(TabStep(t))

-----------------------------------------------------------------------------
\* Only a routed session has subscribers: none waits on a wrapper that is gone.
SubscribersAreRouted == subs # {} => routed

\* An open browser connection past Subscribe gets the stream or is about to be
\* closed: losing the wrapper, or a DELETE, strands none, whatever it races.
NoBrowserStranded ==
  \A b \in Browsers :
    sock[b] = "open" /\ serve[b] \in {"start", "data", "end", "live"} =>
      b \in subs \cup toClose

\* Between the replay and the live stream nothing is lost: an attached browser
\* has been written every chunk in the ring, or a fan-out is about to do it.
NothingMissed ==
  \A b \in subs : serve[b] = "live" /\ sock[b] = "open" =>
    \A k \in ToSet(ring) \ got[b] :
      \E h \in Handlers : fan[h].chunk = k /\ (fan[h].at = "written" \/ b \in fan[h].left)

\* A hook ends up attached to its session if the session stays routed: every
\* connection that was refused or cut off on the way is dialled again.
Reattaches ==
  <>[]routed => \A t \in Tabs :
    <>[](tab[t] \in subs /\ serve[tab[t]] = "live" /\ sock[tab[t]] = "open")
=============================================================================
