----------------------------- MODULE Supervisor -----------------------------
(***************************************************************************)
(* The wrapper's session supervisor (internal/session/supervisor.go and    *)
(* session.go): the session table, the PTY process of each session, the    *)
(* goroutine that discovers its transcript, and the bounded channel of     *)
(* events the WebSocket client drains. Operations are those of the Go      *)
(* methods; who calls them, and when, is module Lifecycle's.               *)
(***************************************************************************)
EXTENDS Deployment, Naturals, Sequences

CONSTANT EventCap   \* capacity of the events channel (256 in main.go)

ASSUME EventCapAssumption == EventCap \in Nat \ {0}

VARIABLES
  table,     \* Supervisor.sessions: the ids in the session table
  proc,      \* the PTY process; "dead" once CloseWith has run
  discover,  \* discoverAndTail: "no", "watching" for the .jsonl, "done"
  events,    \* events[w]: the channel between supervisor and client
  dropped    \* history: sessions that lost a started event to a full channel

supVars == <<table, proc, discover, events, dropped>>

\* A pty.data event is kept for the room it takes in the channel.
Event ==
  [type : {"started"}, session : Sessions]
    \cup [type : {"exited"}, session : Sessions,
          reason : {"normal", "wrapper_close", "spawn_failed"}]
    \cup [type : {"data"}]

Started(s) == [type |-> "started", session |-> s]
Exited(s, why) == [type |-> "exited", session |-> s, reason |-> why]
Data == [type |-> "data"]

SupTypeOK ==
  /\ table \in SUBSET Sessions
  /\ proc \in [Sessions -> {"none", "alive", "dead"}]
  /\ discover \in [Sessions -> {"no", "watching", "done"}]
  /\ events \in [Wrappers -> Seq(Event)]
  /\ dropped \in SUBSET Sessions
  /\ \A w \in Wrappers : Len(events[w]) <= EventCap

SupInit ==
  /\ table = {}
  /\ proc = [s \in Sessions |-> "none"]
  /\ discover = [s \in Sessions |-> "no"]
  /\ events = [w \in Wrappers |-> <<>>]
  /\ dropped = {}

Snapshot(w) == {s \in table : Owner[s] = w}

\* Mutant of Emit: the channel is treated as unbounded.
EmitUnbounded(w, e) ==
  /\ events' = [events EXCEPT ![w] = Append(@, e)]
  /\ UNCHANGED dropped

\* A send that never blocks: an event that finds the channel full is dropped.
Emit(w, e) ==
  IF Len(events[w]) < EventCap
  THEN /\ events' = [events EXCEPT ![w] = Append(@, e)]
       /\ UNCHANGED dropped
  ELSE /\ dropped' = IF e.type = "started" THEN dropped \cup {e.session} ELSE dropped
       /\ UNCHANGED events

\* Open up to `s.mu.Unlock(); go s.reader(...)`: from here the process can
\* already exit, and be seen by Snapshot, although started is not emitted.
OpenInsert(s) ==
  /\ s \notin table
  /\ table' = table \cup {s}
  /\ proc' = [proc EXCEPT ![s] = "alive"]
  /\ UNCHANGED <<discover, events, dropped>>

\* Mutant of OpenSpawnFailed: started is announced before the spawn is known.
OpenSpawnFailedAnnounced(s) ==
  /\ s \notin table
  /\ Emit(Owner[s], Started(s))
  /\ UNCHANGED <<table, proc, discover>>

OpenSpawnFailed(s) ==
  /\ s \notin table
  /\ Emit(Owner[s], Exited(s, "spawn_failed"))
  /\ UNCHANGED <<table, proc, discover>>

\* The rest of Open: emit started, then go discoverAndTail.
OpenAnnounce(s) ==
  /\ Emit(Owner[s], Started(s))
  /\ discover' = [discover EXCEPT ![s] = "watching"]
  /\ UNCHANGED <<table, proc>>

\* CloseWith, under sync.Once: only the first call closes and emits.
CloseWith(s, why) ==
  IF proc[s] = "alive"
  THEN /\ proc' = [proc EXCEPT ![s] = "dead"]
       /\ Emit(Owner[s], Exited(s, why))
  ELSE UNCHANGED <<proc, events, dropped>>

CloseKnown(s) ==
  /\ s \in table
  /\ table' = table \ {s}
  /\ CloseWith(s, "wrapper_close")
  /\ UNCHANGED discover

\* The reader sees EOF: CloseWith("normal"). The table keeps the entry.
ProcessExits(s) ==
  /\ proc[s] = "alive"
  /\ CloseWith(s, "normal")
  /\ UNCHANGED <<table, discover>>

\* discoverAndTail finds a .jsonl: a second started event, with the UUID. It
\* watches under the connection loop's context, not the session's lifetime.
JSONLFound(s) ==
  /\ discover[s] = "watching"
  /\ discover' = [discover EXCEPT ![s] = "done"]
  /\ Emit(Owner[s], Started(s))
  /\ UNCHANGED <<table, proc>>

\* A coalesced chunk of PTY output; data that finds no room is dropped.
Output(s) ==
  /\ proc[s] = "alive"
  /\ Emit(Owner[s], Data)
  /\ UNCHANGED <<table, proc, discover>>

\* The wrapper process ends: its children go with it (process group, Job
\* Object), and the table, the channel and the goroutines are memory.
SupervisorDies(w) ==
  /\ table' = table \ Snapshot(w)
  /\ proc' = [s \in Sessions |->
                IF Owner[s] = w /\ proc[s] = "alive" THEN "dead" ELSE proc[s]]
  /\ discover' = [s \in Sessions |-> IF Owner[s] = w THEN "no" ELSE discover[s]]
  /\ events' = [events EXCEPT ![w] = <<>>]
  /\ UNCHANGED dropped
=============================================================================
