----------------------------- MODULE SearchHub -----------------------------
(***************************************************************************)
(* Transcript search (internal/searchhub/searchhub.go): a request at       *)
(* POST /api/search fans out to wrappers through the hub, each wrapper     *)
(* searches in a goroutine of its own and writes search.results, and the   *)
(* dispatch gathers them until none is missing or its timer fires. The     *)
(* wrapper list comes from the request, which may name a wrapper twice.    *)
(***************************************************************************)
EXTENDS Naturals, FiniteSets, Sequences, SequencesExt

CONSTANTS
  Wrappers,
  Requests,    \* request ids; a ULID each
  Targets,     \* Targets[r]: the wrapper ids the request fans out to
  NoRequest,   \* a read loop that carries no result
  MaxDrops     \* bound: connections lost, in all

ASSUME SearchAssumption ==
  /\ Targets \in [Requests -> Seq(Wrappers)]
  /\ NoRequest \notin Requests
  /\ MaxDrops \in Nat

VARIABLES
  online,      \* online[w]: the hub holds a connection of w
  asked,       \* asked[w][r]: searches for r under way at w
  carrying,    \* carrying[w]: Deliver on the read loop of w, past the lookup
  phase,       \* phase[r]: Dispatch, "sending" and "waiting" while registered
  sent,        \* sent[r]: how many of Targets[r] have been sent to
  expected,    \* expected[r]: the awaiter's wrappers still waited for
  results,     \* results[r]: the awaiter's channel
  byWrapper,   \* byWrapper[r][w]: Response.ByWrapper; "none" when absent
  found,       \* found[r][w]: results of w appended to Response.Matches
  drops        \* connections lost so far

netVars == <<online, asked, drops>>
hubVars == <<phase, sent, expected, results, byWrapper, found>>
vars == <<netVars, carrying, hubVars>>

SearchTypeOK ==
  /\ online \in [Wrappers -> BOOLEAN]
  /\ asked \in [Wrappers -> [Requests -> Nat]]
  /\ carrying \in [Wrappers -> Requests \cup {NoRequest}]
  /\ phase \in [Requests -> {"idle", "sending", "waiting", "answered"}]
  /\ sent \in [Requests -> Nat]
  /\ expected \in [Requests -> SUBSET Wrappers]
  /\ results \in [Requests -> Seq(Wrappers)]
  /\ \A r \in Requests : sent[r] <= Len(Targets[r]) /\ Len(results[r]) <= Len(Targets[r])
  /\ byWrapper \in [Requests ->
                     [Wrappers -> {"none", "ok", "offline", "error", "timeout"}]]
  /\ found \in [Requests -> [Wrappers -> Nat]]
  /\ drops \in 0..MaxDrops

Init ==
  /\ online \in [Wrappers -> BOOLEAN]
  /\ asked = [w \in Wrappers |-> [r \in Requests |-> 0]]
  /\ carrying = [w \in Wrappers |-> NoRequest]
  /\ phase = [r \in Requests |-> "idle"]
  /\ sent = [r \in Requests |-> 0]
  /\ expected = [r \in Requests |-> {}]
  /\ results = [r \in Requests |-> <<>>]
  /\ byWrapper = [r \in Requests |-> [w \in Wrappers |-> "none"]]
  /\ found = [r \in Requests |-> [w \in Wrappers |-> 0]]
  /\ drops = 0

Registered(r) == phase[r] \in {"sending", "waiting"}

-----------------------------------------------------------------------------
Dispatch(r) ==
  /\ phase[r] = "idle"
  /\ phase' = [phase EXCEPT ![r] = "sending"]
  /\ expected' = [expected EXCEPT ![r] = ToSet(Targets[r])]
  /\ UNCHANGED <<netVars, carrying, sent, results, byWrapper, found>>

\* An error of the sender. hub.ErrWrapperOffline is not
\* searchhub.ErrWrapperOffline, so a wrapper that is not connected is "error".
SendFails(r, w) ==
  /\ expected' = [expected EXCEPT ![r] = @ \ {w}]
  /\ byWrapper' = [byWrapper EXCEPT ![r][w] = "error"]
  /\ UNCHANGED asked

\* A write that succeeds reaches the wrapper, or is lost with the connection.
SendSucceeds(r, w) ==
  /\ online[w]
  /\ \/ asked' = [asked EXCEPT ![w][r] = @ + 1]
     \/ UNCHANGED asked
  /\ UNCHANGED <<expected, byWrapper>>

SendTo(r) ==
  LET w == Targets[r][sent[r] + 1] IN
  /\ phase[r] = "sending"
  /\ sent[r] < Len(Targets[r])
  /\ sent' = [sent EXCEPT ![r] = @ + 1]
  /\ SendFails(r, w) \/ SendSucceeds(r, w)
  /\ UNCHANGED <<online, drops, carrying, phase, results, found>>

Wait(r) ==
  /\ phase[r] = "sending"
  /\ sent[r] = Len(Targets[r])
  /\ phase' = [phase EXCEPT ![r] = "waiting"]
  /\ UNCHANGED <<netVars, carrying, sent, expected, results, byWrapper, found>>

Receive(r) ==
  LET w == Head(results[r]) IN
  /\ phase[r] = "waiting"
  /\ expected[r] # {}
  /\ results[r] # <<>>
  /\ results' = [results EXCEPT ![r] = Tail(@)]
  /\ expected' = [expected EXCEPT ![r] = @ \ {w}]
  /\ byWrapper' = [byWrapper EXCEPT ![r][w] = "ok"]
  /\ found' = [found EXCEPT ![r][w] = @ + 1]
  /\ UNCHANGED <<netVars, carrying, phase, sent>>

\* Mutant of TimeOut: a.expected is not reset, and the loop goes on.
TimeOutKeepsWaiting(r) ==
  /\ phase[r] = "waiting"
  /\ expected[r] # {}
  /\ byWrapper' = [byWrapper EXCEPT ![r] =
                     [w \in Wrappers |-> IF w \in expected[r] THEN "timeout" ELSE @[w]]]
  /\ UNCHANGED <<netVars, carrying, phase, sent, expected, results, found>>

\* Mutant of TimeOut: every target is marked, not only those still expected.
TimeOutMarksAll(r) ==
  /\ phase[r] = "waiting"
  /\ expected[r] # {}
  /\ byWrapper' = [byWrapper EXCEPT ![r] =
                     [w \in Wrappers |-> IF w \in ToSet(Targets[r]) THEN "timeout" ELSE @[w]]]
  /\ expected' = [expected EXCEPT ![r] = {}]
  /\ UNCHANGED <<netVars, carrying, phase, sent, results, found>>

\* The timer fires, or the browser gives up and the context is done; a result
\* that is in the channel by then may lose the race of the select.
TimeOut(r) ==
  /\ phase[r] = "waiting"
  /\ expected[r] # {}
  /\ byWrapper' = [byWrapper EXCEPT ![r] =
                     [w \in Wrappers |-> IF w \in expected[r] THEN "timeout" ELSE @[w]]]
  /\ expected' = [expected EXCEPT ![r] = {}]
  /\ UNCHANGED <<netVars, carrying, phase, sent, results, found>>

\* The response is returned and the awaiter is removed from the map.
Answer(r) ==
  /\ phase[r] = "waiting"
  /\ expected[r] = {}
  /\ phase' = [phase EXCEPT ![r] = "answered"]
  /\ UNCHANGED <<netVars, carrying, sent, expected, results, byWrapper, found>>

-----------------------------------------------------------------------------
\* Mutant of DeliverLookup: the wrapper answers the same request again.
DeliverAgain(w, r) ==
  /\ carrying[w] = NoRequest
  /\ asked[w][r] > 0
  /\ carrying' = [carrying EXCEPT ![w] = IF Registered(r) THEN r ELSE NoRequest]
  /\ UNCHANGED <<netVars, hubVars>>

\* A wrapper's results arrive: Deliver looks the awaiter up under the lock ...
DeliverLookup(w, r) ==
  /\ carrying[w] = NoRequest
  /\ asked[w][r] > 0
  /\ asked' = [asked EXCEPT ![w][r] = @ - 1]
  /\ carrying' = [carrying EXCEPT ![w] = IF Registered(r) THEN r ELSE NoRequest]
  /\ UNCHANGED <<online, drops, hubVars>>

\* ... and sends without blocking after unlocking: Dispatch may have returned
\* meanwhile, and a result that finds the channel full is dropped.
DeliverSend(w) ==
  LET r == carrying[w] IN
  /\ r # NoRequest
  /\ results' = [results EXCEPT ![r] =
                   IF Len(@) < Len(Targets[r]) THEN Append(@, w) ELSE @]
  /\ carrying' = [carrying EXCEPT ![w] = NoRequest]
  /\ UNCHANGED <<netVars, phase, sent, expected, byWrapper, found>>

\* A connection is lost, with the searches that were to answer over it.
Disconnect(w) ==
  /\ online[w]
  /\ drops < MaxDrops
  /\ drops' = drops + 1
  /\ online' = [online EXCEPT ![w] = FALSE]
  /\ asked' = [asked EXCEPT ![w] = [r \in Requests |-> 0]]
  /\ UNCHANGED <<carrying, hubVars>>

Reconnect(w) ==
  /\ ~online[w]
  /\ online' = [online EXCEPT ![w] = TRUE]
  /\ UNCHANGED <<asked, drops, carrying, hubVars>>

DispatchStep(r) == SendTo(r) \/ Wait(r) \/ Receive(r) \/ TimeOut(r) \/ Answer(r)

Next ==
  \/ \E r \in Requests : Dispatch(r) \/ DispatchStep(r)
  \/ \E w \in Wrappers :
       \/ \E r \in Requests : DeliverLookup(w, r)
       \/ DeliverSend(w) \/ Disconnect(w) \/ Reconnect(w)

\* The dispatching goroutine runs and its timer fires; no wrapper need answer.
Spec ==
  /\ Init /\ [][Next]_vars
  /\ \A r \in Requests : WF_vars(DispatchStep(r)) /\ WF_vars(TimeOut(r))

-----------------------------------------------------------------------------
\* When a search is answered, every wrapper it was to ask has a status and no
\* other has, and a wrapper is "ok" exactly when results of it are among the
\* matches: no timer, error or late delivery turns a match into a failure.
StatusMatchesResults ==
  \A r \in Requests : phase[r] = "answered" =>
    \A w \in Wrappers :
      /\ (byWrapper[r][w] # "none") = (w \in ToSet(Targets[r]))
      /\ (byWrapper[r][w] = "ok") = (found[r][w] > 0)

\* A result on its way to a dispatch always finds room in the channel, also
\* when a wrapper is named twice, although the send never blocks.
ResultsFit ==
  \A w \in Wrappers : carrying[w] # NoRequest =>
    Len(results[carrying[w]]) < Len(Targets[carrying[w]])

\* A search never reports more results of a wrapper than it asked for.
NoSurplusResults ==
  \A r \in Requests, w \in Wrappers :
    found[r][w] <= Cardinality({i \in 1..sent[r] : Targets[r][i] = w})

\* Every search is answered, if every wrapper is silent too.
SearchAnswered ==
  \A r \in Requests : phase[r] = "sending" ~> phase[r] = "answered"
=============================================================================
