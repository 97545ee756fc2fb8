-------------------------- MODULE TranscriptProofs --------------------------
(***************************************************************************)
(* Proofs about what concerns the transcripts of many wrappers: SearchHub, *)
(* the search that asks them all, and Catalog, the server's copy of what   *)
(* each has on its disk.                                                   *)
(***************************************************************************)
EXTENDS SearchHub, Catalog, FiniteSetTheorems, SequenceTheorems, TLAPS

(***************************************************************************)
(* The search: the statuses of an answer agree with its matches, and no    *)
(* result is lost or counted twice, for any number of wrappers and         *)
(* requests, wrappers named twice included.                                *)
(***************************************************************************)
Asks(r) == ToSet(Targets[r])

\* Only wrappers that the search names search for it, and only those answer.
OnlyAsked(r) ==
  /\ \A w \in Wrappers : asked[w][r] > 0 \/ carrying[w] = r => w \in Asks(r)
  /\ \A i \in 1..Len(results[r]) : results[r][i] \in Asks(r)

\* What the gathering has come to: a wrapper that is waited for has no status
\* yet, one that is not has one, and the matches are of those that are "ok".
Gathered(r) ==
  /\ phase[r] \in {"idle", "answered"} => expected[r] = {}
  /\ \A w \in Wrappers :
       /\ w \in expected[r] => byWrapper[r][w] = "none" /\ w \in Asks(r)
       /\ (byWrapper[r][w] = "none") <=>
            (phase[r] = "idle" \/ w \notin Asks(r) \/ w \in expected[r])
       /\ (byWrapper[r][w] = "ok") <=> (found[r][w] > 0)
  /\ phase[r] \in {"idle", "sending"} => \A w \in Wrappers : found[r][w] = 0

SearchInv == SearchTypeOK /\ \A r \in Requests : OnlyAsked(r) /\ Gathered(r)

-----------------------------------------------------------------------------
LEMMA AsksTypes ==
  /\ \A r \in Requests : Targets[r] \in Seq(Wrappers) /\ Asks(r) \subseteq Wrappers
  /\ \A r \in Requests : \A i \in 1..Len(Targets[r]) : Targets[r][i] \in Asks(r)
BY SearchAssumption DEF Asks, ToSet

\* A step of the gathering that leaves the searches of the wrappers alone
\* leaves what is known of them; one of the network leaves the gathering.
LEMMA AskedStays ==
  ASSUME NEW r \in Requests, OnlyAsked(r), UNCHANGED <<asked, carrying>>, results'[r] = results[r]
  PROVE  OnlyAsked(r)'
BY DEF OnlyAsked

LEMMA GatheredStays ==
  ASSUME NEW r \in Requests, Gathered(r), phase'[r] = phase[r], expected'[r] = expected[r],
         byWrapper'[r] = byWrapper[r], found'[r] = found[r]
  PROVE  Gathered(r)'
BY DEF Gathered

LEMMA InitInv == Init => SearchInv
<1>. SUFFICES ASSUME Init PROVE SearchInv
  OBVIOUS
<1>. USE SearchAssumption DEF Init
<1>1. SearchTypeOK
  BY AsksTypes DEF SearchTypeOK
<1>2. ASSUME NEW r \in Requests PROVE OnlyAsked(r) /\ Gathered(r)
  <2>1. \A w \in Wrappers : /\ asked[w][r] = 0 /\ carrying[w] # r
                            /\ byWrapper[r][w] = "none" /\ found[r][w] = 0
    BY DEF Init
  <2>2. results[r] = <<>> /\ phase[r] = "idle" /\ expected[r] = {}
    BY DEF Init
  <2>. QED BY ONLY <2>1, <2>2 DEF OnlyAsked, Gathered
<1>. QED BY <1>1, <1>2 DEF SearchInv

LEMMA DispatchInv ==
  ASSUME SearchInv, NEW r \in Requests, Dispatch(r)
  PROVE  SearchInv'
<1>. USE SearchAssumption, AsksTypes DEF Dispatch, netVars
<1>1. SearchTypeOK'
  BY DEF SearchInv, SearchTypeOK, Asks
<1>2. ASSUME NEW x \in Requests PROVE OnlyAsked(x)'
  BY AskedStays DEF SearchInv
<1>3. ASSUME NEW x \in Requests, x # r PROVE Gathered(x)'
  BY <1>3, GatheredStays DEF SearchInv, SearchTypeOK
<1>4. Gathered(r)'
  <2>1. phase'[r] = "sending" /\ expected'[r] = Asks(r) /\ UNCHANGED <<byWrapper, found>>
    BY DEF SearchInv, SearchTypeOK, Asks
  <2>2. Gathered(r) /\ phase[r] = "idle"
    BY DEF SearchInv
  <2>. QED BY <2>1, <2>2 DEF Gathered
<1>. QED BY <1>1, <1>2, <1>3, <1>4 DEF SearchInv

LEMMA SendInv ==
  ASSUME SearchInv, NEW r \in Requests, SendTo(r)
  PROVE  SearchInv'
<1>. DEFINE w == Targets[r][sent[r] + 1]
<1>. USE SearchAssumption
<1>1. /\ sent[r] + 1 \in 1..Len(Targets[r]) /\ w \in Asks(r) /\ w \in Wrappers
      /\ phase[r] = "sending"
  BY AsksTypes DEF SendTo, SearchInv, SearchTypeOK
<1>2. sent' = [sent EXCEPT ![r] = @ + 1] /\ UNCHANGED <<online, drops, carrying, phase, results, found>>
  BY DEF SendTo
<1>3. sent' \in [Requests -> Nat] /\ \A x \in Requests : sent'[x] <= Len(Targets[x])
  <2>1. sent \in [Requests -> Nat] /\ \A x \in Requests : sent[x] <= Len(Targets[x])
    BY DEF SearchInv, SearchTypeOK
  <2>2. sent[r] + 1 <= Len(Targets[r])
    BY <1>1, <2>1, AsksTypes
  <2>. QED BY <1>2, <2>1, <2>2
<1>. HIDE DEF w
<1>4. CASE SendFails(r, w)
  <2>1. /\ expected' = [expected EXCEPT ![r] = @ \ {w}]
        /\ byWrapper' = [byWrapper EXCEPT ![r][w] = "error"]
        /\ UNCHANGED asked
    BY <1>4 DEF SendFails
  <2>2. SearchTypeOK'
    <3>1. expected' \in [Requests -> SUBSET Wrappers]
      BY <2>1 DEF SearchInv, SearchTypeOK
    <3>2. byWrapper' \in [Requests -> [Wrappers -> {"none", "ok", "offline", "error", "timeout"}]]
      BY <2>1 DEF SearchInv, SearchTypeOK
    <3>. QED BY <1>2, <1>3, <2>1, <3>1, <3>2 DEF SearchInv, SearchTypeOK
  <2>3. ASSUME NEW x \in Requests PROVE OnlyAsked(x)'
    BY <1>2, <2>1, AskedStays DEF SearchInv
  <2>4. ASSUME NEW x \in Requests, x # r PROVE Gathered(x)'
    BY <1>2, <2>1, <2>4, GatheredStays DEF SearchInv, SearchTypeOK
  <2>5. Gathered(r)'
    <3>1. /\ expected'[r] = expected[r] \ {w}
          /\ \A v \in Wrappers : byWrapper'[r][v] = IF v = w THEN "error" ELSE byWrapper[r][v]
      BY <1>1, <2>1 DEF SearchInv, SearchTypeOK
    <3>2. Gathered(r) /\ UNCHANGED <<phase, found>>
      BY <1>2 DEF SearchInv
    <3>. QED BY <1>1, <3>1, <3>2 DEF Gathered
  <2>. QED BY <2>2, <2>3, <2>4, <2>5 DEF SearchInv
<1>5. CASE SendSucceeds(r, w)
  <2>1. /\ UNCHANGED <<expected, byWrapper>>
        /\ asked' = [asked EXCEPT ![w][r] = @ + 1] \/ UNCHANGED asked
    BY <1>5 DEF SendSucceeds
  <2>2. /\ asked' \in [Wrappers -> [Requests -> Nat]]
        /\ \A v \in Wrappers, x \in Requests :
             v \notin Asks(x) => asked'[v][x] = asked[v][x]
    <3>0. asked \in [Wrappers -> [Requests -> Nat]]
      BY DEF SearchInv, SearchTypeOK
    <3>1. CASE UNCHANGED asked
      BY ONLY <3>0, <3>1
    <3>2. CASE asked' = [asked EXCEPT ![w][r] = @ + 1]
      <4>1. asked[w][r] + 1 \in Nat
        BY ONLY <1>1, <3>0
      <4>2. [asked[w] EXCEPT ![r] = asked[w][r] + 1] \in [Requests -> Nat]
        BY ONLY <1>1, <3>0, <4>1
      <4>3. asked' = [asked EXCEPT ![w] = [asked[w] EXCEPT ![r] = asked[w][r] + 1]]
        BY ONLY <3>2
      <4>. QED BY ONLY <1>1, <3>0, <4>2, <4>3
    <3>. QED BY <2>1, <3>1, <3>2
  <2>3. SearchTypeOK'
    BY <1>2, <1>3, <2>1, <2>2 DEF SearchInv, SearchTypeOK
  <2>4. ASSUME NEW x \in Requests PROVE OnlyAsked(x)'
    <3>1. OnlyAsked(x) /\ UNCHANGED <<carrying, results>>
      BY <1>2 DEF SearchInv
    <3>. QED BY ONLY <2>2, <3>1 DEF OnlyAsked
  <2>5. ASSUME NEW x \in Requests PROVE Gathered(x)'
    BY <1>2, <2>1, GatheredStays DEF SearchInv
  <2>. QED BY <2>3, <2>4, <2>5 DEF SearchInv
<1>. QED BY <1>4, <1>5 DEF SendTo, w

LEMMA WaitInv ==
  ASSUME SearchInv, NEW r \in Requests, Wait(r) \/ Answer(r)
  PROVE  SearchInv'
<1>. USE DEF Wait, Answer, netVars
<1>1. SearchTypeOK'
  BY DEF SearchInv, SearchTypeOK
<1>2. ASSUME NEW x \in Requests PROVE OnlyAsked(x)'
  BY AskedStays DEF SearchInv
<1>3. ASSUME NEW x \in Requests, x # r PROVE Gathered(x)'
  BY <1>3, GatheredStays DEF SearchInv, SearchTypeOK
<1>4. Gathered(r)'
  <2>1. /\ phase[r] \in {"sending", "waiting"} /\ phase'[r] \in {"waiting", "answered"}
        /\ phase'[r] = "answered" => expected[r] = {}
        /\ UNCHANGED <<expected, byWrapper, found>>
    BY DEF SearchInv, SearchTypeOK
  <2>2. Gathered(r)
    BY DEF SearchInv
  <2>. QED BY ONLY <2>1, <2>2 DEF Gathered
<1>. QED BY <1>1, <1>2, <1>3, <1>4 DEF SearchInv

LEMMA ReceiveInv ==
  ASSUME SearchInv, NEW r \in Requests, Receive(r)
  PROVE  SearchInv'
<1>. DEFINE w == Head(results[r])
<1>. USE SearchAssumption
<1>0. results[r] \in Seq(Wrappers) /\ results[r] # <<>> /\ OnlyAsked(r)
  BY DEF Receive, SearchInv, SearchTypeOK
<1>1. w = results[r][1] /\ w \in Asks(r) /\ w \in Wrappers
  BY <1>0 DEF OnlyAsked
<1>2. /\ results' = [results EXCEPT ![r] = Tail(@)]
      /\ expected' = [expected EXCEPT ![r] = @ \ {w}]
      /\ byWrapper' = [byWrapper EXCEPT ![r][w] = "ok"]
      /\ found' = [found EXCEPT ![r][w] = @ + 1]
      /\ UNCHANGED <<asked, online, drops, carrying, phase, sent>>
      /\ phase[r] = "waiting"
  BY DEF Receive, netVars
<1>. HIDE DEF w
<1>3. /\ Tail(results[r]) \in Seq(Wrappers) /\ Len(Tail(results[r])) = Len(results[r]) - 1
      /\ \A i \in 1..Len(Tail(results[r])) : Tail(results[r])[i] \in Asks(r)
  <2>1. \A i \in 1..(Len(results[r]) - 1) : Tail(results[r])[i] = results[r][i + 1]
    BY <1>0
  <2>2. Tail(results[r]) \in Seq(Wrappers) /\ Len(Tail(results[r])) = Len(results[r]) - 1
    BY <1>0
  <2>. QED BY <1>0, <2>1, <2>2 DEF OnlyAsked
<1>4. SearchTypeOK'
  <2>1. /\ results' \in [Requests -> Seq(Wrappers)]
        /\ \A x \in Requests : Len(results'[x]) <= Len(Targets[x])
    <3>1. results \in [Requests -> Seq(Wrappers)] /\ \A x \in Requests : Len(results[x]) <= Len(Targets[x])
      BY DEF SearchInv, SearchTypeOK
    <3>2. Len(Targets[r]) \in Nat /\ Len(results[r]) \in Nat
      BY <1>0, AsksTypes
    <3>. QED BY <1>2, <1>3, <3>1, <3>2
  <2>2. expected' \in [Requests -> SUBSET Wrappers]
    BY <1>2 DEF SearchInv, SearchTypeOK
  <2>3. byWrapper' \in [Requests -> [Wrappers -> {"none", "ok", "offline", "error", "timeout"}]]
    BY <1>2 DEF SearchInv, SearchTypeOK
  <2>4. found' \in [Requests -> [Wrappers -> Nat]]
    <3>1. found \in [Requests -> [Wrappers -> Nat]]
      BY DEF SearchInv, SearchTypeOK
    <3>2. found[r][w] + 1 \in Nat
      BY ONLY <1>1, <3>1
    <3>3. found' = [found EXCEPT ![r] = [found[r] EXCEPT ![w] = found[r][w] + 1]]
      BY ONLY <1>2
    <3>. QED BY ONLY <1>1, <3>1, <3>2, <3>3
  <2>. QED BY <1>2, <2>1, <2>2, <2>3, <2>4 DEF SearchInv, SearchTypeOK
<1>5. ASSUME NEW x \in Requests PROVE OnlyAsked(x)'
  <2>1. CASE x = r
    <3>1. results'[r] = Tail(results[r])
      BY <1>2 DEF SearchInv, SearchTypeOK
    <3>. QED BY <1>2, <1>3, <2>1, <3>1 DEF SearchInv, OnlyAsked
  <2>2. CASE x # r
    <3>1. results'[x] = results[x]
      BY <1>2, <2>2 DEF SearchInv, SearchTypeOK
    <3>. QED BY <1>2, <3>1, AskedStays DEF SearchInv
  <2>. QED BY <2>1, <2>2
<1>6. ASSUME NEW x \in Requests, x # r PROVE Gathered(x)'
  BY <1>2, <1>6, GatheredStays DEF SearchInv, SearchTypeOK
<1>7. Gathered(r)'
  <2>1. /\ expected'[r] = expected[r] \ {w}
        /\ \A v \in Wrappers : byWrapper'[r][v] = IF v = w THEN "ok" ELSE byWrapper[r][v]
    BY <1>1, <1>2 DEF SearchInv, SearchTypeOK
  <2>2. \A v \in Wrappers : found'[r][v] = IF v = w THEN found[r][v] + 1 ELSE found[r][v]
    <3>1. found \in [Requests -> [Wrappers -> Nat]]
      BY DEF SearchInv, SearchTypeOK
    <3>2. found' = [found EXCEPT ![r] = [found[r] EXCEPT ![w] = found[r][w] + 1]]
      BY ONLY <1>2
    <3>. QED BY ONLY <1>1, <3>1, <3>2
  <2>3. \A v \in Wrappers : found[r][v] \in Nat
    BY DEF SearchInv, SearchTypeOK
  <2>4. Gathered(r) /\ phase'[r] = "waiting" /\ phase[r] = "waiting"
    BY <1>2 DEF SearchInv
  <2>. QED BY <1>1, <2>1, <2>2, <2>3, <2>4 DEF Gathered
<1>. QED BY <1>4, <1>5, <1>6, <1>7 DEF SearchInv

LEMMA TimeOutInv ==
  ASSUME SearchInv, NEW r \in Requests, TimeOut(r)
  PROVE  SearchInv'
<1>. USE DEF TimeOut, netVars
<1>1. SearchTypeOK'
  BY DEF SearchInv, SearchTypeOK
<1>2. ASSUME NEW x \in Requests PROVE OnlyAsked(x)'
  BY AskedStays DEF SearchInv
<1>3. ASSUME NEW x \in Requests, x # r PROVE Gathered(x)'
  BY <1>3, GatheredStays DEF SearchInv, SearchTypeOK
<1>4. Gathered(r)'
  <2>1. /\ expected'[r] = {} /\ UNCHANGED <<phase, found>> /\ phase[r] = "waiting"
        /\ \A v \in Wrappers :
             byWrapper'[r][v] = IF v \in expected[r] THEN "timeout" ELSE byWrapper[r][v]
    BY DEF SearchInv, SearchTypeOK
  <2>. QED BY <2>1 DEF SearchInv, Gathered
<1>. QED BY <1>1, <1>2, <1>3, <1>4 DEF SearchInv

-----------------------------------------------------------------------------
LEMMA DeliverInv ==
  ASSUME SearchInv, NEW w \in Wrappers,
         DeliverSend(w) \/ \E r \in Requests : DeliverLookup(w, r)
  PROVE  SearchInv'
<1>. USE SearchAssumption
<1>1. ASSUME NEW r \in Requests, DeliverLookup(w, r) PROVE SearchInv'
  <2>. USE <1>1 DEF DeliverLookup, hubVars
  <2>1. w \in Asks(r) /\ asked[w][r] \in Nat /\ asked[w][r] > 0
    BY DEF SearchInv, SearchTypeOK, OnlyAsked
  <2>2. asked' \in [Wrappers -> [Requests -> Nat]] /\ carrying' \in [Wrappers -> Requests \cup {NoRequest}]
    BY <2>1 DEF SearchInv, SearchTypeOK
  <2>3. SearchTypeOK'
    BY <2>2 DEF SearchInv, SearchTypeOK
  <2>4. ASSUME NEW x \in Requests PROVE OnlyAsked(x)'
    <3>1. \A v \in Wrappers : /\ asked'[v][x] > 0 => asked[v][x] > 0
                              /\ carrying'[v] = x => carrying[v] = x \/ (v = w /\ x = r)
      BY <2>1 DEF SearchInv, SearchTypeOK
    <3>. QED BY <2>1, <3>1 DEF SearchInv, OnlyAsked
  <2>5. ASSUME NEW x \in Requests PROVE Gathered(x)'
    BY GatheredStays DEF SearchInv
  <2>. QED BY <2>3, <2>4, <2>5 DEF SearchInv
<1>2. CASE DeliverSend(w)
  <2>. DEFINE r == carrying[w]
  <2>1. r \in Requests /\ w \in Asks(r) /\ results[r] \in Seq(Wrappers)
    BY <1>2 DEF DeliverSend, SearchInv, SearchTypeOK, OnlyAsked
  <2>2. /\ results' = [results EXCEPT ![r] = IF Len(@) < Len(Targets[r]) THEN Append(@, w) ELSE @]
        /\ carrying' = [carrying EXCEPT ![w] = NoRequest]
        /\ UNCHANGED <<asked, online, drops, phase, sent, expected, byWrapper, found>>
    BY <1>2 DEF DeliverSend, netVars
  <2>. HIDE DEF r
  <2>3. /\ results'[r] \in Seq(Wrappers) /\ Len(results'[r]) <= Len(Targets[r])
        /\ \A i \in 1..Len(results'[r]) : results'[r][i] \in Asks(r)
    <3>0. /\ Len(results[r]) <= Len(Targets[r]) /\ Len(Targets[r]) \in Nat
          /\ \A i \in 1..Len(results[r]) : results[r][i] \in Asks(r)
      BY <2>1, AsksTypes DEF SearchInv, SearchTypeOK, OnlyAsked
    <3>1. CASE Len(results[r]) < Len(Targets[r])
      <4>1. results'[r] = Append(results[r], w)
        BY <2>1, <2>2, <3>1 DEF SearchInv, SearchTypeOK
      <4>. QED BY <2>1, <3>0, <3>1, <4>1
    <3>2. CASE ~(Len(results[r]) < Len(Targets[r]))
      <4>1. results'[r] = results[r]
        BY <2>1, <2>2, <3>2 DEF SearchInv, SearchTypeOK
      <4>. QED BY <2>1, <3>0, <4>1
    <3>. QED BY <3>1, <3>2
  <2>4. \A x \in Requests \ {r} : results'[x] = results[x]
    BY <2>2 DEF SearchInv, SearchTypeOK
  <2>5. SearchTypeOK'
    <3>1. results' = [x \in Requests |-> results'[x]]
      BY <2>2 DEF SearchInv, SearchTypeOK
    <3>2. /\ results' \in [Requests -> Seq(Wrappers)]
          /\ \A x \in Requests : Len(results'[x]) <= Len(Targets[x])
      BY <2>3, <2>4, <3>1 DEF SearchInv, SearchTypeOK
    <3>3. carrying' \in [Wrappers -> Requests \cup {NoRequest}]
      BY <2>2 DEF SearchInv, SearchTypeOK
    <3>. QED BY <2>2, <3>2, <3>3 DEF SearchInv, SearchTypeOK
  <2>6. ASSUME NEW x \in Requests PROVE OnlyAsked(x)'
    <3>1. \A v \in Wrappers : carrying'[v] = x => carrying[v] = x
      BY <2>2 DEF SearchInv, SearchTypeOK
    <3>. QED BY <2>2, <2>3, <2>4, <3>1 DEF SearchInv, OnlyAsked
  <2>7. ASSUME NEW x \in Requests PROVE Gathered(x)'
    BY <2>2, GatheredStays DEF SearchInv
  <2>. QED BY <2>5, <2>6, <2>7 DEF SearchInv
<1>. QED BY <1>1, <1>2

LEMMA NetInv ==
  ASSUME SearchInv, NEW w \in Wrappers, Disconnect(w) \/ Reconnect(w)
  PROVE  SearchInv'
<1>. USE SearchAssumption DEF Disconnect, Reconnect, hubVars
<1>1. /\ asked' \in [Wrappers -> [Requests -> Nat]]
      /\ \A v \in Wrappers, x \in Requests : asked'[v][x] \in {0, asked[v][x]}
  <2>1. CASE UNCHANGED asked
    BY <2>1 DEF SearchInv, SearchTypeOK
  <2>2. CASE asked' = [asked EXCEPT ![w] = [r \in Requests |-> 0]]
    BY <2>2 DEF SearchInv, SearchTypeOK
  <2>. QED BY <2>1, <2>2
<1>2. online' \in [Wrappers -> BOOLEAN] /\ drops' \in 0..MaxDrops
  <2>1. CASE Disconnect(w)
    BY <2>1 DEF SearchInv, SearchTypeOK
  <2>2. CASE Reconnect(w)
    BY <2>2 DEF SearchInv, SearchTypeOK
  <2>. QED BY <2>1, <2>2
<1>3. SearchTypeOK'
  BY <1>1, <1>2 DEF SearchInv, SearchTypeOK
<1>4. ASSUME NEW x \in Requests PROVE OnlyAsked(x)'
  <2>1. OnlyAsked(x) /\ UNCHANGED <<carrying, results>>
    BY DEF SearchInv
  <2>2. \A v \in Wrappers : asked'[v][x] > 0 => asked[v][x] > 0
    BY ONLY <1>1, x \in Requests
  <2>. QED BY ONLY <2>1, <2>2 DEF OnlyAsked
<1>5. ASSUME NEW x \in Requests PROVE Gathered(x)'
  BY GatheredStays DEF SearchInv
<1>. QED BY <1>3, <1>4, <1>5 DEF SearchInv

LEMMA NextInv == SearchInv /\ [Next]_vars => SearchInv'
<1>. SUFFICES ASSUME SearchInv, [Next]_vars PROVE SearchInv'
  OBVIOUS
<1>1. ASSUME NEW r \in Requests, Dispatch(r) \/ DispatchStep(r) PROVE SearchInv'
  BY <1>1, DispatchInv, SendInv, WaitInv, ReceiveInv, TimeOutInv DEF DispatchStep
<1>2. ASSUME NEW w \in Wrappers,
             \/ \E r \in Requests : DeliverLookup(w, r)
             \/ DeliverSend(w) \/ Disconnect(w) \/ Reconnect(w)
      PROVE  SearchInv'
  BY <1>2, DeliverInv, NetInv
<1>3. CASE UNCHANGED vars
  BY <1>3 DEF vars, netVars, hubVars, SearchInv, SearchTypeOK, OnlyAsked, Gathered
<1>. QED BY <1>1, <1>2, <1>3 DEF Next

-----------------------------------------------------------------------------
\* The searches for r under way at a wrapper, numbered, and the read loops that
\* carry a result of it, as the number 0.
Pending(r) ==
  {p \in Wrappers \X Nat :
     IF p[2] = 0 THEN carrying[p[1]] = r ELSE p[2] <= asked[p[1]][r]}

\* Every place in the channel is of another target that has been sent to.
PendingFit(r) ==
  /\ IsFiniteSet(Pending(r))
  /\ Cardinality(Pending(r)) + Len(results[r]) <= sent[r]

FitInv == SearchInv /\ \A r \in Requests : PendingFit(r)

LEMMA FitTypes ==
  ASSUME SearchInv, NEW r \in Requests
  PROVE  /\ sent \in [Requests -> Nat] /\ sent[r] \in Nat /\ sent[r] <= Len(Targets[r])
         /\ Len(Targets[r]) \in Nat /\ results \in [Requests -> Seq(Wrappers)]
         /\ results[r] \in Seq(Wrappers) /\ Len(results[r]) \in Nat
         /\ asked \in [Wrappers -> [Requests -> Nat]]
         /\ carrying \in [Wrappers -> Requests \cup {NoRequest}]
         /\ NoRequest \notin Requests
BY SearchAssumption DEF SearchInv, SearchTypeOK

\* A step that takes from the pending searches, or adds one for a target more.
LEMMA FewerFit ==
  ASSUME NEW r \in Requests, PendingFit(r), Pending(r)' \subseteq Pending(r),
         results[r] \in Seq(Wrappers), results'[r] \in Seq(Wrappers),
         Len(results'[r]) <= Len(results[r]), sent'[r] = sent[r], sent[r] \in Nat
  PROVE  PendingFit(r)'
<1>1. PICK P : P = Pending(r)'
  OBVIOUS
<1>2. IsFiniteSet(P) /\ Cardinality(P) <= Cardinality(Pending(r))
  BY <1>1, FS_Subset DEF PendingFit
<1>3. Cardinality(P) \in Nat /\ Cardinality(Pending(r)) \in Nat
  BY <1>2, FS_CardinalityType DEF PendingFit
<1>4. Len(results[r]) \in Nat /\ Len(results'[r]) \in Nat
  OBVIOUS
<1>5. IsFiniteSet(Pending(r)') /\ Cardinality(Pending(r)') + Len(results'[r]) <= sent'[r]
  BY <1>1, <1>2, <1>3, <1>4 DEF PendingFit
<1>. QED BY <1>5 DEF PendingFit

LEMMA InitFit == Init => FitInv
<1>. SUFFICES ASSUME Init PROVE FitInv
  OBVIOUS
<1>1. SearchInv
  BY InitInv
<1>2. ASSUME NEW r \in Requests PROVE PendingFit(r)
  <2>1. Pending(r) = {}
    <3>1. \A w \in Wrappers : carrying[w] # r /\ asked[w][r] = 0
      BY SearchAssumption DEF Init
    <3>. QED BY <3>1 DEF Pending
  <2>2. results[r] = <<>> /\ sent[r] = 0
    BY DEF Init
  <2>. QED BY <2>1, <2>2, FS_EmptySet DEF PendingFit
<1>. QED BY <1>1, <1>2 DEF FitInv

LEMMA SendFit ==
  ASSUME FitInv, NEW r \in Requests, SendTo(r), NEW x \in Requests
  PROVE  PendingFit(x)'
<1>. DEFINE w == Targets[r][sent[r] + 1]
<1>1. SearchInv /\ PendingFit(x)
  BY DEF FitInv
<1>2. w \in Wrappers
  <2>1. sent[r] + 1 \in 1..Len(Targets[r])
    BY <1>1, FitTypes DEF SendTo
  <2>. QED BY <2>1, SearchAssumption
<1>3. sent' = [sent EXCEPT ![r] = @ + 1] /\ UNCHANGED <<carrying, results>>
  BY DEF SendTo
<1>4. asked' = asked \/ asked' = [asked EXCEPT ![w][r] = @ + 1]
  BY DEF SendTo, SendFails, SendSucceeds
<1>. HIDE DEF w
<1>5. PICK P : P = Pending(x)'
  OBVIOUS
<1>6. CASE asked' = asked \/ x # r
  <2>1. Pending(x)' \subseteq Pending(x)
    <3>1. \A v \in Wrappers : asked'[v][x] = asked[v][x]
      BY <1>1, <1>2, <1>4, <1>6, FitTypes
    <3>. QED BY <1>3, <3>1 DEF Pending
  <2>2. /\ IsFiniteSet(P) /\ Cardinality(P) <= Cardinality(Pending(x))
        /\ Cardinality(P) \in Nat /\ Cardinality(Pending(x)) \in Nat
    BY <1>1, <1>5, <2>1, FS_Subset, FS_CardinalityType DEF PendingFit
  <2>3. sent'[x] \in Nat /\ sent[x] \in Nat /\ sent[x] <= sent'[x] /\ Len(results[x]) \in Nat
    BY <1>1, <1>3, FitTypes
  <2>4. Cardinality(P) + Len(results[x]) <= sent'[x]
    BY <1>1, <2>2, <2>3 DEF PendingFit
  <2>. QED BY <1>3, <1>5, <2>2, <2>4 DEF PendingFit
<1>7. CASE asked' = [asked EXCEPT ![w][r] = @ + 1] /\ x = r
  <2>. DEFINE p == <<w, asked[w][r] + 1>>
  <2>1. \A v \in Wrappers : asked'[v][r] = IF v = w THEN asked[v][r] + 1 ELSE asked[v][r]
    BY <1>1, <1>2, <1>7, FitTypes
  <2>2. asked[w][r] \in Nat /\ \A v \in Wrappers : asked[v][r] \in Nat
    BY <1>1, <1>2, FitTypes
  <2>3. Pending(r)' \subseteq Pending(r) \cup {p}
    BY <1>3, <2>1, <2>2 DEF Pending
  <2>4. PICK Q : Q = Pending(r) \cup {p}
    OBVIOUS
  <2>5. IsFiniteSet(Q) /\ Cardinality(Q) <= Cardinality(Pending(r)) + 1
    <3>1. IsFiniteSet(Pending(r)) /\ Cardinality(Pending(r)) \in Nat
      BY <1>1, <1>7, FS_CardinalityType DEF PendingFit
    <3>2. IsFiniteSet(Q) /\ Cardinality(Q) = IF p \in Pending(r) THEN Cardinality(Pending(r))
                                             ELSE Cardinality(Pending(r)) + 1
      BY ONLY <2>4, <3>1, FS_AddElement
    <3>. QED BY ONLY <3>1, <3>2
  <2>6. IsFiniteSet(P) /\ Cardinality(P) <= Cardinality(Q)
    BY <1>5, <1>7, <2>3, <2>4, <2>5, FS_Subset
  <2>7. Cardinality(P) \in Nat /\ Cardinality(Q) \in Nat /\ Cardinality(Pending(r)) \in Nat
    BY <1>1, <1>7, <2>5, <2>6, FS_CardinalityType DEF PendingFit
  <2>8. sent'[r] = sent[r] + 1 /\ sent[r] \in Nat /\ Len(results[r]) \in Nat
    BY <1>1, <1>3, FitTypes
  <2>9. Cardinality(P) + Len(results[r]) <= sent'[r]
    BY <1>1, <1>7, <2>5, <2>6, <2>7, <2>8 DEF PendingFit
  <2>. QED BY <1>3, <1>5, <1>7, <2>6, <2>9 DEF PendingFit
<1>. QED BY <1>4, <1>6, <1>7

LEMMA DeliverLookupFit ==
  ASSUME FitInv, NEW w \in Wrappers, NEW r \in Requests, DeliverLookup(w, r), NEW x \in Requests
  PROVE  PendingFit(x)'
<1>1. SearchInv /\ PendingFit(x)
  BY DEF FitInv
<1>2. /\ carrying[w] = NoRequest /\ asked[w][r] > 0
      /\ asked' = [asked EXCEPT ![w][r] = @ - 1]
      /\ carrying' = [carrying EXCEPT ![w] = carrying'[w]] /\ carrying'[w] \in {r, NoRequest}
      /\ UNCHANGED <<sent, results>>
  BY <1>1, FitTypes DEF DeliverLookup, hubVars
<1>3. /\ \A v \in Wrappers : /\ asked[v][x] \in Nat
                             /\ asked'[v][x] = IF v = w /\ x = r THEN asked[v][x] - 1
                                                                ELSE asked[v][x]
                             /\ v # w => carrying'[v] = carrying[v]
  BY <1>1, <1>2, FitTypes
<1>4. sent[x] \in Nat /\ Len(results[x]) \in Nat /\ results[x] \in Seq(Wrappers) /\ NoRequest \notin Requests
  BY <1>1, FitTypes
<1>5. CASE x # r
  <2>1. Pending(x)' \subseteq Pending(x)
    BY <1>2, <1>3, <1>4, <1>5 DEF Pending
  <2>. QED BY <1>1, <1>2, <1>4, <2>1, FewerFit
<1>6. CASE x = r
  <2>. DEFINE p == <<w, asked[w][r]>>
              c == <<w, 0>>
  <2>1. p \in Pending(r) /\ c \notin Pending(r)
    BY <1>2, <1>3, <1>4, <1>6 DEF Pending
  <2>2. Pending(r)' \subseteq (Pending(r) \ {p}) \cup {c}
    <3>. SUFFICES ASSUME NEW q \in Pending(r)' PROVE q \in (Pending(r) \ {p}) \cup {c}
      OBVIOUS
    <3>1. q \in Wrappers \X Nat /\ IF q[2] = 0 THEN carrying'[q[1]] = r ELSE q[2] <= asked'[q[1]][r]
      BY DEF Pending
    <3>2. CASE q[1] # w
      BY <1>2, <1>3, <1>6, <3>1, <3>2 DEF Pending
    <3>3. CASE q[1] = w /\ q[2] # 0
      <4>1. q[2] <= asked[w][r] - 1 /\ q[2] \in Nat /\ asked[w][r] \in Nat
        BY <1>2, <1>3, <1>6, <3>1, <3>3
      <4>2. q[2] <= asked[w][r] /\ q[2] # asked[w][r]
        BY <4>1
      <4>. QED BY <3>1, <3>3, <4>2 DEF Pending
    <3>4. CASE q[1] = w /\ q[2] = 0
      BY <3>1, <3>4
    <3>. QED BY <3>2, <3>3, <3>4
  <2>3. PICK P, Q, R : P = Pending(r)' /\ Q = Pending(r) \ {p} /\ R = Q \cup {c}
    OBVIOUS
  <2>4. /\ IsFiniteSet(Pending(r)) /\ Cardinality(Pending(r)) \in Nat
        /\ Cardinality(Pending(r)) + Len(results[r]) <= sent[r]
    BY <1>1, <1>6, FS_CardinalityType DEF PendingFit
  <2>5. IsFiniteSet(Q) /\ Cardinality(Q) = Cardinality(Pending(r)) - 1
    BY <2>1, <2>3, <2>4, FS_RemoveElement
  <2>6. IsFiniteSet(R) /\ Cardinality(R) <= Cardinality(Pending(r))
    <3>1. c \notin Q
      BY <2>1, <2>3
    <3>2. IsFiniteSet(R) /\ Cardinality(R) = Cardinality(Q) + 1
      BY ONLY <2>3, <2>5, <3>1, FS_AddElement
    <3>. QED BY ONLY <2>4, <2>5, <3>2
  <2>7. IsFiniteSet(P) /\ Cardinality(P) <= Cardinality(R) /\ Cardinality(P) \in Nat /\ Cardinality(R) \in Nat
    BY <2>2, <2>3, <2>6, FS_Subset, FS_CardinalityType
  <2>8. Cardinality(P) + Len(results[r]) <= sent[r]
    BY <1>4, <1>6, <2>4, <2>6, <2>7
  <2>. QED BY <1>2, <1>6, <2>3, <2>7, <2>8 DEF PendingFit
<1>. QED BY <1>5, <1>6

LEMMA DeliverSendFit ==
  ASSUME FitInv, NEW w \in Wrappers, DeliverSend(w), NEW x \in Requests
  PROVE  PendingFit(x)'
<1>1. SearchInv /\ PendingFit(x)
  BY DEF FitInv
<1>2. PICK r \in Requests : r = carrying[w]
  BY <1>1, FitTypes DEF DeliverSend
<1>3. /\ results' = [results EXCEPT ![r] = IF Len(@) < Len(Targets[r]) THEN Append(@, w) ELSE @]
      /\ carrying' = [carrying EXCEPT ![w] = NoRequest]
      /\ UNCHANGED <<asked, sent>>
  BY <1>2 DEF DeliverSend, netVars
<1>4. /\ sent[x] \in Nat /\ Len(results[x]) \in Nat /\ results[x] \in Seq(Wrappers)
      /\ NoRequest \notin Requests
      /\ \A v \in Wrappers : carrying'[v] = IF v = w THEN NoRequest ELSE carrying[v]
  BY <1>1, <1>3, FitTypes
<1>5. Pending(x)' = IF x = r THEN Pending(x) \ {<<w, 0>>} ELSE Pending(x)
  BY <1>2, <1>3, <1>4 DEF Pending
<1>6. CASE x # r
  <2>1. results'[x] = results[x]
    BY <1>1, <1>3, <1>6, FitTypes
  <2>. QED BY <1>1, <1>3, <1>4, <1>5, <1>6, <2>1, FewerFit
<1>7. CASE x = r
  <2>1. <<w, 0>> \in Pending(r)
    BY <1>2 DEF Pending
  <2>2. PICK P : P = Pending(r)' /\ P = Pending(r) \ {<<w, 0>>}
    BY <1>5, <1>7
  <2>3. /\ IsFiniteSet(Pending(r)) /\ Cardinality(Pending(r)) \in Nat
        /\ Cardinality(Pending(r)) + Len(results[r]) <= sent[r]
    BY <1>1, <1>7, FS_CardinalityType DEF PendingFit
  <2>4. IsFiniteSet(P) /\ Cardinality(P) = Cardinality(Pending(r)) - 1
    BY <2>1, <2>2, <2>3, FS_RemoveElement
  <2>5. Len(results'[r]) \in Nat /\ Len(results'[r]) <= Len(results[r]) + 1
    <3>1. results'[r] = results[r] \/ results'[r] = Append(results[r], w)
      BY <1>1, <1>3, FitTypes
    <3>. QED BY <1>4, <1>7, <3>1
  <2>6. Cardinality(P) + Len(results'[r]) <= sent[r]
    BY <1>4, <1>7, <2>3, <2>4, <2>5
  <2>. QED BY <1>3, <1>7, <2>2, <2>4, <2>6 DEF PendingFit
<1>. QED BY <1>6, <1>7

LEMMA RestFit ==
  ASSUME FitInv, NEW x \in Requests,
         \/ \E r \in Requests : Dispatch(r) \/ Wait(r) \/ Receive(r) \/ TimeOut(r) \/ Answer(r)
         \/ \E w \in Wrappers : Disconnect(w) \/ Reconnect(w)
         \/ UNCHANGED vars
  PROVE  PendingFit(x)'
<1>1. SearchInv /\ PendingFit(x)
  BY DEF FitInv
<1>2. UNCHANGED <<carrying, sent>>
  BY DEF Dispatch, Wait, Receive, TimeOut, Answer, Disconnect, Reconnect, vars, netVars, hubVars
<1>3. \A w \in Wrappers : asked'[w][x] <= asked[w][x] /\ asked[w][x] \in Nat /\ asked'[w][x] \in Nat
  <2>1. UNCHANGED asked \/ \E w \in Wrappers : asked' = [asked EXCEPT ![w] = [r \in Requests |-> 0]]
    BY DEF Dispatch, Wait, Receive, TimeOut, Answer, Disconnect, Reconnect, vars, netVars, hubVars
  <2>2. asked \in [Wrappers -> [Requests -> Nat]]
    BY <1>1, FitTypes
  <2>3. ASSUME NEW v \in Wrappers, asked' = [asked EXCEPT ![v] = [r \in Requests |-> 0]], NEW w \in Wrappers
        PROVE  asked'[w][x] <= asked[w][x] /\ asked[w][x] \in Nat /\ asked'[w][x] \in Nat
    BY ONLY <2>2, <2>3, x \in Requests
  <2>4. CASE UNCHANGED asked
    BY ONLY <2>2, <2>4, x \in Requests
  <2>. QED BY <2>1, <2>3, <2>4
<1>4. Pending(x)' \subseteq Pending(x)
  BY <1>2, <1>3 DEF Pending
<1>5. results'[x] = results[x] \/ (results[x] # <<>> /\ results'[x] = Tail(results[x]))
  <2>1. UNCHANGED results \/ \E r \in Requests : results[r] # <<>> /\ results' = [results EXCEPT ![r] = Tail(@)]
    BY DEF Dispatch, Wait, Receive, TimeOut, Answer, Disconnect, Reconnect, vars, netVars, hubVars
  <2>2. results \in [Requests -> Seq(Wrappers)]
    BY <1>1, FitTypes
  <2>3. ASSUME NEW r \in Requests, results[r] # <<>>, results' = [results EXCEPT ![r] = Tail(@)]
        PROVE  results'[x] = results[x] \/ (results[x] # <<>> /\ results'[x] = Tail(results[x]))
    BY ONLY <2>2, <2>3, x \in Requests
  <2>. QED BY <2>1, <2>3
<1>6. results'[x] \in Seq(Wrappers) /\ Len(results'[x]) <= Len(results[x])
  <2>1. results[x] \in Seq(Wrappers)
    BY <1>1, FitTypes
  <2>2. CASE results[x] # <<>> /\ results'[x] = Tail(results[x])
    BY ONLY <2>1, <2>2
  <2>. QED BY <1>5, <2>1, <2>2
<1>. QED BY <1>1, <1>2, <1>4, <1>6, FitTypes, FewerFit

LEMMA NextFit == FitInv /\ [Next]_vars => FitInv'
<1>. SUFFICES ASSUME FitInv, [Next]_vars PROVE FitInv'
  OBVIOUS
<1>1. SearchInv'
  BY NextInv DEF FitInv
<1>2. ASSUME NEW x \in Requests PROVE PendingFit(x)'
  BY SendFit, DeliverLookupFit, DeliverSendFit, RestFit DEF Next, DispatchStep
<1>. QED BY <1>1, <1>2 DEF FitInv

-----------------------------------------------------------------------------
\* Where v is among the first n elements of s.
Places(s, n, v) == {i \in 1..n : s[i] = v}

Ones(b) == IF b THEN 1 ELSE 0

LEMMA PlacesFinite ==
  ASSUME NEW s, NEW v, NEW n \in Nat
  PROVE  IsFiniteSet(Places(s, n, v)) /\ Cardinality(Places(s, n, v)) \in Nat
<1>1. IsFiniteSet(1..n)
  BY FS_Interval
<1>2. Places(s, n, v) \in SUBSET (1..n)
  BY DEF Places
<1>. QED BY <1>1, <1>2, FS_Subset, FS_CardinalityType

\* One element more.
LEMMA PlacesGrow ==
  ASSUME NEW s, NEW v, NEW n \in Nat
  PROVE  Cardinality(Places(s, n + 1, v)) = Cardinality(Places(s, n, v)) + Ones(s[n + 1] = v)
<1>1. PICK P : P = Places(s, n, v)
  OBVIOUS
<1>2. IsFiniteSet(P) /\ Cardinality(P) \in Nat
  BY <1>1, PlacesFinite
<1>3. 1..(n + 1) = (1..n) \cup {n + 1} /\ n + 1 \notin 1..n
  OBVIOUS
<1>4. CASE s[n + 1] = v
  <2>1. Places(s, n + 1, v) = P \cup {n + 1} /\ n + 1 \notin P
    BY <1>1, <1>3, <1>4 DEF Places
  <2>2. Cardinality(P \cup {n + 1}) = Cardinality(P) + 1
    BY ONLY <1>2, <2>1, FS_AddElement
  <2>. QED BY <1>1, <1>4, <2>1, <2>2 DEF Ones
<1>5. CASE s[n + 1] # v
  <2>1. Places(s, n + 1, v) = P
    BY <1>1, <1>3, <1>5 DEF Places
  <2>. QED BY <1>1, <1>2, <1>5, <2>1 DEF Ones
<1>. QED BY <1>4, <1>5

LEMMA PlacesAppend ==
  ASSUME NEW S, NEW s \in Seq(S), NEW x \in S, NEW v
  PROVE  Cardinality(Places(Append(s, x), Len(Append(s, x)), v))
           = Cardinality(Places(s, Len(s), v)) + Ones(x = v)
<1>1. PICK t : t = Append(s, x)
  OBVIOUS
<1>2. /\ Len(s) \in Nat /\ Len(t) = Len(s) + 1 /\ t[Len(s) + 1] = x
      /\ \A i \in 1..Len(s) : t[i] = s[i]
  BY <1>1
<1>3. Places(t, Len(s), v) = Places(s, Len(s), v)
  BY <1>2 DEF Places
<1>4. Cardinality(Places(t, Len(s) + 1, v)) = Cardinality(Places(t, Len(s), v)) + Ones(t[Len(s) + 1] = v)
  BY <1>2, PlacesGrow
<1>. QED BY ONLY <1>1, <1>2, <1>3, <1>4

LEMMA PlacesTail ==
  ASSUME NEW S, NEW s \in Seq(S), s # <<>>, NEW v
  PROVE  Cardinality(Places(Tail(s), Len(Tail(s)), v)) + Ones(Head(s) = v)
           = Cardinality(Places(s, Len(s), v))
<1>1. PICK t : t = Tail(s)
  OBVIOUS
<1>2. /\ Len(s) \in Nat /\ Len(t) = Len(s) - 1 /\ Len(t) \in Nat /\ Head(s) = s[1]
      /\ \A i \in 1..Len(t) : t[i] = s[i + 1]
  BY <1>1
<1>3. PICK P, Q, R : P = Places(t, Len(t), v) /\ Q = Places(s, Len(s), v) /\ R = Q \ {1}
  OBVIOUS
<1>4. IsFiniteSet(P) /\ IsFiniteSet(Q) /\ Cardinality(Q) \in Nat
  BY <1>2, <1>3, PlacesFinite
<1>5. ExistsBijection(P, R)
  <2>. DEFINE f == [i \in P |-> i + 1]
  <2>1. \A i \in P : i \in Nat /\ i \in 1..Len(t) /\ t[i] = v
    BY <1>2, <1>3 DEF Places
  <2>2. \A i \in P : i + 1 \in R
    BY <1>2, <1>3, <2>1 DEF Places
  <2>3. \A j \in R : j - 1 \in P /\ (j - 1) + 1 = j
    <3>1. \A j \in R : j \in 2..Len(s) /\ s[j] = v
      BY <1>2, <1>3 DEF Places
    <3>2. \A j \in R : j - 1 \in 1..Len(t) /\ (j - 1) + 1 = j
      BY <1>2, <3>1
    <3>. QED BY <1>2, <1>3, <3>1, <3>2 DEF Places
  <2>4. f \in [P -> R]
    BY <2>2
  <2>5. f \in Injection(P, R)
    BY <2>1, <2>4 DEF Injection, IsInjective
  <2>6. f \in Surjection(P, R)
    BY <2>3, <2>4 DEF Surjection
  <2>. QED BY <2>5, <2>6 DEF ExistsBijection, Bijection
<1>6. IsFiniteSet(R) /\ Cardinality(R) = Cardinality(P)
  BY <1>4, <1>5, FS_Bijection
<1>7. (1 \in Q) = (Head(s) = v)
  BY <1>2, <1>3 DEF Places
<1>8. Cardinality(R) = IF 1 \in Q THEN Cardinality(Q) - 1 ELSE Cardinality(Q)
  BY ONLY <1>3, <1>4, FS_RemoveElement
<1>9. Cardinality(P) + Ones(Head(s) = v) = Cardinality(Q)
  BY ONLY <1>4, <1>6, <1>7, <1>8 DEF Ones
<1>. QED BY <1>1, <1>3, <1>9

-----------------------------------------------------------------------------
\* What a search has had of a wrapper, what is in its channel, and what is still
\* to come, is not more than what it asked.
InChannel(r, w) == Cardinality(Places(results[r], Len(results[r]), w))
AskedOf(r, w) == Cardinality(Places(Targets[r], sent[r], w))

NoSurplus(r, w) ==
  found[r][w] + InChannel(r, w) + asked[w][r] + Ones(carrying[w] = r) <= AskedOf(r, w)

SurplusInv == SearchInv /\ \A r \in Requests, w \in Wrappers : NoSurplus(r, w)

LEMMA SurplusTypes ==
  ASSUME SearchInv, NEW r \in Requests, NEW w \in Wrappers
  PROVE  /\ found[r][w] \in Nat /\ InChannel(r, w) \in Nat /\ asked[w][r] \in Nat
         /\ Ones(carrying[w] = r) \in Nat /\ AskedOf(r, w) \in Nat
<1>1. found[r][w] \in Nat /\ asked[w][r] \in Nat
  BY DEF SearchInv, SearchTypeOK
<1>2. InChannel(r, w) \in Nat /\ AskedOf(r, w) \in Nat
  BY FitTypes, PlacesFinite DEF InChannel, AskedOf
<1>. QED BY <1>1, <1>2 DEF Ones

LEMMA InitSurplus == Init => SurplusInv
<1>. SUFFICES ASSUME Init PROVE SurplusInv
  OBVIOUS
<1>1. SearchInv
  BY InitInv
<1>2. ASSUME NEW r \in Requests, NEW w \in Wrappers PROVE NoSurplus(r, w)
  <2>1. /\ results[r] = <<>> /\ sent[r] = 0 /\ found[r][w] = 0 /\ asked[w][r] = 0
        /\ carrying[w] # r
    BY SearchAssumption DEF Init
  <2>2. Places(results[r], Len(results[r]), w) = {} /\ Places(Targets[r], sent[r], w) = {}
    BY <2>1 DEF Places
  <2>3. InChannel(r, w) = 0 /\ AskedOf(r, w) = 0
    BY <2>2, FS_EmptySet DEF InChannel, AskedOf
  <2>. QED BY ONLY <2>1, <2>3 DEF NoSurplus, Ones
<1>. QED BY <1>1, <1>2 DEF SurplusInv

LEMMA SendSurplus ==
  ASSUME SurplusInv, NEW q \in Requests, SendTo(q), NEW r \in Requests, NEW w \in Wrappers
  PROVE  NoSurplus(r, w)'
<1>. DEFINE t == Targets[q][sent[q] + 1]
<1>1. SearchInv /\ SearchInv' /\ NoSurplus(r, w)
  BY SendInv DEF SurplusInv
<1>2. sent' = [sent EXCEPT ![q] = @ + 1] /\ UNCHANGED <<carrying, results, found>>
  BY DEF SendTo
<1>3. asked' = asked \/ asked' = [asked EXCEPT ![t][q] = @ + 1]
  BY DEF SendTo, SendFails, SendSucceeds
<1>4. UNCHANGED <<found[r][w], InChannel(r, w), Ones(carrying[w] = r)>>
  BY <1>2 DEF InChannel, Ones
<1>5. asked \in [Wrappers -> [Requests -> Nat]] /\ sent \in [Requests -> Nat]
  BY <1>1, FitTypes
<1>6. CASE r # q
  <2>1. asked'[w][r] = asked[w][r]
    <3>1. CASE asked' = [asked EXCEPT ![t][q] = @ + 1]
      BY ONLY <1>5, <1>6, <3>1, w \in Wrappers, r \in Requests
    <3>. QED BY <1>3, <3>1
  <2>2. AskedOf(r, w)' = AskedOf(r, w)
    BY <1>2, <1>5, <1>6 DEF AskedOf
  <2>. QED BY <1>1, <1>4, <2>1, <2>2 DEF NoSurplus
<1>7. CASE r = q
  <2>1. asked'[w][r] <= asked[w][r] + Ones(t = w)
    <3>1. CASE asked' = [asked EXCEPT ![t][q] = @ + 1]
      BY ONLY <1>5, <1>7, <3>1, w \in Wrappers, r \in Requests DEF Ones
    <3>2. CASE asked' = asked
      BY ONLY <1>5, <1>7, <3>2, w \in Wrappers, r \in Requests DEF Ones
    <3>. QED BY <1>3, <3>1, <3>2
  <2>2. AskedOf(r, w)' = AskedOf(r, w) + Ones(t = w)
    <3>1. sent[q] \in Nat /\ sent'[q] = sent[q] + 1
      BY <1>2, <1>5
    <3>2. Cardinality(Places(Targets[q], sent[q] + 1, w)) = Cardinality(Places(Targets[q], sent[q], w)) + Ones(t = w)
      BY <3>1, PlacesGrow
    <3>. QED BY <1>7, <3>1, <3>2 DEF AskedOf
  <2>3. /\ found[r][w] \in Nat /\ InChannel(r, w) \in Nat /\ asked[w][r] \in Nat
        /\ Ones(carrying[w] = r) \in Nat /\ AskedOf(r, w) \in Nat
        /\ asked'[w][r] \in Nat /\ Ones(t = w) \in Nat
    <3>1. asked'[w][r] \in Nat
      BY <1>1 DEF SearchInv, SearchTypeOK
    <3>. QED BY <1>1, <3>1, SurplusTypes DEF Ones
  <2>4. found[r][w] + InChannel(r, w) + asked'[w][r] + Ones(carrying[w] = r) <= AskedOf(r, w) + Ones(t = w)
    <3>1. found[r][w] + InChannel(r, w) + asked[w][r] + Ones(carrying[w] = r) <= AskedOf(r, w)
      BY <1>1 DEF NoSurplus
    <3>. QED BY ONLY <2>1, <2>3, <3>1
  <2>. QED BY <1>4, <2>2, <2>4 DEF NoSurplus
<1>. QED BY <1>6, <1>7

LEMMA ReceiveSurplus ==
  ASSUME SurplusInv, NEW q \in Requests, Receive(q), NEW r \in Requests, NEW w \in Wrappers
  PROVE  NoSurplus(r, w)'
<1>1. SearchInv /\ NoSurplus(r, w)
  BY DEF SurplusInv
<1>2. PICK h : h = Head(results[q])
  OBVIOUS
<1>3. /\ results' = [results EXCEPT ![q] = Tail(@)] /\ results[q] # <<>>
      /\ found' = [found EXCEPT ![q][h] = @ + 1] /\ UNCHANGED <<asked, carrying, sent>>
  BY <1>2 DEF Receive, netVars
<1>4. /\ found \in [Requests -> [Wrappers -> Nat]] /\ results \in [Requests -> Seq(Wrappers)]
      /\ results[q] \in Seq(Wrappers)
  BY <1>1 DEF SearchInv, SearchTypeOK
<1>5. UNCHANGED <<asked[w][r], Ones(carrying[w] = r), AskedOf(r, w)>>
  BY <1>3 DEF AskedOf, Ones
<1>6. CASE r # q
  <2>1. found'[r][w] = found[r][w]
    BY ONLY <1>3, <1>4, <1>6, w \in Wrappers, r \in Requests
  <2>2. InChannel(r, w)' = InChannel(r, w)
    BY <1>3, <1>4, <1>6 DEF InChannel
  <2>. QED BY <1>1, <1>5, <2>1, <2>2 DEF NoSurplus
<1>7. CASE r = q
  <2>1. found'[r][w] = found[r][w] + Ones(h = w)
    <3>1. found'[r] = [found[r] EXCEPT ![h] = @ + 1] /\ found[r] \in [Wrappers -> Nat]
      BY ONLY <1>3, <1>4, <1>7, r \in Requests
    <3>. QED BY ONLY <3>1, w \in Wrappers DEF Ones
  <2>2. InChannel(r, w)' + Ones(h = w) = InChannel(r, w)
    <3>1. results'[r] = Tail(results[r])
      BY <1>3, <1>4, <1>7
    <3>2. Cardinality(Places(Tail(results[q]), Len(Tail(results[q])), w)) + Ones(Head(results[q]) = w)
            = Cardinality(Places(results[q], Len(results[q]), w))
      BY <1>3, <1>4, PlacesTail
    <3>. QED BY <1>2, <1>7, <3>1, <3>2 DEF InChannel
  <2>3. PICK a, b, c, d, e, o : /\ a = found[r][w] /\ b = InChannel(r, w) /\ c = asked[w][r]
                               /\ d = Ones(carrying[w] = r) /\ e = AskedOf(r, w) /\ o = Ones(h = w)
    OBVIOUS
  <2>4. a \in Nat /\ b \in Nat /\ c \in Nat /\ d \in Nat /\ e \in Nat /\ o \in Nat
    BY <1>1, <2>3, SurplusTypes DEF Ones
  <2>5. PICK g : g = InChannel(r, w)' /\ g \in Nat /\ g + o = b
    <3>1. SearchInv'
      BY <1>1, ReceiveInv
    <3>2. InChannel(r, w)' \in Nat
      <4>1. Len(results'[r]) \in Nat
        BY <3>1 DEF SearchInv, SearchTypeOK
      <4>. QED BY <4>1, PlacesFinite DEF InChannel
    <3>. QED BY <2>2, <2>3, <3>2
  <2>6. a + b + c + d <= e
    BY <1>1, <2>3 DEF NoSurplus
  <2>7. (a + o) + g + c + d <= e
    BY ONLY <2>4, <2>5, <2>6
  <2>8. found'[r][w] + InChannel(r, w)' + asked'[w][r] + Ones(carrying[w] = r)' <= AskedOf(r, w)'
    BY <1>5, <2>1, <2>3, <2>5, <2>7
  <2>. QED BY <2>8 DEF NoSurplus
<1>. QED BY <1>6, <1>7

LEMMA DeliverLookupSurplus ==
  ASSUME SurplusInv, NEW v \in Wrappers, NEW q \in Requests, DeliverLookup(v, q),
         NEW r \in Requests, NEW w \in Wrappers
  PROVE  NoSurplus(r, w)'
<1>1. SearchInv /\ NoSurplus(r, w)
  BY DEF SurplusInv
<1>2. /\ carrying[v] = NoRequest /\ asked[v][q] > 0
      /\ asked' = [asked EXCEPT ![v][q] = @ - 1]
      /\ carrying' = [carrying EXCEPT ![v] = carrying'[v]] /\ carrying'[v] \in {q, NoRequest}
      /\ UNCHANGED <<sent, results, found>>
  BY <1>1, FitTypes DEF DeliverLookup, hubVars
<1>3. /\ asked \in [Wrappers -> [Requests -> Nat]] /\ NoRequest \notin Requests
      /\ carrying \in [Wrappers -> Requests \cup {NoRequest}]
  BY <1>1, FitTypes
<1>4. asked'[w][r] + Ones(carrying'[w] = r) <= asked[w][r] + Ones(carrying[w] = r)
  <2>1. asked[w][r] \in Nat
    BY <1>3
  <2>2. CASE w = v /\ r = q
    <3>1. asked'[w][r] = asked[w][r] - 1
      BY ONLY <1>2, <1>3, <2>2, w \in Wrappers, r \in Requests
    <3>. QED BY <1>2, <1>3, <2>1, <2>2, <3>1 DEF Ones
  <2>3. CASE ~(w = v /\ r = q)
    <3>1. asked'[w][r] = asked[w][r]
      BY ONLY <1>2, <1>3, <2>3, w \in Wrappers, r \in Requests
    <3>2. (carrying'[w] = r) => (carrying[w] = r)
      BY <1>2, <1>3, <2>3
    <3>. QED BY ONLY <2>1, <3>1, <3>2 DEF Ones
  <2>. QED BY <2>2, <2>3
<1>5. UNCHANGED <<found[r][w], InChannel(r, w), AskedOf(r, w)>>
  BY <1>2 DEF InChannel, AskedOf
<1>6. /\ found[r][w] \in Nat /\ InChannel(r, w) \in Nat /\ asked[w][r] \in Nat
      /\ Ones(carrying[w] = r) \in Nat /\ AskedOf(r, w) \in Nat
      /\ asked'[w][r] \in Nat /\ Ones(carrying'[w] = r) \in Nat
  <2>1. asked'[w][r] \in Nat
    BY <1>1, DeliverInv DEF SearchInv, SearchTypeOK
  <2>. QED BY <1>1, <2>1, SurplusTypes DEF Ones
<1>7. found[r][w] + InChannel(r, w) + asked[w][r] + Ones(carrying[w] = r) <= AskedOf(r, w)
  BY <1>1 DEF NoSurplus
<1>8. found[r][w] + InChannel(r, w) + asked'[w][r] + Ones(carrying'[w] = r) <= AskedOf(r, w)
  BY ONLY <1>4, <1>6, <1>7
<1>9. Ones(carrying[w] = r)' = Ones(carrying'[w] = r)
  BY DEF Ones
<1>. QED BY <1>5, <1>8, <1>9 DEF NoSurplus

LEMMA DeliverSendSurplus ==
  ASSUME SurplusInv, NEW v \in Wrappers, DeliverSend(v), NEW r \in Requests, NEW w \in Wrappers
  PROVE  NoSurplus(r, w)'
<1>1. SearchInv /\ NoSurplus(r, w)
  BY DEF SurplusInv
<1>2. PICK q \in Requests : q = carrying[v]
  BY <1>1, FitTypes DEF DeliverSend
<1>3. /\ results' = [results EXCEPT ![q] = IF Len(@) < Len(Targets[q]) THEN Append(@, v) ELSE @]
      /\ carrying' = [carrying EXCEPT ![v] = NoRequest]
      /\ UNCHANGED <<asked, sent, found>>
  BY <1>2 DEF DeliverSend, netVars
<1>4. /\ NoRequest \notin Requests /\ results \in [Requests -> Seq(Wrappers)]
      /\ carrying \in [Wrappers -> Requests \cup {NoRequest}]
  BY <1>1, FitTypes
<1>5. InChannel(r, w)' + Ones(carrying'[w] = r) <= InChannel(r, w) + Ones(carrying[w] = r)
  <2>1. InChannel(r, w) \in Nat /\ results[r] \in Seq(Wrappers)
    BY <1>1, <1>4, SurplusTypes
  <2>2. CASE r = q
    <3>1. Ones(carrying[w] = r) = Ones(carrying'[w] = r) + Ones(v = w)
      BY <1>2, <1>3, <1>4, <2>2 DEF Ones
    <3>2. InChannel(r, w)' \in {InChannel(r, w), InChannel(r, w) + Ones(v = w)}
      <4>1. results'[r] = results[r] \/ results'[r] = Append(results[r], v)
        BY <1>3, <1>4, <2>2
      <4>2. CASE results'[r] = Append(results[r], v)
        <5>1. Cardinality(Places(Append(results[r], v), Len(Append(results[r], v)), w))
                = Cardinality(Places(results[r], Len(results[r]), w)) + Ones(v = w)
          BY <2>1, PlacesAppend
        <5>. QED BY <4>2, <5>1 DEF InChannel
      <4>3. CASE results'[r] = results[r]
        BY <4>3 DEF InChannel
      <4>. QED BY <4>1, <4>2, <4>3
    <3>3. Ones(v = w) \in {0, 1} /\ Ones(carrying'[w] = r) \in {0, 1}
      BY DEF Ones
    <3>. QED BY ONLY <2>1, <3>1, <3>2, <3>3
  <2>3. CASE r # q
    <3>1. results'[r] = results[r] /\ (carrying'[w] = r) = (carrying[w] = r)
      BY <1>2, <1>3, <1>4, <2>3
    <3>2. InChannel(r, w)' = InChannel(r, w) /\ Ones(carrying'[w] = r) = Ones(carrying[w] = r)
      BY <3>1 DEF InChannel
    <3>. QED BY ONLY <2>1, <3>2 DEF Ones
  <2>. QED BY <2>2, <2>3
<1>6. UNCHANGED <<found[r][w], asked[w][r], AskedOf(r, w)>>
  BY <1>3 DEF AskedOf
<1>7. PICK g : g = InChannel(r, w)' /\ g \in Nat
  <2>1. results' \in [Requests -> Seq(Wrappers)]
    BY <1>1, DeliverInv DEF SearchInv, SearchTypeOK
  <2>2. results'[r] \in Seq(Wrappers)
    BY ONLY <2>1, r \in Requests
  <2>3. Len(results'[r]) \in Nat
    BY ONLY <2>2
  <2>. QED BY <2>3, PlacesFinite DEF InChannel
<1>8. /\ found[r][w] \in Nat /\ InChannel(r, w) \in Nat /\ asked[w][r] \in Nat
      /\ Ones(carrying[w] = r) \in Nat /\ AskedOf(r, w) \in Nat /\ Ones(carrying'[w] = r) \in Nat
  BY <1>1, SurplusTypes DEF Ones
<1>9. found[r][w] + InChannel(r, w) + asked[w][r] + Ones(carrying[w] = r) <= AskedOf(r, w)
  BY <1>1 DEF NoSurplus
<1>10. found[r][w] + g + asked[w][r] + Ones(carrying'[w] = r) <= AskedOf(r, w)
  BY ONLY <1>5, <1>7, <1>8, <1>9
<1>11. Ones(carrying[w] = r)' = Ones(carrying'[w] = r)
  BY DEF Ones
<1>. QED BY <1>6, <1>7, <1>10, <1>11 DEF NoSurplus

LEMMA RestSurplus ==
  ASSUME SurplusInv, NEW r \in Requests, NEW w \in Wrappers,
         \/ \E q \in Requests : Dispatch(q) \/ Wait(q) \/ TimeOut(q) \/ Answer(q)
         \/ \E v \in Wrappers : Disconnect(v) \/ Reconnect(v)
         \/ UNCHANGED vars
  PROVE  NoSurplus(r, w)'
<1>1. SearchInv /\ NoSurplus(r, w)
  BY DEF SurplusInv
<1>2. UNCHANGED <<carrying, sent, results, found>>
  BY DEF Dispatch, Wait, TimeOut, Answer, Disconnect, Reconnect, vars, netVars, hubVars
<1>3. asked'[w][r] \in {0, asked[w][r]}
  <2>1. UNCHANGED asked \/ \E v \in Wrappers : asked' = [asked EXCEPT ![v] = [x \in Requests |-> 0]]
    BY DEF Dispatch, Wait, TimeOut, Answer, Disconnect, Reconnect, vars, netVars, hubVars
  <2>2. asked \in [Wrappers -> [Requests -> Nat]]
    BY <1>1, FitTypes
  <2>3. ASSUME NEW v \in Wrappers, asked' = [asked EXCEPT ![v] = [x \in Requests |-> 0]]
        PROVE  asked'[w][r] \in {0, asked[w][r]}
    BY ONLY <2>2, <2>3, w \in Wrappers, r \in Requests
  <2>. QED BY <2>1, <2>3
<1>4. UNCHANGED <<found[r][w], InChannel(r, w), AskedOf(r, w), Ones(carrying[w] = r)>>
  BY <1>2 DEF InChannel, AskedOf, Ones
<1>5. /\ found[r][w] \in Nat /\ InChannel(r, w) \in Nat /\ asked[w][r] \in Nat
      /\ Ones(carrying[w] = r) \in Nat /\ AskedOf(r, w) \in Nat
  BY <1>1, SurplusTypes
<1>6. found[r][w] + InChannel(r, w) + asked[w][r] + Ones(carrying[w] = r) <= AskedOf(r, w)
  BY <1>1 DEF NoSurplus
<1>7. found[r][w] + InChannel(r, w) + asked'[w][r] + Ones(carrying[w] = r) <= AskedOf(r, w)
  BY ONLY <1>3, <1>5, <1>6
<1>. QED BY <1>4, <1>7 DEF NoSurplus

LEMMA NextSurplus == SurplusInv /\ [Next]_vars => SurplusInv'
<1>. SUFFICES ASSUME SurplusInv, [Next]_vars PROVE SurplusInv'
  OBVIOUS
<1>1. SearchInv'
  BY NextInv DEF SurplusInv
<1>2. ASSUME NEW r \in Requests, NEW w \in Wrappers PROVE NoSurplus(r, w)'
  <2>1. ASSUME NEW q \in Requests, Dispatch(q) \/ DispatchStep(q) PROVE NoSurplus(r, w)'
    BY <2>1, SendSurplus, ReceiveSurplus, RestSurplus DEF DispatchStep
  <2>2. ASSUME NEW v \in Wrappers,
               \/ \E q \in Requests : DeliverLookup(v, q)
               \/ DeliverSend(v) \/ Disconnect(v) \/ Reconnect(v)
        PROVE  NoSurplus(r, w)'
    BY <2>2, DeliverLookupSurplus, DeliverSendSurplus, RestSurplus
  <2>3. CASE UNCHANGED vars
    BY <2>3, RestSurplus
  <2>. QED BY <2>1, <2>2, <2>3 DEF Next
<1>. QED BY <1>1, <1>2 DEF SurplusInv

-----------------------------------------------------------------------------
(* The types of the awaiters, their channels and the wrappers' searches.   *)
THEOREM SearchTyped == Spec => []SearchTypeOK
<1>1. SearchInv => SearchTypeOK
  BY DEF SearchInv
<1>. QED BY InitInv, NextInv, <1>1, PTL DEF Spec

(* An answered search says of exactly the wrappers it was to ask how they  *)
(* did, and "ok" of exactly those it has matches of (searchhub.go,         *)
(* Dispatch): no timer, failed send or late result makes them disagree.    *)
THEOREM StatusesAreTrue == Spec => []StatusMatchesResults
<1>1. ASSUME SearchInv PROVE StatusMatchesResults
  <2>1. SUFFICES ASSUME NEW r \in Requests, phase[r] = "answered", NEW w \in Wrappers
                 PROVE  /\ (byWrapper[r][w] # "none") = (w \in Asks(r))
                        /\ (byWrapper[r][w] = "ok") = (found[r][w] > 0)
    BY DEF StatusMatchesResults, Asks
  <2>2. Gathered(r)
    BY <1>1 DEF SearchInv
  <2>3. expected[r] = {} /\ phase[r] # "idle"
    BY <2>1, <2>2 DEF Gathered
  <2>4. (byWrapper[r][w] # "none") <=> (w \in Asks(r))
    BY ONLY <2>2, <2>3, w \in Wrappers DEF Gathered
  <2>5. (byWrapper[r][w] = "ok") <=> (found[r][w] > 0)
    BY ONLY <2>2, w \in Wrappers DEF Gathered
  <2>. QED BY ONLY <2>4, <2>5
<1>. QED BY InitInv, NextInv, <1>1, PTL DEF Spec

(* A result that Deliver carries for an awaiter it has looked up finds room *)
(* in the channel (searchhub.go, Deliver), wrappers named twice included,   *)
(* since the channel has a place for each target and none answers twice.    *)
THEOREM ResultsFindRoom == Spec => []ResultsFit
<1>1. ASSUME FitInv PROVE ResultsFit
  <2>1. SUFFICES ASSUME NEW w \in Wrappers, NEW r \in Requests, r = carrying[w]
                 PROVE  Len(results[r]) < Len(Targets[r])
    <3>1. \A w \in Wrappers : carrying[w] # NoRequest => carrying[w] \in Requests
      BY <1>1, SearchAssumption DEF FitInv, SearchInv, SearchTypeOK
    <3>. QED BY <3>1 DEF ResultsFit
  <2>2. <<w, 0>> \in Pending(r)
    BY <2>1 DEF Pending
  <2>3. IsFiniteSet(Pending(r)) /\ Cardinality(Pending(r)) + Len(results[r]) <= sent[r]
    BY <1>1 DEF FitInv, PendingFit
  <2>4. Cardinality(Pending(r)) \in Nat /\ Cardinality(Pending(r)) # 0
    BY <2>2, <2>3, FS_CardinalityType, FS_EmptySet
  <2>5. /\ sent[r] \in Nat /\ sent[r] <= Len(Targets[r])
        /\ Len(Targets[r]) \in Nat /\ Len(results[r]) \in Nat
    BY <1>1, FitTypes DEF FitInv
  <2>. QED BY ONLY <2>3, <2>4, <2>5
<1>. QED BY InitFit, NextFit, <1>1, PTL DEF Spec

(* Of no wrapper does a search report more results than it asked it for     *)
(* (searchhub.go): an answer is taken once, also from a wrapper named twice, *)
(* one that was asked over two connections or one that is late.             *)
THEOREM NoResultIsSurplus == Spec => []NoSurplusResults
<1>1. ASSUME SurplusInv PROVE NoSurplusResults
  <2>1. SUFFICES ASSUME NEW r \in Requests, NEW w \in Wrappers
                 PROVE  found[r][w] <= AskedOf(r, w)
    BY DEF NoSurplusResults, AskedOf, Places
  <2>2. found[r][w] + InChannel(r, w) + asked[w][r] + Ones(carrying[w] = r) <= AskedOf(r, w)
    BY <1>1 DEF SurplusInv, NoSurplus
  <2>3. /\ found[r][w] \in Nat /\ InChannel(r, w) \in Nat /\ asked[w][r] \in Nat
        /\ Ones(carrying[w] = r) \in Nat /\ AskedOf(r, w) \in Nat
    BY <1>1, SurplusTypes DEF SurplusInv
  <2>. QED BY ONLY <2>2, <2>3
<1>. QED BY InitSurplus, NextSurplus, <1>1, PTL DEF Spec

(***************************************************************************)
(* The catalog: frames, link, backlog, chain of what pipe and rows say,    *)
(* and the projects of the rows.                                           *)
(***************************************************************************)
-----------------------------------------------------------------------------
LEMMA FrameTypes ==
  /\ Full(snap).full = TRUE /\ Full(snap).removed = {} /\ Full(snap).new = snap
  /\ snap \in Versions => Full(snap) \in Frame
  /\ NoFrame \in Frame
  /\ \A old, new \in Versions : \A ps \in SUBSET Touched(old, new) : Diff(old, new, ps) \in Frame
<1>1. NoFrame \in Frame
  BY CatalogAssumption DEF NoFrame, Frame, Versions
<1>2. ASSUME NEW old \in Versions, NEW new \in Versions, NEW ps \in SUBSET Touched(old, new)
      PROVE  Diff(old, new, ps) \in Frame
  <2>1. ps \subseteq Slugs
    BY <1>2 DEF Touched
  <2>2. [t \in Transcripts |-> IF new[t] # old[t] THEN new[t] ELSE 0] \in Versions
    BY CatalogAssumption DEF Versions
  <2>. QED BY <2>1, <2>2 DEF Diff, Frame
<1>. QED BY <1>1, <1>2 DEF Full, Frame

\* A list of frames behind another.
LEMMA Concats ==
  ASSUME NEW S, NEW a \in Seq(S), NEW b \in Seq(S)
  PROVE  /\ a \o b \in Seq(S) /\ Len(a \o b) = Len(a) + Len(b)
         /\ \A i \in 1..Len(a) : (a \o b)[i] = a[i]
         /\ \A i \in 1..Len(b) : (a \o b)[Len(a) + i] = b[i]
BY ConcatProperties

LEMMA HeadMoves ==
  ASSUME NEW S, NEW a \in Seq(S), NEW b \in Seq(S), b # <<>>
  PROVE  Append(a, Head(b)) \o Tail(b) = a \o b
<1>1. Append(a, Head(b)) \in Seq(S) /\ Tail(b) \in Seq(S) /\ a \o b \in Seq(S)
  OBVIOUS
<1>2. Append(a, Head(b)) \o Tail(b) \in Seq(S)
  BY <1>1
<1>3. Len(Append(a, Head(b)) \o Tail(b)) = Len(a \o b)
  BY <1>1
<1>4. \A i \in 1..Len(a \o b) : (Append(a, Head(b)) \o Tail(b))[i] = (a \o b)[i]
  BY <1>1
<1>. QED BY <1>1, <1>2, <1>3, <1>4, SeqEqual

LEMMA TailOfConcat ==
  ASSUME NEW S, NEW a \in Seq(S), NEW b \in Seq(S), a # <<>>
  PROVE  /\ Tail(a) \o b = Tail(a \o b) /\ a \o b # <<>>
         /\ Head(a) = a[1] /\ (a \o b)[1] = a[1]
<1>1. Tail(a) \in Seq(S) /\ a \o b \in Seq(S) /\ a \o b # <<>> /\ Len(Tail(a)) = Len(a) - 1
  OBVIOUS
<1>2. Tail(a) \o b \in Seq(S) /\ Tail(a \o b) \in Seq(S)
  BY <1>1
<1>3. Len(Tail(a) \o b) = Len(Tail(a \o b))
  BY <1>1
<1>4. \A i \in 1..Len(Tail(a) \o b) : (Tail(a) \o b)[i] = Tail(a \o b)[i]
  BY <1>1
<1>5. Tail(a) \o b = Tail(a \o b)
  BY <1>2, <1>3, <1>4, SeqEqual
<1>. QED BY <1>1, <1>5

LEMMA HeadOfAppend ==
  ASSUME NEW S, NEW a \in Seq(S), NEW h \in S, NEW e, e = Append(a, h)
  PROVE  e # <<>> /\ (a = <<>> => e[1] = h) /\ (a # <<>> => e[1] = a[1])
<1>1. e \in Seq(S) /\ Len(e) = Len(a) + 1 /\ Len(a) \in Nat
  OBVIOUS
<1>2. e # <<>>
  <2>1. Len(e) # 0
    BY <1>1
  <2>. QED BY <2>1
<1>3. CASE a = <<>>
  BY <1>1, <1>2, <1>3
<1>4. CASE a # <<>>
  <2>1. 1 \in 1..Len(a)
    BY <1>4
  <2>. QED BY <1>1, <1>2, <1>4, <2>1
<1>. QED BY <1>3, <1>4

LEMMA AppendToConcat ==
  ASSUME NEW S, NEW a \in Seq(S), NEW b \in Seq(S), NEW e \in S
  PROVE  a \o Append(b, e) = Append(a \o b, e) /\ b \o <<e>> = Append(b, e)
<1>1. a \o b \in Seq(S) /\ Append(b, e) \in Seq(S) /\ Append(a \o b, e) \in Seq(S)
  OBVIOUS
<1>2. a \o Append(b, e) \in Seq(S)
  BY <1>1
<1>3. b \o <<e>> = Append(b, e)
  OBVIOUS
<1>4. Len(a \o Append(b, e)) = Len(Append(a \o b, e))
  BY <1>1
<1>5. \A i \in 1..Len(Append(a \o b, e)) : (a \o Append(b, e))[i] = Append(a \o b, e)[i]
  BY <1>1
<1>. QED BY <1>1, <1>2, <1>3, <1>4, <1>5, SeqEqual

-----------------------------------------------------------------------------
(* Type correctness.                                                       *)
LEMMA InitialScanTypes ==
  ASSUME disk \in Versions, NEW which, NEW v \in InitialScan(which)
  PROVE  v \in Versions
<1>1. NoFiles \in Versions
  BY CatalogAssumption DEF NoFiles, Versions
<1>. QED BY <1>1 DEF InitialScan

LEMMA CatalogTypedInit == CatalogInit => CatalogTypeOK
<1>. SUFFICES ASSUME CatalogInit PROVE CatalogTypeOK
  OBVIOUS
<1>1. NoFrame \in Frame
  BY FrameTypes
<1>2. disk \in Versions /\ [t \in Transcripts |-> NoRow] \in [Transcripts -> Row]
  BY CatalogAssumption DEF CatalogInit, Versions, Row, NoRow
<1>3. frames \in [Conns -> Seq(Frame)] /\ frame \in [Conns -> Frame] /\ queue \in Seq(Frame)
  BY <1>1 DEF CatalogInit
<1>4. ids \in [Conns -> [Slugs -> Nat]] /\ projects \in [Slugs -> Nat] /\ lastId \in [Slugs -> Nat]
  BY DEF CatalogInit
<1>5. handler \in [Conns -> HandlerStates] /\ link \in [Conns -> {"up", "down"}]
  BY DEF CatalogInit, HandlerStates
<1>6. draining \in BOOLEAN
  BY Zenon DEF CatalogInit
<1>8. watcher \in {"first", "polling", "over"} /\ snap \in Versions
  BY <1>2, InitialScanTypes DEF CatalogInit
<1>7. edits \in 0..MaxEdits /\ Len(queue) <= QueueCap /\ lurking \in 0..MaxLurking /\ faults \in 0..MaxFaults
  BY CatalogAssumption DEF CatalogInit
<1>. QED BY <1>1, <1>2, <1>3, <1>4, <1>5, <1>6, <1>7, <1>8 DEF CatalogInit, CatalogTypeOK

LEMMA TypedDisk ==
  ASSUME CatalogTypeOK,
         \/ \E t \in Transcripts : Edit(t) \/ SoftDelete(t)
         \/ FirstScan \/ FirstScanFails \/ NetworkDrop \/ RunOnceReturns
  PROVE  CatalogTypeOK'
<1>. USE CatalogAssumption
<1>1. ASSUME NEW t \in Transcripts, Edit(t) PROVE CatalogTypeOK'
  <2>1. edits' \in 0..MaxEdits /\ edits + 2 \in 0..MaxEdits + 1
    BY <1>1 DEF Edit, CatalogTypeOK
  <2>2. disk' \in Versions
    <3>1. PICK v \in 0..MaxEdits + 1 : disk' = [disk EXCEPT ![t] = v]
      BY <1>1, <2>1 DEF Edit
    <3>. QED BY <3>1 DEF CatalogTypeOK, Versions
  <2>. QED BY <1>1, <2>1, <2>2 DEF Edit, CatalogTypeOK, watchVars, clientVars, connVars, handlerVars, storeVars
<1>2. ASSUME NEW t \in Transcripts, SoftDelete(t) PROVE CatalogTypeOK'
  <2>1. rows' \in [Transcripts -> Row] /\ hidden' \subseteq Transcripts
    BY <1>2 DEF SoftDelete, CatalogTypeOK, Row
  <2>. QED BY <1>2, <2>1 DEF SoftDelete, CatalogTypeOK, diskVars, watchVars, clientVars, connVars, handlerVars
<1>3. CASE FirstScan \/ FirstScanFails
  BY <1>3 DEF FirstScan, FirstScanFails, CatalogTypeOK, diskVars, clientVars, connVars, handlerVars, storeVars
<1>4. CASE NetworkDrop
  <2>1. link' \in [Conns -> {"up", "down"}] /\ faults' \in 0..MaxFaults
    BY <1>4 DEF NetworkDrop, Fault, CatalogTypeOK
  <2>. QED BY <1>4, <2>1 DEF NetworkDrop, CatalogTypeOK, diskVars, watchVars, clientVars, handlerVars, storeVars
<1>5. CASE RunOnceReturns
  <2>1. lurking' \in 0..MaxLurking /\ client' \in Conns \cup {NoConn}
    BY <1>5 DEF RunOnceReturns, CatalogTypeOK
  <2>2. draining' \in BOOLEAN
    BY <1>5, Zenon DEF RunOnceReturns
  <2>. QED BY <1>5, <2>1, <2>2 DEF RunOnceReturns, CatalogTypeOK, diskVars, watchVars, connVars, handlerVars, storeVars
<1>. QED BY <1>1, <1>2, <1>3, <1>4, <1>5

LEMMA TypedWatch ==
  ASSUME CatalogTypeOK, Scan \/ Push \/ SendDiff \/ StealDiff \/ WrapperRestart
  PROVE  CatalogTypeOK'
<1>. USE CatalogAssumption
<1>1. CASE Scan
  <2>1. pushing' \in Frame
    BY <1>1, FrameTypes DEF Scan, CatalogTypeOK
  <2>. QED BY <1>1, <2>1 DEF Scan, CatalogTypeOK, diskVars, clientVars, connVars, handlerVars, storeVars
<1>2. CASE Push
  <2>1. queue' \in Seq(Frame) /\ Len(queue') <= QueueCap /\ pushing' \in Frame
    BY <1>2, FrameTypes DEF Push, CatalogTypeOK
  <2>. QED BY <1>2, <2>1 DEF Push, CatalogTypeOK, diskVars, clientVars, connVars, handlerVars, storeVars
<1>3. CASE SendDiff
  <2>1. queue' \in Seq(Frame) /\ Len(queue') <= QueueCap
    BY <1>3 DEF SendDiff, CatalogTypeOK
  <2>2. Head(queue) \in Frame
    BY <1>3 DEF SendDiff, CatalogTypeOK
  <2>3. frames' \in [Conns -> Seq(Frame)]
    <3>1. CASE frames' = frames
      BY <3>1 DEF CatalogTypeOK
    <3>2. CASE frames' = [frames EXCEPT ![client] = Append(@, Head(queue))]
      <4>1. client \in Conns => Append(frames[client], Head(queue)) \in Seq(Frame)
        BY <2>2 DEF CatalogTypeOK
      <4>. QED BY <3>2, <4>1 DEF CatalogTypeOK
    <3>. QED BY <1>3, <3>1, <3>2 DEF SendDiff
  <2>4. draining' \in BOOLEAN /\ hole' \subseteq {"skipped", "lost", "raced", "stopped"}
    BY <1>3 DEF SendDiff, CatalogTypeOK
  <2>. QED BY <1>3, <2>1, <2>3, <2>4 DEF SendDiff, CatalogTypeOK, diskVars, watchVars, clientVars, connVars, handlerVars, storeVars
<1>4. CASE StealDiff
  <2>1. queue' \in Seq(Frame) /\ Len(queue') <= QueueCap /\ lurking' \in 0..MaxLurking
    BY <1>4 DEF StealDiff, CatalogTypeOK
  <2>. QED BY <1>4, <2>1 DEF StealDiff, CatalogTypeOK, diskVars, watchVars, clientVars, connVars, handlerVars, storeVars
<1>5. CASE WrapperRestart
  <2>1. link' \in [Conns -> {"up", "down"}] /\ faults' \in 0..MaxFaults /\ pushing' \in Frame
    BY <1>5, FrameTypes DEF WrapperRestart, Fault, CatalogTypeOK
  <2>2. draining' \in BOOLEAN
    BY <1>5, Zenon DEF WrapperRestart
  <2>4. watcher' \in {"first", "polling", "over"} /\ snap' \in Versions
    BY <1>5, InitialScanTypes DEF WrapperRestart, CatalogTypeOK
  <2>3. queue' \in Seq(Frame) /\ Len(queue') <= QueueCap /\ lurking' \in 0..MaxLurking
    BY <1>5 DEF WrapperRestart
  <2>. QED BY <1>5, <2>1, <2>2, <2>3, <2>4 DEF WrapperRestart, CatalogTypeOK, diskVars, handlerVars, storeVars
<1>. QED BY <1>1, <1>2, <1>3, <1>4, <1>5

LEMMA TypedConn ==
  ASSUME CatalogTypeOK, NEW c \in Conns,
         Connect(c) \/ Register(c) \/ TakeFrame(c) \/ Unregister(c)
  PROVE  CatalogTypeOK'
<1>. USE CatalogAssumption
<1>1. CASE Connect(c)
  <2>1. <<Full(snap)>> \in Seq(Frame)
    BY FrameTypes DEF CatalogTypeOK
  <2>2. frames' \in [Conns -> Seq(Frame)] /\ link' \in [Conns -> {"up", "down"}]
    BY <1>1, <2>1 DEF Connect, CatalogTypeOK
  <2>3. handler' \in [Conns -> HandlerStates]
    BY <1>1 DEF Connect, CatalogTypeOK, HandlerStates
  <2>. QED BY <1>1, <2>2, <2>3 DEF Connect, CatalogTypeOK, diskVars, watchVars, storeVars
<1>2. CASE Register(c)
  <2>1. handler' \in [Conns -> HandlerStates] /\ reg' \in Conns \cup {NoConn}
    BY <1>2 DEF Register, CatalogTypeOK, HandlerStates
  <2>2. link' \in [Conns -> {"up", "down"}] /\ frames' \in [Conns -> Seq(Frame)]
    <3>1. CASE reg = NoConn
      BY <1>2, <3>1 DEF Register, ClosedByServer, CatalogTypeOK
    <3>2. CASE reg \in Conns /\ Len(frames[reg]) > 1
      <4>1. <<Head(frames[reg])>> \in Seq(Frame)
        BY <3>2 DEF CatalogTypeOK
      <4>. QED BY <1>2, <3>2, <4>1 DEF Register, ClosedByServer, CatalogTypeOK
    <3>3. CASE reg \in Conns /\ Len(frames[reg]) <= 1
      BY <1>2, <3>3 DEF Register, ClosedByServer, CatalogTypeOK
    <3>. QED BY <3>1, <3>2, <3>3 DEF CatalogTypeOK
  <2>. QED BY <1>2, <2>1, <2>2 DEF Register, CatalogTypeOK, diskVars, watchVars, clientVars, storeVars
<1>3. CASE TakeFrame(c)
  <2>1. Head(frames[c]) \in Frame /\ Tail(frames[c]) \in Seq(Frame)
    BY <1>3 DEF TakeFrame, CatalogTypeOK
  <2>2. frames' \in [Conns -> Seq(Frame)] /\ frame' \in [Conns -> Frame]
    BY <1>3, <2>1 DEF TakeFrame, CatalogTypeOK
  <2>3. handler' \in [Conns -> HandlerStates]
    BY <1>3 DEF TakeFrame, CatalogTypeOK, HandlerStates
  <2>. QED BY <1>3, <2>2, <2>3 DEF TakeFrame, CatalogTypeOK, diskVars, watchVars, clientVars, storeVars
<1>4. CASE Unregister(c)
  <2>1. handler' \in [Conns -> HandlerStates]
    BY <1>4 DEF Unregister, CatalogTypeOK, HandlerStates
  <2>2. link' \in [Conns -> {"up", "down"}]
    BY <1>4 DEF Unregister, CatalogTypeOK
  <2>3. \A d \in Conns : frames[d] # <<>> => <<Head(frames[d])>> \in Seq(Frame)
    BY DEF CatalogTypeOK
  <2>4. frames' \in [Conns -> Seq(Frame)]
    BY <1>4, <2>3 DEF Unregister, CatalogTypeOK
  <2>. QED BY <1>4, <2>1, <2>2, <2>4 DEF Unregister, CatalogTypeOK, diskVars, watchVars, clientVars, storeVars
<1>. QED BY <1>1, <1>2, <1>3, <1>4

LEMMA TypedApply ==
  ASSUME CatalogTypeOK, NEW c \in Conns,
         UpsertProjects(c) \/ PruneProjects(c) \/ UpsertTranscripts(c) \/ RemoveTranscripts(c)
  PROVE  CatalogTypeOK'
<1>. USE CatalogAssumption
<1>1. handler' \in [Conns -> HandlerStates]
  BY DEF UpsertProjects, PruneProjects, UpsertTranscripts, RemoveTranscripts, RemoveRows,
         CatalogTypeOK, HandlerStates
<1>2. CASE UpsertProjects(c)
  <2>1. lastId' \in [Slugs -> Nat]
    BY <1>2 DEF UpsertProjects, CatalogTypeOK
  <2>2. projects' \in [Slugs -> Nat] /\ \A p \in Slugs : projects'[p] \in {0, lastId'[p]}
    BY <1>2, <2>1 DEF UpsertProjects, CatalogTypeOK
  <2>3. ids' \in [Conns -> [Slugs -> Nat]]
    <3>1. \A qs : [p \in Slugs |-> IF p \in qs THEN projects'[p] ELSE 0] \in [Slugs -> Nat]
      BY <2>2
    <3>. QED BY <1>2, <3>1 DEF UpsertProjects, CatalogTypeOK
  <2>. QED BY <1>1, <1>2, <2>1, <2>2, <2>3
       DEF UpsertProjects, ApplyUnchanged, CatalogTypeOK, diskVars, watchVars, clientVars, connVars
<1>3. CASE PruneProjects(c)
  <2>1. projects' \in [Slugs -> Nat] /\ \A p \in Slugs : projects'[p] \in {0, lastId'[p]}
    BY <1>3 DEF PruneProjects, CatalogTypeOK
  <2>. QED BY <1>1, <1>3, <2>1
       DEF PruneProjects, ApplyUnchanged, CatalogTypeOK, diskVars, watchVars, clientVars, connVars
<1>4. CASE UpsertTranscripts(c)
  <2>1. frame[c].new \in Versions /\ \A t \in Transcripts : ids[c][Slug[t]] \in Nat
    <3>1. \A t \in Transcripts : Slug[t] \in Slugs
      BY DEF Slugs
    <3>2. frame[c] \in Frame /\ ids[c] \in [Slugs -> Nat]
      BY DEF CatalogTypeOK
    <3>. QED BY <3>1, <3>2 DEF Frame
  <2>2. \A t \in Transcripts : [rows[t] EXCEPT !.version = frame[c].new[t], !.project = ids[c][Slug[t]]] \in Row
    <3>1. \A t \in Transcripts : rows[t] \in Row /\ frame[c].new[t] \in 0..MaxEdits + 1
      BY <2>1 DEF CatalogTypeOK, Versions
    <3>. QED BY <2>1, <3>1 DEF Row
  <2>3. rows' \in [Transcripts -> Row] /\ hole' \subseteq {"skipped", "lost", "raced", "stopped"}
    <3>1. PICK done :
             rows' = [t \in Transcripts |->
                        IF t \in done
                        THEN [rows[t] EXCEPT !.version = frame[c].new[t], !.project = ids[c][Slug[t]]]
                        ELSE rows[t]]
      BY <1>4 DEF UpsertTranscripts
    <3>2. rows' \in [Transcripts -> Row]
      BY <2>2, <3>1 DEF CatalogTypeOK
    <3>3. hole' \in {hole, hole \cup {"stopped"}}
      BY <1>4 DEF UpsertTranscripts
    <3>. QED BY <3>2, <3>3 DEF CatalogTypeOK
  <2>. QED BY <1>1, <1>4, <2>3
       DEF UpsertTranscripts, ApplyUnchanged, CatalogTypeOK, diskVars, watchVars, clientVars, connVars
<1>5. CASE RemoveTranscripts(c)
  <2>1. NoRow \in Row /\ NoFrame \in Frame
    BY FrameTypes DEF NoRow, Row
  <2>2. rows' \in [Transcripts -> Row] /\ frame' \in [Conns -> Frame] /\ ids' \in [Conns -> [Slugs -> Nat]]
    BY <1>5, <2>1 DEF RemoveTranscripts, RemoveRows, CatalogTypeOK
  <2>. QED BY <1>1, <1>5, <2>2
       DEF RemoveTranscripts, RemoveRows, ApplyUnchanged, CatalogTypeOK, diskVars, watchVars, clientVars, connVars
<1>. QED BY <1>2, <1>3, <1>4, <1>5

LEMMA TypedNext == CatalogTypeOK /\ [CatalogNext]_catalogVars => CatalogTypeOK'
<1>. SUFFICES ASSUME CatalogTypeOK, [CatalogNext]_catalogVars PROVE CatalogTypeOK'
  OBVIOUS
<1>1. CASE UNCHANGED catalogVars
  BY <1>1 DEF CatalogTypeOK, catalogVars, diskVars, watchVars, clientVars, connVars, handlerVars, storeVars
<1>. QED BY <1>1, TypedDisk, TypedWatch, TypedConn, TypedApply DEF CatalogNext, HandlerStep

\* Every variable keeps its type: the queue its capacity, versions what was
\* written, ids of projects those that were assigned.
THEOREM CatalogTyped == CatalogSpec => []CatalogTypeOK
<1>. QED BY CatalogTypedInit, TypedNext, PTL DEF CatalogSpec

\* Only the removals of an incremental diff lift a soft deletion: a snapshot
\* takes no hidden row away, and an upsert does not touch the mark.
THEOREM SnapshotsKeepDeletions == CatalogSpec => SoftDeleteSurvivesFull
<1>1. ASSUME CatalogTypeOK, [CatalogNext]_catalogVars,
             NEW t \in Transcripts, rows[t].gone, ~rows'[t].gone
      PROVE  \E c \in Conns : handler[c] = "remove" /\ ~frame[c].full
  <2>1. rows[t] \in Row /\ rows' # rows
    BY <1>1 DEF CatalogTypeOK
  <2>2. CASE \E u \in Transcripts : SoftDelete(u)
    BY <1>1, <2>1, <2>2 DEF SoftDelete, CatalogTypeOK, Row
  <2>3. CASE \E c \in Conns : UpsertTranscripts(c)
    <3>1. PICK c \in Conns : \E done :
             rows' = [u \in Transcripts |->
                        IF u \in done
                        THEN [rows[u] EXCEPT !.version = frame[c].new[u], !.project = ids[c][Slug[u]]]
                        ELSE rows[u]]
      BY <2>3 DEF UpsertTranscripts
    <3>2. rows'[t].gone = rows[t].gone
      BY <2>1, <3>1 DEF Row
    <3>. QED BY <1>1, <3>2
  <2>4. CASE \E c \in Conns : RemoveTranscripts(c)
    BY <1>1, <2>4 DEF RemoveTranscripts, RemoveRows
  <2>5. CatalogNext
    BY <1>1, <2>1 DEF catalogVars, storeVars
  <2>. QED BY <2>1, <2>2, <2>3, <2>4, <2>5
       DEF CatalogNext, HandlerStep, Edit, FirstScan, FirstScanFails, Scan, Push, SendDiff, StealDiff, RunOnceReturns,
           NetworkDrop, WrapperRestart, Connect, Register, TakeFrame, Unregister, UpsertProjects,
           PruneProjects, storeVars
<1>2. CatalogTypeOK /\ [CatalogNext]_catalogVars =>
        [\A t \in Transcripts : rows[t].gone /\ ~rows'[t].gone =>
           \E c \in Conns : handler[c] = "remove" /\ ~frame[c].full]_catalogVars
  BY <1>1
<1>. QED BY <1>2, CatalogTyped, PTL DEF CatalogSpec, SoftDeleteSurvivesFull

-----------------------------------------------------------------------------
Up(c) == link[c] = "up"

\* The snapshot of c has yet to be taken from the wire, or has been taken.
FullPending(c) == frames[c] # <<>> /\ frames[c][1].full
FullTaken(c) == Up(c) /\ handler[c] \notin {"none", "dialled"} /\ ~FullPending(c)

\* What the wrapper has scanned and not yet given to a connection, and with
\* what c carries, all that its handler has yet to take.
Backlog == queue \o (IF pushing = NoFrame THEN <<>> ELSE <<pushing>>)
Pipe(c) == frames[c] \o Backlog

\* A frame decides what becomes of the row of t, and the last of a pipe that
\* does says what the wrapper's snapshot v says.
Decides(f, t) == f.full \/ f.new[t] # 0 \/ t \in f.removed
Undecided(P, t) == \A i \in 1..Len(P) : ~Decides(P[i], t)
LastOn(P, t, i) ==
  i \in 1..Len(P) /\ Decides(P[i], t) /\ \A j \in i + 1..Len(P) : ~Decides(P[j], t)
LastSays(P, v) == \A t \in Transcripts : \A i \in 1..Len(P) : LastOn(P, t, i) => P[i].new[t] = v[t]

\* The frames that snapshotToCatalogDiff and Diff produce.
WellFormed(f) ==
  IF f.full
  THEN f.removed = {} /\ \A t \in Transcripts : f.new[t] # 0 => Slug[t] \in f.projects
  ELSE \A t \in f.removed : f.new[t] = 0
Incremental(f) == WellFormed(f) /\ ~f.full

FramesInv ==
  /\ \A i \in 1..Len(queue) : Incremental(queue[i])
  /\ Incremental(pushing)
  /\ \A c \in Conns : /\ WellFormed(frame[c])
                      /\ handler[c] = "prune" => frame[c].full
                      /\ \A i \in 1..Len(frames[c]) :
                           WellFormed(frames[c][i]) /\ (i > 1 => ~frames[c][i].full)

\* The connection that is up is the client's; its handler serves it, as the
\* hub's, or has the snapshot to come; and no other applies a frame with it.
Linked(c) ==
  /\ c = client
  /\ handler[c] # "none"
  /\ IF handler[c] = "dialled" THEN FullPending(c) ELSE reg = c
  /\ ~FullPending(c) /\ "raced" \notin hole => \A d \in Conns \ {c} : ~Applying(d)

LinkInv == \A c \in Conns : Up(c) => Linked(c)

BacklogInv ==
  /\ watcher # "polling" => queue = <<>> /\ pushing = NoFrame
  /\ LastSays(Backlog, snap)

\* Row of t as it is, or as the frame being applied leaves it.
Current(c, t) ==
  IF Applying(c) /\ Decides(frame[c], t)
  THEN /\ frame[c].new[t] = snap[t]
       /\ handler[c] = "remove" /\ snap[t] # 0 => rows[t].version = snap[t]
  ELSE rows[t].version = snap[t] \/ (rows[t].gone /\ snap[t] = 0)

\* p has a row in the store that the frame being applied does not delete, or
\* that it is about to create.
Standing(c, p) ==
  /\ ~FullPending(c)
  /\ ~(handler[c] \in {"upsert", "prune"} /\ frame[c].full /\ p \notin frame[c].projects)
  /\ projects[p] # 0 \/ (handler[c] = "upsert" /\ p \in frame[c].projects)

\* It has one, or will once the first n frames of the pipe are applied.
Reached(c, p, n) == Standing(c, p) \/ \E j \in 1..n : p \in Pipe(c)[j].projects

\* The rows that no frame to come decides are right; projects that have
\* transcripts are there once the pipe is empty, or as soon as the last frame
\* that mentions a transcript of theirs is applied.
SaidInPipe(c) == LastSays(Pipe(c), snap)
SaidInRows(c) == \A t \in Transcripts : Undecided(Pipe(c), t) => Current(c, t)
ProjectsReached(c) == \A p \in Slugs : Present(snap, p) # {} => Reached(c, p, Len(Pipe(c)))
MentionsReached(c) ==
  \A t \in Transcripts : \A i \in 1..Len(Pipe(c)) :
    snap[t] # 0 /\ LastOn(Pipe(c), t, i) => Reached(c, Slug[t], i)
MentionKnown(c, t) ==
  /\ handler[c] = "upsert" => Standing(c, Slug[t])
  /\ handler[c] \in {"prune", "transcripts"} => ids[c][Slug[t]] # 0
MentionsKnown(c) ==
  Applying(c) => \A t \in Transcripts :
    snap[t] # 0 /\ Undecided(Pipe(c), t) /\ Decides(frame[c], t) => MentionKnown(c, t)

Chain(c) ==
  SaidInPipe(c) /\ SaidInRows(c) /\ ProjectsReached(c) /\ MentionsReached(c) /\ MentionsKnown(c)

ChainInv == hole = {} => \A c \in Conns : Up(c) => Chain(c)

Visible(t) == rows[t].version # 0 /\ ~rows[t].gone
Placed(t) == rows[t].project # 0 /\ rows[t].project = projects[Slug[t]]

Housed(c) ==
  /\ handler[c] = "serving" \/ (Applying(c) /\ ~frame[c].full) =>
       \A t \in Transcripts : Visible(t) => Placed(t)
  /\ handler[c] = "transcripts" /\ ~frame[c].full => \A p \in Slugs : ids[c][p] \in {0, projects[p]}
  /\ handler[c] \in {"prune", "transcripts"} /\ frame[c].full =>
       \A p \in frame[c].projects : ids[c][p] # 0 /\ ids[c][p] = projects[p]
  /\ handler[c] = "remove" /\ frame[c].full =>
       \A t \in Transcripts : frame[c].new[t] # 0 => Placed(t)

HousedInv == "raced" \notin hole => \A c \in Conns : FullTaken(c) => Housed(c)

-----------------------------------------------------------------------------
(* What the pipe of a connection says.                                     *)
LEMMA BacklogTypes == CatalogTypeOK => Backlog \in Seq(Frame) /\ \A c \in Conns : Pipe(c) \in Seq(Frame)
<1>. SUFFICES ASSUME CatalogTypeOK PROVE Backlog \in Seq(Frame) /\ \A c \in Conns : Pipe(c) \in Seq(Frame)
  OBVIOUS
<1>1. queue \in Seq(Frame) /\ pushing \in Frame /\ \A c \in Conns : frames[c] \in Seq(Frame)
  BY DEF CatalogTypeOK
<1>2. Backlog \in Seq(Frame)
  BY <1>1 DEF Backlog
<1>. QED BY <1>1, <1>2 DEF Pipe

LEMMA BacklogTaken ==
  ASSUME CatalogTypeOK, queue # <<>>, queue' = Tail(queue), pushing' = pushing
  PROVE  /\ Backlog # <<>> /\ Backlog' = Tail(Backlog) /\ Head(Backlog) = Head(queue)
<1>1. queue \in Seq(Frame) /\ pushing \in Frame
  BY DEF CatalogTypeOK
<1>2. CASE pushing = NoFrame
  BY <1>1, <1>2 DEF Backlog
<1>3. CASE pushing # NoFrame
  <2>1. <<pushing>> \in Seq(Frame)
    BY <1>1
  <2>2. Backlog = queue \o <<pushing>> /\ Backlog' = Tail(queue) \o <<pushing>>
    BY <1>3 DEF Backlog
  <2>3. Tail(queue) \o <<pushing>> = Tail(queue \o <<pushing>>) /\ queue \o <<pushing>> # <<>>
        /\ Head(queue) = queue[1] /\ (queue \o <<pushing>>)[1] = queue[1]
    BY <1>1, <2>1, TailOfConcat
  <2>. QED BY <2>2, <2>3
<1>. QED BY <1>2, <1>3

LEMMA BacklogPushed == ASSUME CatalogTypeOK, Push PROVE Backlog' = Backlog
<1>1. queue \in Seq(Frame) /\ pushing \in Frame
  BY DEF CatalogTypeOK
<1>2. Backlog = queue \o <<pushing>> /\ Backlog' = Append(queue, pushing) \o <<>>
  BY DEF Push, Backlog
<1>. QED BY <1>1, <1>2, AppendToConcat

LEMMA BacklogScanned ==
  ASSUME CatalogTypeOK, pushing = NoFrame, pushing' \in Frame, pushing' # NoFrame, queue' = queue
  PROVE  /\ Backlog' = Append(Backlog, pushing')
         /\ \A c \in Conns : frames'[c] = frames[c] => Pipe(c)' = Append(Pipe(c), pushing')
<1>1. queue \in Seq(Frame) /\ \A c \in Conns : frames[c] \in Seq(Frame)
  BY DEF CatalogTypeOK
<1>2. Backlog = queue /\ Backlog' = queue \o <<pushing'>>
  BY <1>1 DEF Backlog
<1>3. Backlog' = Append(Backlog, pushing')
  BY <1>1, <1>2, AppendToConcat
<1>4. ASSUME NEW c \in Conns, frames'[c] = frames[c] PROVE Pipe(c)' = Append(Pipe(c), pushing')
  <2>1. PICK a \in Seq(Frame) : a = frames[c]
    BY <1>1
  <2>2. a \o Append(queue, pushing') = Append(a \o queue, pushing')
    BY <1>1, AppendToConcat
  <2>. QED BY <1>2, <1>3, <1>4, <2>1, <2>2 DEF Pipe
<1>. QED BY <1>3, <1>4

LEMMA LastOfTail ==
  ASSUME NEW P \in Seq(Frame), P # <<>>, NEW t
  PROVE  /\ \A i : LastOn(Tail(P), t, i) => i \in Nat /\ LastOn(P, t, i + 1)
         /\ Undecided(Tail(P), t) => IF Decides(P[1], t) THEN LastOn(P, t, 1) ELSE Undecided(P, t)
<1>1. /\ Len(Tail(P)) = Len(P) - 1 /\ Len(P) \in Nat \ {0}
      /\ \A i \in 1..Len(P) - 1 : Tail(P)[i] = P[i + 1]
  OBVIOUS
<1>2. \A j \in 2..Len(P) : j - 1 \in 1..Len(P) - 1 /\ P[j] = Tail(P)[j - 1]
  BY <1>1
<1>3. ASSUME NEW i, LastOn(Tail(P), t, i) PROVE i \in Nat /\ LastOn(P, t, i + 1)
  <2>1. i \in 1..Len(P) - 1 /\ Decides(P[i + 1], t)
    BY <1>1, <1>3 DEF LastOn
  <2>2. ASSUME NEW j \in i + 2..Len(P) PROVE ~Decides(P[j], t)
    <3>1. j - 1 \in i + 1..Len(Tail(P)) /\ j \in 2..Len(P)
      BY <1>1, <2>1
    <3>. QED BY <1>2, <1>3, <3>1 DEF LastOn
  <2>. QED BY <1>1, <2>1, <2>2 DEF LastOn
<1>4. ASSUME Undecided(Tail(P), t), NEW j \in 2..Len(P) PROVE ~Decides(P[j], t)
  BY <1>1, <1>2, <1>4 DEF Undecided
<1>. QED BY <1>1, <1>3, <1>4 DEF LastOn, Undecided

LEMMA LastOfAppend ==
  ASSUME NEW P \in Seq(Frame), NEW f \in Frame, NEW t
  PROVE  /\ \A i : LastOn(Append(P, f), t, i) =>
                     IF Decides(f, t) THEN i = Len(P) + 1 ELSE LastOn(P, t, i)
         /\ Undecided(Append(P, f), t) => Undecided(P, t) /\ ~Decides(f, t)
<1>1. /\ Len(Append(P, f)) = Len(P) + 1 /\ Len(P) \in Nat /\ Append(P, f)[Len(P) + 1] = f
      /\ \A i \in 1..Len(P) : Append(P, f)[i] = P[i]
  OBVIOUS
<1>2. ASSUME NEW i, LastOn(Append(P, f), t, i), Decides(f, t) PROVE i = Len(P) + 1
  BY <1>1, <1>2 DEF LastOn
<1>3. ASSUME NEW i, LastOn(Append(P, f), t, i), ~Decides(f, t) PROVE LastOn(P, t, i)
  <2>1. i \in 1..Len(P)
    BY <1>1, <1>3 DEF LastOn
  <2>. QED BY <1>1, <1>3, <2>1 DEF LastOn
<1>. QED BY <1>1, <1>2, <1>3 DEF Undecided

LEMMA LastOfSnapshot ==
  ASSUME NEW P \in Seq(Frame), NEW f \in Frame, f.full, NEW t
  PROVE  /\ <<f>> \o P \in Seq(Frame) /\ (<<f>> \o P)[1] = f
         /\ \A i : LastOn(<<f>> \o P, t, i) =>
                     \/ i = 1
                     \/ i \in 2..Len(<<f>> \o P) /\ LastOn(P, t, i - 1) /\ (<<f>> \o P)[i] = P[i - 1]
         /\ ~Undecided(<<f>> \o P, t)
<1>1. /\ Len(<<f>> \o P) = Len(P) + 1 /\ Len(P) \in Nat /\ (<<f>> \o P)[1] = f
      /\ \A i \in 1..Len(P) : (<<f>> \o P)[i + 1] = P[i]
      /\ <<f>> \o P \in Seq(Frame)
  OBVIOUS
<1>2. ASSUME NEW i, LastOn(<<f>> \o P, t, i), i # 1
      PROVE  i \in 2..Len(<<f>> \o P) /\ LastOn(P, t, i - 1) /\ (<<f>> \o P)[i] = P[i - 1]
  <2>1. i \in 2..Len(P) + 1 /\ i - 1 \in 1..Len(P) /\ (<<f>> \o P)[i] = P[i - 1]
    BY <1>1, <1>2 DEF LastOn
  <2>2. ASSUME NEW j \in (i - 1) + 1..Len(P) PROVE ~Decides(P[j], t)
    <3>1. j + 1 \in i + 1..Len(<<f>> \o P) /\ j \in 1..Len(P)
      BY <1>1, <2>1
    <3>. QED BY <1>1, <1>2, <3>1 DEF LastOn
  <2>. QED BY <1>1, <1>2, <2>1, <2>2 DEF LastOn
<1>3. ~Undecided(<<f>> \o P, t)
  BY <1>1 DEF Undecided, Decides
<1>. QED BY <1>1, <1>2, <1>3

-----------------------------------------------------------------------------
(* What travels is what the wrapper produces.                              *)
LEMMA Produced ==
  /\ WellFormed(NoFrame) /\ Incremental(NoFrame)
  /\ WellFormed(Full(snap))
  /\ \A old, new \in Versions : \A ps : Incremental(Diff(old, new, ps))
  /\ \A p \in Slugs : p \in Full(snap).projects <=> Present(snap, p) # {}
<1>1. WellFormed(NoFrame) /\ Incremental(NoFrame)
  BY DEF WellFormed, Incremental, NoFrame
<1>2. \A p \in Slugs : p \in Full(snap).projects <=> Present(snap, p) # {}
  BY DEF Full
<1>3. WellFormed(Full(snap))
  <2>1. ASSUME NEW t \in Transcripts, snap[t] # 0 PROVE Slug[t] \in Full(snap).projects
    <3>1. Slug[t] \in Slugs /\ t \in Present(snap, Slug[t])
      BY <2>1 DEF Slugs, Present
    <3>. QED BY <3>1, <1>2
  <2>. QED BY <2>1, FrameTypes DEF WellFormed
<1>4. ASSUME NEW old \in Versions, NEW new \in Versions, NEW ps PROVE Incremental(Diff(old, new, ps))
  BY DEF Diff, Incremental, WellFormed
<1>. QED BY <1>1, <1>2, <1>3, <1>4

LEMMA FramesInit == CatalogInit => FramesInv
BY Produced DEF CatalogInit, FramesInv

LEMMA FramesWatch ==
  ASSUME CatalogTypeOK, FramesInv, Scan \/ Push \/ SendDiff \/ StealDiff \/ WrapperRestart
  PROVE  FramesInv'
<1>. USE DEF CatalogTypeOK
<1>0. queue # <<>> => /\ Head(queue) \in Frame /\ Incremental(Head(queue))
                      /\ \A i \in 1..Len(Tail(queue)) : Incremental(Tail(queue)[i])
  BY DEF FramesInv
<1>1. CASE Scan
  <2>1. Incremental(pushing')
    BY <1>1, Produced DEF Scan
  <2>. QED BY <1>1, <2>1 DEF Scan, FramesInv, handlerVars, connVars
<1>2. CASE Push
  <2>1. \A i \in 1..Len(queue') : Incremental(queue'[i])
    <3>1. Len(queue') = Len(queue) + 1 /\ queue'[Len(queue) + 1] = pushing
          /\ \A i \in 1..Len(queue) : queue'[i] = queue[i]
      BY <1>2 DEF Push
    <3>2. Incremental(pushing) /\ \A i \in 1..Len(queue) : Incremental(queue[i])
      BY DEF FramesInv
    <3>3. \A i \in 1..Len(queue') : i \in 1..Len(queue) \/ i = Len(queue) + 1
      BY <3>1
    <3>. QED BY <3>1, <3>2, <3>3
  <2>2. Incremental(pushing')
    BY <1>2, Produced DEF Push
  <2>. QED BY <1>2, <2>1, <2>2 DEF Push, FramesInv, handlerVars, connVars
<1>3. CASE SendDiff
  <2>1. \A i \in 1..Len(queue') : Incremental(queue'[i])
    BY <1>0, <1>3 DEF SendDiff
  <2>2. ASSUME NEW c \in Conns, NEW i \in 1..Len(frames'[c])
        PROVE  WellFormed(frames'[c][i]) /\ (i > 1 => ~frames'[c][i].full)
    <3>1. CASE frames'[c] = frames[c]
      BY <2>2, <3>1 DEF FramesInv
    <3>2. CASE frames'[c] = Append(frames[c], Head(queue))
      <4>1. frames[c] \in Seq(Frame) /\ Head(queue) \in Frame
        BY <1>0, <1>3 DEF SendDiff
      <4>2. CASE i \in 1..Len(frames[c])
        <5>1. frames'[c][i] = frames[c][i]
          BY <3>2, <4>1, <4>2
        <5>. QED BY <4>2, <5>1 DEF FramesInv
      <4>3. CASE i = Len(frames[c]) + 1
        <5>1. frames'[c][i] = Head(queue)
          BY <3>2, <4>1, <4>3
        <5>. QED BY <1>0, <1>3, <5>1 DEF SendDiff, Incremental
      <4>. QED BY <2>2, <3>2, <4>1, <4>2, <4>3
    <3>. QED BY <1>3, <3>1, <3>2 DEF SendDiff
  <2>. QED BY <1>3, <2>1, <2>2 DEF SendDiff, FramesInv, handlerVars, watchVars
<1>4. CASE StealDiff
  <2>1. \A i \in 1..Len(queue') : Incremental(queue'[i])
    BY <1>0, <1>4 DEF StealDiff
  <2>. QED BY <1>4, <2>1 DEF StealDiff, FramesInv, handlerVars, connVars, watchVars
<1>5. CASE WrapperRestart
  BY <1>5, Produced DEF WrapperRestart, FramesInv, handlerVars
<1>. QED BY <1>1, <1>2, <1>3, <1>4, <1>5

\* A handler's connection loses frames, but those that stay keep their place.
CutAt(c) == \/ frames'[c] \in {frames[c], <<>>}
            \/ (frames[c] # <<>> /\ frames'[c] = <<Head(frames[c])>>)

LEMMA FramesCut ==
  ASSUME CatalogTypeOK, FramesInv, UNCHANGED <<queue, pushing, frame>>,
         \A c \in Conns : CutAt(c),
         \A c \in Conns : handler'[c] = "prune" => handler[c] = "prune"
  PROVE  FramesInv'
<1>1. ASSUME NEW c \in Conns, NEW i \in 1..Len(frames'[c])
      PROVE  WellFormed(frames'[c][i]) /\ (i > 1 => ~frames'[c][i].full)
  <2>0. \/ frames'[c] \in {frames[c], <<>>}
        \/ (frames[c] # <<>> /\ frames'[c] = <<Head(frames[c])>>)
    BY <1>1 DEF CutAt
  <2>1. PICK s \in Seq(Frame) : s = frames[c]
    BY DEF CatalogTypeOK
  <2>2. PICK e : e = frames'[c] /\ (e = s \/ e = <<>> \/ (s # <<>> /\ e = <<Head(s)>>))
    BY ONLY <2>0, <2>1
  <2>3. i \in 1..Len(e)
    BY <1>1, <2>2
  <2>4. i \in 1..Len(s) /\ e[i] = s[i]
    BY ONLY <2>2, <2>3, s \in Seq(Frame)
  <2>. QED BY <2>1, <2>2, <2>4 DEF FramesInv
<1>. QED BY <1>1 DEF FramesInv

LEMMA FramesConn ==
  ASSUME CatalogTypeOK, FramesInv, NEW c \in Conns,
         Connect(c) \/ Register(c) \/ TakeFrame(c) \/ Unregister(c)
  PROVE  FramesInv'
<1>. USE DEF CatalogTypeOK
<1>1. CASE Connect(c)
  <2>1. ASSUME NEW d \in Conns, NEW i \in 1..Len(frames'[d])
        PROVE  WellFormed(frames'[d][i]) /\ (i > 1 => ~frames'[d][i].full)
    <3>1. CASE d = c
      <4>1. frames'[d] = <<Full(snap)>>
        BY <1>1, <3>1 DEF Connect
      <4>2. i = 1 /\ frames'[d][i] = Full(snap)
        BY <2>1, <4>1
      <4>. QED BY <4>2, Produced
    <3>2. CASE d # c
      BY <1>1, <2>1, <3>2 DEF Connect, FramesInv
    <3>. QED BY <3>1, <3>2
  <2>2. \A d \in Conns : handler'[d] = "prune" => handler[d] = "prune"
    BY <1>1 DEF Connect
  <2>. QED BY <1>1, <2>1, <2>2 DEF Connect, FramesInv, watchVars
<1>2. CASE Register(c)
  <2>1. \A d \in Conns : handler'[d] = "prune" => handler[d] = "prune"
    BY <1>2 DEF Register
  <2>2. \A d \in Conns : CutAt(d)
    BY <1>2 DEF Register, ClosedByServer, CutAt
  <2>. QED BY <1>2, <2>1, <2>2, FramesCut DEF Register, watchVars
<1>3. CASE TakeFrame(c)
  <2>1. ASSUME NEW d \in Conns, NEW i \in 1..Len(frames'[d])
        PROVE  WellFormed(frames'[d][i]) /\ (i > 1 => ~frames'[d][i].full)
    <3>1. CASE d = c
      <4>1. i + 1 \in 1..Len(frames[d]) /\ frames'[d][i] = frames[d][i + 1]
        BY <1>3, <2>1, <3>1 DEF TakeFrame
      <4>2. \A j \in 1..Len(frames[d]) : WellFormed(frames[d][j]) /\ (j > 1 => ~frames[d][j].full)
        BY DEF FramesInv
      <4>3. WellFormed(frames[d][i + 1]) /\ ~frames[d][i + 1].full
        BY <4>1, <4>2
      <4>. QED BY <4>1, <4>3
    <3>2. CASE d # c
      BY <1>3, <2>1, <3>2 DEF TakeFrame, FramesInv
    <3>. QED BY <3>1, <3>2
  <2>2. WellFormed(frame'[c])
    BY <1>3 DEF TakeFrame, FramesInv
  <2>3. \A d \in Conns : WellFormed(frame'[d]) /\ (handler'[d] = "prune" => frame'[d].full)
    BY <1>3, <2>2 DEF TakeFrame, FramesInv
  <2>. QED BY <1>3, <2>1, <2>3 DEF TakeFrame, FramesInv, watchVars
<1>4. CASE Unregister(c)
  <2>1. \A d \in Conns : handler'[d] = "prune" => handler[d] = "prune"
    BY <1>4 DEF Unregister
  <2>2. \A d \in Conns : CutAt(d)
    BY <1>4 DEF Unregister, CutAt
  <2>. QED BY <1>4, <2>1, <2>2, FramesCut DEF Unregister, watchVars
<1>. QED BY <1>1, <1>2, <1>3, <1>4

LEMMA FramesApply ==
  ASSUME CatalogTypeOK, FramesInv, NEW c \in Conns,
         UpsertProjects(c) \/ PruneProjects(c) \/ UpsertTranscripts(c) \/ RemoveTranscripts(c)
  PROVE  FramesInv'
<1>. USE DEF CatalogTypeOK
<1>1. UNCHANGED <<queue, pushing, frames>>
  BY DEF UpsertProjects, PruneProjects, UpsertTranscripts, RemoveTranscripts, RemoveRows,
         ApplyUnchanged, watchVars, connVars
<1>2. \A d \in Conns : WellFormed(frame'[d])
  <2>1. \A d \in Conns : frame'[d] \in {frame[d], NoFrame}
    BY DEF UpsertProjects, PruneProjects, UpsertTranscripts, RemoveTranscripts, RemoveRows
  <2>. QED BY <2>1, Produced DEF FramesInv
<1>3. \A d \in Conns : handler'[d] = "prune" => frame'[d].full
  <2>1. CASE UpsertProjects(c)
    BY <2>1 DEF UpsertProjects, FramesInv
  <2>2. CASE PruneProjects(c) \/ UpsertTranscripts(c)
    <3>1. frame' = frame /\ \A d \in Conns : handler'[d] \in {handler[d], "transcripts", "remove"}
      BY <2>2 DEF PruneProjects, UpsertTranscripts
    <3>. QED BY <3>1 DEF FramesInv
  <2>3. CASE RemoveTranscripts(c)
    BY <2>3 DEF RemoveTranscripts, RemoveRows, FramesInv
  <2>. QED BY <2>1, <2>2, <2>3
<1>. QED BY <1>1, <1>2, <1>3 DEF FramesInv

LEMMA FramesNext ==
  ASSUME CatalogTypeOK, FramesInv, [CatalogNext]_catalogVars
  PROVE  FramesInv'
<1>1. CASE UNCHANGED <<queue, pushing, frames, frame, handler>>
  BY <1>1 DEF FramesInv
<1>2. CASE \/ \E t \in Transcripts : Edit(t) \/ SoftDelete(t)
           \/ FirstScan \/ FirstScanFails \/ RunOnceReturns \/ NetworkDrop \/ UNCHANGED catalogVars
  BY <1>1, <1>2 DEF Edit, SoftDelete, FirstScan, FirstScanFails, RunOnceReturns, NetworkDrop, catalogVars,
                    watchVars, connVars, handlerVars
<1>. QED BY <1>2, FramesWatch, FramesConn, FramesApply DEF CatalogNext, HandlerStep

-----------------------------------------------------------------------------
(* The connection that is up.                                              *)
LEMMA LinkInit == CatalogInit => LinkInv
BY DEF CatalogInit, LinkInv, Up

LEMMA LinkedStays ==
  ASSUME NEW c \in Conns, Linked(c), client' = client, handler'[c] # "none",
         handler'[c] = "dialled" <=> handler[c] = "dialled",
         handler[c] # "dialled" => reg' = reg,
         FullPending(c)' <=> FullPending(c), hole \subseteq hole',
         \A d \in Conns \ {c} : Applying(d)' => Applying(d)
  PROVE  Linked(c)'
BY DEF Linked

LEMMA LinkWatch ==
  ASSUME CatalogTypeOK, FramesInv, LinkInv,
         \/ \E t \in Transcripts : Edit(t) \/ SoftDelete(t)
         \/ FirstScan \/ FirstScanFails \/ Scan \/ Push \/ SendDiff \/ StealDiff
         \/ RunOnceReturns \/ NetworkDrop \/ WrapperRestart \/ UNCHANGED catalogVars
  PROVE  LinkInv'
<1>. SUFFICES ASSUME NEW c \in Conns, Up(c)' PROVE Linked(c)'
  BY DEF LinkInv
<1>. USE DEF CatalogTypeOK
<1>1. UNCHANGED <<handler, reg>>
  BY DEF Edit, SoftDelete, FirstScan, FirstScanFails, Scan, Push, SendDiff, StealDiff, RunOnceReturns,
         NetworkDrop, WrapperRestart, catalogVars, handlerVars
<1>2. hole \subseteq hole'
  BY DEF Edit, SoftDelete, FirstScan, FirstScanFails, Scan, Push, SendDiff, StealDiff, RunOnceReturns,
         NetworkDrop, WrapperRestart, catalogVars
<1>3. CASE UNCHANGED <<link, frames, client>>
  BY <1>1, <1>2, <1>3, LinkedStays DEF LinkInv, Linked, Up, FullPending, Applying
<1>4. CASE SendDiff
  <2>1. Up(c) /\ UNCHANGED <<link, client>>
    BY <1>4 DEF SendDiff, Up
  <2>2. FullPending(c)' <=> FullPending(c)
    <3>1. CASE frames'[c] = frames[c]
      BY <3>1 DEF FullPending
    <3>2. CASE frames'[c] = Append(frames[c], Head(queue))
      <4>1. frames[c] \in Seq(Frame) /\ ~Head(queue).full
        BY <1>4 DEF SendDiff, FramesInv, Incremental
      <4>2. frames'[c] # <<>> /\ frames'[c][1] = IF frames[c] = <<>> THEN Head(queue) ELSE frames[c][1]
        <5>1. PICK a \in Seq(Frame) : a = frames[c]
          BY <4>1
        <5>2. PICK h \in Frame : h = Head(queue)
          BY <1>4 DEF SendDiff
        <5>3. PICK e : e = frames'[c] /\ e = Append(a, h)
          BY <3>2, <5>1, <5>2
        <5>4. e # <<>> /\ (a = <<>> => e[1] = h) /\ (a # <<>> => e[1] = a[1])
          BY ONLY <5>3, a \in Seq(Frame), h \in Frame, HeadOfAppend
        <5>. QED BY <5>1, <5>2, <5>3, <5>4
      <4>. QED BY <4>1, <4>2 DEF FullPending
    <3>. QED BY <1>4, <3>1, <3>2 DEF SendDiff
  <2>. QED BY <1>1, <1>2, <2>1, <2>2, LinkedStays DEF LinkInv, Linked, Applying
<1>5. CASE RunOnceReturns \/ WrapperRestart
  <2>1. Up(c) /\ c # client
    BY <1>5 DEF RunOnceReturns, WrapperRestart, Up, connVars
  <2>. QED BY <2>1 DEF LinkInv, Linked
<1>6. CASE NetworkDrop
  <2>1. Up(c) /\ UNCHANGED <<frames, client>>
    BY <1>6 DEF NetworkDrop, Up, clientVars
  <2>. QED BY <1>1, <1>2, <2>1, LinkedStays DEF LinkInv, Linked, FullPending, Applying
<1>. QED BY <1>3, <1>4, <1>5, <1>6
     DEF Edit, SoftDelete, FirstScan, FirstScanFails, Scan, Push, StealDiff, catalogVars, clientVars, connVars

LEMMA LinkConn ==
  ASSUME CatalogTypeOK, FramesInv, LinkInv, NEW d \in Conns,
         Connect(d) \/ Register(d) \/ TakeFrame(d) \/ Unregister(d)
  PROVE  LinkInv'
<1>. SUFFICES ASSUME NEW c \in Conns, Up(c)' PROVE Linked(c)'
  BY DEF LinkInv
<1>. USE DEF CatalogTypeOK
<1>1. CASE Connect(d)
  <2>1. ~Up(c)
    BY <1>1, CatalogAssumption DEF Connect, LinkInv, Linked
  <2>2. c = d
    BY <1>1, <2>1 DEF Connect, Up
  <2>3. frames'[c] = <<Full(snap)>> /\ handler'[c] = "dialled" /\ client' = c
    BY <1>1, <2>2 DEF Connect
  <2>4. FullPending(c)'
    BY <2>3, FrameTypes DEF FullPending
  <2>. QED BY <2>3, <2>4 DEF Linked
<1>2. CASE Register(d)
  <2>1. Up(c) /\ UNCHANGED <<client, hole>> /\ reg' = d
    BY <1>2 DEF Register, ClosedByServer, Up, clientVars
  <2>2. c # reg
    BY <1>2, <2>1, CatalogAssumption DEF Register, ClosedByServer, Up
  <2>3. frames'[c] = frames[c]
    BY <1>2, <2>2 DEF Register, ClosedByServer
  <2>4. handler[c] = "dialled" /\ FullPending(c) /\ c = client
    BY <2>1, <2>2 DEF LinkInv, Linked
  <2>5. handler'[c] = IF c = d THEN "serving" ELSE "dialled"
    BY <1>2, <2>4 DEF Register
  <2>. QED BY <2>1, <2>3, <2>4, <2>5 DEF Linked, FullPending
<1>3. CASE TakeFrame(d)
  <2>1. Up(c) /\ Linked(c) /\ UNCHANGED <<client, reg>> /\ hole \subseteq hole'
    BY <1>3 DEF TakeFrame, Up, LinkInv, clientVars
  <2>2. CASE c = d
    <3>1. handler[c] = "serving" /\ handler'[c] = "upsert"
      BY <1>3, <2>2 DEF TakeFrame
    <3>2. "raced" \notin hole' => \A e \in Conns \ {c} : ~Applying(e)'
      BY <1>3, <2>2 DEF TakeFrame, Applying
    <3>. QED BY <2>1, <3>1, <3>2 DEF Linked
  <2>3. CASE c # d
    <3>1. frames'[c] = frames[c] /\ handler'[c] = handler[c]
      BY <1>3, <2>3 DEF TakeFrame
    <3>2. ~FullPending(c) => "raced" \in hole'
      BY <1>3, <2>1, <2>3 DEF TakeFrame, Linked
    <3>. QED BY <2>1, <3>1, <3>2 DEF Linked, FullPending
  <2>. QED BY <2>2, <2>3
<1>4. CASE Unregister(d)
  <2>1. Up(c) /\ c # reg /\ c # d /\ UNCHANGED <<client, hole>>
    BY <1>4 DEF Unregister, Up, clientVars
  <2>2. handler'[c] = handler[c] /\ frames'[c] = frames[c]
    BY <1>4, <2>1 DEF Unregister
  <2>3. handler[c] = "dialled" /\ FullPending(c) /\ c = client
    BY <2>1 DEF LinkInv, Linked
  <2>. QED BY <2>1, <2>2, <2>3 DEF Linked, FullPending
<1>. QED BY <1>1, <1>2, <1>3, <1>4

LEMMA LinkApply ==
  ASSUME CatalogTypeOK, FramesInv, LinkInv, NEW d \in Conns,
         UpsertProjects(d) \/ PruneProjects(d) \/ UpsertTranscripts(d) \/ RemoveTranscripts(d)
  PROVE  LinkInv'
<1>. SUFFICES ASSUME NEW c \in Conns, Up(c)' PROVE Linked(c)'
  BY DEF LinkInv
<1>1. UNCHANGED <<link, frames, client, reg>>
  BY DEF UpsertProjects, PruneProjects, UpsertTranscripts, RemoveTranscripts, RemoveRows,
         ApplyUnchanged, clientVars, connVars
<1>2. hole \subseteq hole'
  BY DEF UpsertProjects, PruneProjects, UpsertTranscripts, RemoveTranscripts, RemoveRows
<1>3. /\ Applying(d) /\ handler'[d] \in {"prune", "transcripts", "remove", "serving"}
      /\ \A e \in Conns \ {d} : handler'[e] = handler[e]
  BY DEF UpsertProjects, PruneProjects, UpsertTranscripts, RemoveTranscripts, RemoveRows,
         CatalogTypeOK, Applying
<1>4. Up(c) /\ Linked(c)
  BY <1>1 DEF Up, LinkInv
<1>. QED BY <1>1, <1>2, <1>3, <1>4, LinkedStays DEF Linked, FullPending, Applying

LEMMA LinkNext == ASSUME CatalogTypeOK, FramesInv, LinkInv, [CatalogNext]_catalogVars PROVE LinkInv'
BY LinkWatch, LinkConn, LinkApply DEF CatalogNext, HandlerStep

-----------------------------------------------------------------------------
(* What waits at the wrapper.                                              *)
LEMMA BacklogInit == CatalogInit => BacklogInv
<1>. SUFFICES ASSUME CatalogInit PROVE BacklogInv
  OBVIOUS
<1>1. Backlog = <<>>
  BY DEF CatalogInit, Backlog
<1>. QED BY <1>1 DEF CatalogInit, BacklogInv, LastSays

\* Taking the first frame of a pipe leaves what its last ones say, and so
\* does a diff from the snapshot that they said to the next.
LEMMA SaysOnTail == ASSUME NEW P \in Seq(Frame), P # <<>>, NEW v, LastSays(P, v) PROVE LastSays(Tail(P), v)
<1>. SUFFICES ASSUME NEW t \in Transcripts, NEW i \in 1..Len(Tail(P)), LastOn(Tail(P), t, i)
              PROVE  Tail(P)[i] .new[t] = v[t]
  BY DEF LastSays
<1>1. i + 1 \in 1..Len(P) /\ Tail(P)[i] = P[i + 1]
  OBVIOUS
<1>2. LastOn(P, t, i + 1)
  BY LastOfTail
<1>. QED BY <1>1, <1>2 DEF LastSays

LEMMA DiffDecides ==
  ASSUME NEW old \in Versions, NEW new \in Versions, NEW ps \in SUBSET Touched(old, new), NEW t \in Transcripts
  PROVE  /\ Decides(Diff(old, new, ps), t) <=> new[t] # old[t]
         /\ Decides(Diff(old, new, ps), t) => Diff(old, new, ps).new[t] = new[t]
         /\ old # new => Diff(old, new, ps) # NoFrame
<1>1. \A u \in Transcripts : /\ Decides(Diff(old, new, ps), u) <=> new[u] # old[u]
                             /\ new[u] # old[u] => Diff(old, new, ps).new[u] = new[u]
  BY DEF Diff, Decides, Versions
<1>2. \A u \in Transcripts : ~Decides(NoFrame, u)
  BY DEF Decides, NoFrame
<1>3. old # new => \E u \in Transcripts : new[u] # old[u]
  BY DEF Versions
<1>. QED BY <1>1, <1>2, <1>3

LEMMA SaysOnDiff ==
  ASSUME NEW P \in Seq(Frame), NEW old \in Versions, NEW new \in Versions, LastSays(P, old),
         NEW ps \in SUBSET Touched(old, new)
  PROVE  LastSays(Append(P, Diff(old, new, ps)), new)
<1>. SUFFICES ASSUME NEW t \in Transcripts, NEW i \in 1..Len(Append(P, Diff(old, new, ps))),
                     LastOn(Append(P, Diff(old, new, ps)), t, i)
              PROVE  Append(P, Diff(old, new, ps))[i].new[t] = new[t]
  BY DEF LastSays
<1>. DEFINE f == Diff(old, new, ps)
<1>1. f \in Frame
  BY FrameTypes
<1>2. /\ Decides(f, t) <=> new[t] # old[t]
      /\ Decides(f, t) => f.new[t] = new[t]
  BY DiffDecides
<1>3. IF Decides(f, t) THEN i = Len(P) + 1 ELSE LastOn(P, t, i)
  BY <1>1, LastOfAppend
<1>. HIDE DEF f
<1>4. CASE Decides(f, t)
  <2>1. Append(P, f)[i] = f
    BY <1>1, <1>3, <1>4
  <2>. QED BY <1>2, <1>4, <2>1 DEF f
<1>5. CASE ~Decides(f, t)
  <2>1. i \in 1..Len(P) /\ Append(P, f)[i] = P[i]
    BY <1>1, <1>3, <1>5 DEF LastOn
  <2>. QED BY <1>2, <1>3, <1>5, <2>1 DEF LastSays, f
<1>. QED BY <1>4, <1>5

LEMMA BacklogNext == ASSUME CatalogTypeOK, FramesInv, BacklogInv, [CatalogNext]_catalogVars PROVE BacklogInv'
<1>1. Backlog \in Seq(Frame) /\ snap \in Versions /\ disk \in Versions
  BY BacklogTypes DEF CatalogTypeOK
<1>2. CASE UNCHANGED <<watcher, snap, pushing, queue>>
  BY <1>2 DEF BacklogInv, Backlog, LastSays, LastOn, Decides
<1>3. CASE FirstScan \/ FirstScanFails \/ WrapperRestart
  <2>1. queue' = <<>> /\ pushing' = NoFrame
    BY <1>3 DEF FirstScan, FirstScanFails, WrapperRestart, BacklogInv
  <2>2. Backlog' = <<>>
    BY <2>1 DEF Backlog
  <2>. QED BY <2>1, <2>2 DEF BacklogInv, LastSays
<1>4. CASE Scan
  <2>1. PICK ps \in SUBSET Touched(snap, disk) : pushing' = Diff(snap, disk, ps)
    BY <1>4 DEF Scan
  <2>2. pushing' \in Frame /\ pushing' # NoFrame /\ pushing = NoFrame /\ UNCHANGED queue
        /\ watcher' = "polling" /\ snap' = disk
    <3>1. pushing' # NoFrame
      <4>1. PICK t \in Transcripts : snap[t] # disk[t]
        BY <1>1, <1>4 DEF Scan, Versions
      <4>. QED BY <1>1, <1>4, <2>1, <4>1, DiffDecides DEF Scan
    <3>. QED BY <1>1, <1>4, <2>1, <3>1, FrameTypes DEF Scan
  <2>3. Backlog' = Append(Backlog, Diff(snap, disk, ps))
    BY <2>1, <2>2, BacklogScanned
  <2>4. LastSays(Append(Backlog, Diff(snap, disk, ps)), disk)
    BY <1>1, SaysOnDiff DEF BacklogInv
  <2>. QED BY <2>2, <2>3, <2>4 DEF BacklogInv
<1>5. CASE Push
  <2>1. Backlog' = Backlog /\ watcher' = watcher /\ snap' = snap /\ watcher = "polling"
    BY <1>5, BacklogPushed DEF Push, BacklogInv
  <2>. QED BY <2>1 DEF BacklogInv
<1>6. CASE SendDiff \/ StealDiff
  <2>1. queue # <<>> /\ queue' = Tail(queue) /\ UNCHANGED <<watcher, snap, pushing>> /\ watcher = "polling"
    BY <1>6 DEF SendDiff, StealDiff, watchVars, BacklogInv
  <2>2. Backlog' = Tail(Backlog) /\ Backlog # <<>>
    BY <2>1, BacklogTaken
  <2>3. LastSays(Tail(Backlog), snap)
    BY <1>1, <2>2, SaysOnTail DEF BacklogInv
  <2>. QED BY <2>1, <2>2, <2>3 DEF BacklogInv
<1>. QED BY <1>2, <1>3, <1>4, <1>5, <1>6
     DEF CatalogNext, catalogVars, HandlerStep, Edit, SoftDelete, RunOnceReturns, NetworkDrop, Connect,
         Register, TakeFrame, Unregister, UpsertProjects, PruneProjects, UpsertTranscripts,
         RemoveTranscripts, RemoveRows, ApplyUnchanged, watchVars

-----------------------------------------------------------------------------
(* What rows and pipe of the connection that is up add up to.              *)

\* Nothing that the chain is about changes.
LEMMA ChainQuiet ==
  ASSUME NEW c \in Conns, Chain(c), Pipe(c)' = Pipe(c), UNCHANGED <<snap, projects>>,
         FullPending(c)' <=> FullPending(c),
         handler'[c] = handler[c], frame'[c] = frame[c], ids'[c] = ids[c],
         \A t \in Transcripts : rows'[t].version = rows[t].version /\ (rows[t].gone => rows'[t].gone)
  PROVE  Chain(c)'
<1>1. SaidInPipe(c)'
  BY DEF Chain, SaidInPipe, LastSays, LastOn, Decides
<1>2. \A t : Undecided(Pipe(c), t)' <=> Undecided(Pipe(c), t)
  BY DEF Undecided, Decides
<1>3. SaidInRows(c)'
  BY <1>2 DEF Chain, SaidInRows, Current, Applying, Decides
<1>4. \A p, n : Reached(c, p, n) => Reached(c, p, n)'
  BY DEF Reached, Standing
<1>5. ProjectsReached(c)'
  BY <1>4 DEF Chain, ProjectsReached, Present
<1>6. MentionsReached(c)'
  BY <1>4 DEF Chain, MentionsReached, LastOn, Decides
<1>7. MentionsKnown(c)'
  BY <1>2 DEF Chain, MentionsKnown, MentionKnown, Applying, Decides, Standing
<1>. QED BY <1>1, <1>3, <1>5, <1>6, <1>7 DEF Chain

\* While the snapshot is to come, it is all that counts.
LEMMA ChainPending ==
  ASSUME CatalogTypeOK, NEW c \in Conns, Chain(c), Pipe(c)' = Pipe(c), snap' = snap,
         FullPending(c), FullPending(c)'
  PROVE  Chain(c)'
<1>1. SaidInPipe(c)'
  BY DEF Chain, SaidInPipe, LastSays, LastOn, Decides
<1>2. \A t : ~Undecided(Pipe(c), t) /\ ~Undecided(Pipe(c), t)'
  <2>1. frames[c] \in Seq(Frame) /\ Backlog \in Seq(Frame) /\ frames[c] # <<>>
    BY BacklogTypes DEF CatalogTypeOK, FullPending
  <2>2. Pipe(c)[1] = frames[c][1] /\ 1 \in 1..Len(Pipe(c))
    <3>1. PICK a \in Seq(Frame), b \in Seq(Frame) : a = frames[c] /\ b = Backlog
      BY <2>1
    <3>2. (a \o b)[1] = a[1] /\ 1 \in 1..Len(a \o b)
      BY <2>1, <3>1
    <3>. QED BY <3>1, <3>2 DEF Pipe
  <2>3. Pipe(c)[1].full
    BY <2>2 DEF FullPending
  <2>. QED BY <2>2, <2>3 DEF Undecided, Decides
<1>3. SaidInRows(c)' /\ MentionsKnown(c)'
  BY <1>2 DEF SaidInRows, MentionsKnown
<1>4. \A p, n : Reached(c, p, n) => Reached(c, p, n)'
  BY DEF Reached, Standing
<1>5. ProjectsReached(c)'
  BY <1>4 DEF Chain, ProjectsReached, Present
<1>6. MentionsReached(c)'
  BY <1>4 DEF Chain, MentionsReached, LastOn, Decides
<1>. QED BY <1>1, <1>3, <1>5, <1>6 DEF Chain

LEMMA ChainConnect ==
  ASSUME CatalogTypeOK, BacklogInv, NEW c \in Conns, Connect(c)
  PROVE  Chain(c)'
<1>. DEFINE f == Full(snap)
            P == <<f>> \o Backlog
<1>1. f \in Frame /\ f.full /\ f.new = snap /\ Backlog \in Seq(Frame)
      /\ \A p \in Slugs : p \in f.projects <=> Present(snap, p) # {}
  BY FrameTypes, BacklogTypes, Produced DEF CatalogTypeOK
<1>2. /\ Pipe(c)' = P /\ snap' = snap /\ ~Applying(c)'
      /\ FullPending(c)'
  <2>1. frames'[c] = <<f>> /\ handler'[c] = "dialled" /\ UNCHANGED <<queue, pushing, snap>>
    BY DEF Connect, CatalogTypeOK, watchVars
  <2>. QED BY <1>1, <2>1 DEF Pipe, Backlog, FullPending, Applying
<1>. HIDE DEF f
<1>3. /\ P \in Seq(Frame) /\ P[1] = f /\ 1 \in 1..Len(P)
      /\ \A t : ~Undecided(P, t)
      /\ \A t, i : LastOn(P, t, i) => i = 1 \/ (i \in 2..Len(P) /\ LastOn(Backlog, t, i - 1) /\ P[i] = Backlog[i - 1])
  <2>1. Len(P) = Len(Backlog) + 1
    BY <1>1
  <2>2. P \in Seq(Frame) /\ P[1] = f
    BY <1>1
  <2>3. ASSUME NEW t
        PROVE  /\ ~Undecided(P, t)
               /\ \A i : LastOn(P, t, i) => i = 1 \/ (i \in 2..Len(P) /\ LastOn(Backlog, t, i - 1) /\ P[i] = Backlog[i - 1])
    BY <1>1, LastOfSnapshot
  <2>4. 1 \in 1..Len(P)
    BY <1>1, <2>1
  <2>. HIDE DEF P
  <2>. QED BY <2>2, <2>3, <2>4
<1>. HIDE DEF P
<1>4. LastSays(P, snap)
  <2>. SUFFICES ASSUME NEW t \in Transcripts, NEW i \in 1..Len(P), LastOn(P, t, i)
                PROVE  P[i].new[t] = snap[t]
    BY DEF LastSays
  <2>1. CASE i = 1
    BY <1>1, <1>3, <2>1
  <2>2. CASE i # 1
    <3>1. LastOn(Backlog, t, i - 1) /\ P[i] = Backlog[i - 1]
      BY <1>3, <2>2
    <3>2. i - 1 \in 1..Len(Backlog)
      BY <3>1 DEF LastOn
    <3>. QED BY <3>1, <3>2 DEF BacklogInv, LastSays
  <2>. QED BY <2>1, <2>2
<1>5. SaidInPipe(c)'
  BY <1>2, <1>4 DEF SaidInPipe, LastSays, LastOn, Decides
<1>6. SaidInRows(c)' /\ MentionsKnown(c)'
  BY <1>2, <1>3 DEF SaidInRows, MentionsKnown, Undecided, Decides
<1>7. \A p \in Slugs : \A n \in Nat : Present(snap, p) # {} /\ n >= 1 => Reached(c, p, n)'
  <2>. SUFFICES ASSUME NEW p \in Slugs, NEW n \in Nat, Present(snap, p) # {}, n >= 1 PROVE Reached(c, p, n)'
    OBVIOUS
  <2>1. 1 \in 1..n /\ p \in P[1].projects
    BY <1>1, <1>3
  <2>. QED BY <1>2, <2>1 DEF Reached
<1>8. ProjectsReached(c)'
  <2>1. Len(P) \in Nat /\ Len(P) >= 1
    BY <1>3
  <2>. QED BY <1>2, <1>7, <2>1 DEF ProjectsReached, Present
<1>9. MentionsReached(c)'
  <2>. SUFFICES ASSUME NEW t \in Transcripts, NEW i \in 1..Len(P), snap[t] # 0 PROVE Reached(c, Slug[t], i)'
    BY <1>2 DEF MentionsReached
  <2>1. Slug[t] \in Slugs /\ t \in Present(snap, Slug[t])
    BY DEF Slugs, Present
  <2>. QED BY <1>7, <2>1
<1>. QED BY <1>5, <1>6, <1>8, <1>9 DEF Chain

\* A project that gets its first transcripts is in the diff.
LEMMA FirstIsRecounted ==
  ASSUME NEW old, NEW new, NEW p \in Slugs, Present(old, p) = {}, Present(new, p) # {}
  PROVE  p \in Recounted(old, new)
<1>1. IsFiniteSet(Present(new, p))
  BY CatalogAssumption, FS_Subset DEF Present
<1>2. Cardinality(Present(new, p)) # Cardinality(Present(old, p))
  BY <1>1, FS_EmptySet
<1>. QED BY <1>2 DEF Recounted

LEMMA ChainScan ==
  ASSUME CatalogTypeOK, NEW c \in Conns, Chain(c), Scan
  PROVE  Chain(c)'
<1>1. PICK ps \in SUBSET Touched(snap, disk) :
        Recounted(snap, disk) \subseteq ps /\ pushing' = Diff(snap, disk, ps)
  BY DEF Scan
<1>2. /\ snap' = disk /\ snap \in Versions /\ disk \in Versions
      /\ UNCHANGED <<queue, frames, handler, frame, ids, projects, rows>>
      /\ pushing = NoFrame /\ snap # disk
  BY DEF Scan, CatalogTypeOK, connVars, handlerVars, storeVars
<1>3. PICK f \in Frame : f = Diff(snap, disk, ps) /\ f.projects = ps
  BY <1>2, FrameTypes DEF Diff
<1>4. f # NoFrame /\ \A t \in Transcripts : Decides(f, t) <=> disk[t] # snap[t]
  <2>1. PICK u \in Transcripts : snap[u] # disk[u]
    BY <1>2 DEF Versions
  <2>. QED BY <1>2, <1>3, <2>1, DiffDecides
<1>5. PICK P \in Seq(Frame) : P = Pipe(c)
  BY BacklogTypes
<1>6. Pipe(c)' = Append(P, f)
  BY <1>1, <1>2, <1>3, <1>4, <1>5, BacklogScanned
<1>7. /\ Append(P, f) \in Seq(Frame) /\ Len(Append(P, f)) = Len(P) + 1 /\ Len(P) \in Nat
      /\ Append(P, f)[Len(P) + 1] = f /\ \A i \in 1..Len(P) : Append(P, f)[i] = P[i]
  OBVIOUS
<1>8. PICK Q \in Seq(Frame) : Q = Append(P, f)
  BY <1>7
<1>9. /\ Pipe(c)' = Q /\ Len(Q) = Len(P) + 1 /\ Len(P) \in Nat /\ Q[Len(P) + 1] = f
      /\ \A i \in 1..Len(P) : Q[i] = P[i]
      /\ LastSays(Q, disk)
      /\ \A t : /\ \A i : LastOn(Q, t, i) => IF Decides(f, t) THEN i = Len(P) + 1 ELSE LastOn(P, t, i)
                /\ Undecided(Q, t) => Undecided(P, t) /\ ~Decides(f, t)
  <2>1. LastSays(P, snap)
    BY <1>5 DEF Chain, SaidInPipe
  <2>2. LastSays(Append(P, f), disk)
    BY <1>2, <1>3, <2>1, SaysOnDiff
  <2>3. ASSUME NEW t
        PROVE  /\ \A i : LastOn(Append(P, f), t, i) =>
                           IF Decides(f, t) THEN i = Len(P) + 1 ELSE LastOn(P, t, i)
               /\ Undecided(Append(P, f), t) => Undecided(P, t) /\ ~Decides(f, t)
    BY LastOfAppend
  <2>4. /\ LastSays(Q, disk)
        /\ \A t : /\ \A i : LastOn(Q, t, i) => IF Decides(f, t) THEN i = Len(P) + 1 ELSE LastOn(P, t, i)
                  /\ Undecided(Q, t) => Undecided(P, t) /\ ~Decides(f, t)
    BY ONLY <1>8, <2>2, <2>3
  <2>. QED BY <1>6, <1>7, <1>8, <2>4
<1>10. SaidInPipe(c)'
  BY <1>2, <1>9 DEF SaidInPipe, LastSays, LastOn, Decides
<1>11. \A t \in Transcripts : Undecided(Pipe(c), t)' => Undecided(Pipe(c), t) /\ snap'[t] = snap[t]
  BY <1>2, <1>4, <1>5, <1>9 DEF Undecided, Decides
<1>12. SaidInRows(c)'
  BY <1>2, <1>11 DEF Chain, SaidInRows, Current, Applying, Decides
<1>13. MentionsKnown(c)'
  BY <1>2, <1>11 DEF Chain, MentionsKnown, MentionKnown, Applying, Decides, Standing, FullPending
<1>14. \A p : \A n \in 0..Len(P), m \in Nat : Reached(c, p, n) /\ n <= m => Reached(c, p, m)'
  BY <1>2, <1>5, <1>9 DEF Reached, Standing, FullPending
<1>15. \A p \in Slugs : Present(disk, p) # {} => Reached(c, p, Len(P)) \/ p \in f.projects
  BY <1>1, <1>3, <1>5, FirstIsRecounted DEF Chain, ProjectsReached
<1>16. \A p \in Slugs : Present(disk, p) # {} => Reached(c, p, Len(P) + 1)'
  <2>. SUFFICES ASSUME NEW p \in Slugs, Present(disk, p) # {} PROVE Reached(c, p, Len(P) + 1)'
    OBVIOUS
  <2>1. CASE Reached(c, p, Len(P))
    BY <1>9, <1>14, <2>1
  <2>2. CASE p \in f.projects
    <3>1. Len(P) + 1 \in 1..Len(P) + 1 /\ p \in Q[Len(P) + 1].projects
      BY <1>9, <2>2
    <3>. QED BY <1>9, <3>1 DEF Reached
  <2>. QED BY <1>15, <2>1, <2>2
<1>17. ProjectsReached(c)'
  BY <1>2, <1>9, <1>16 DEF ProjectsReached, Present
<1>18. MentionsReached(c)'
  <2>. SUFFICES ASSUME NEW t \in Transcripts, NEW i, disk[t] # 0, LastOn(Q, t, i) PROVE Reached(c, Slug[t], i)'
    BY <1>2, <1>9 DEF MentionsReached, LastOn, Decides
  <2>1. CASE Decides(f, t)
    <3>1. Slug[t] \in Slugs /\ t \in Present(disk, Slug[t]) /\ i = Len(P) + 1
      BY <1>9, <2>1 DEF Slugs, Present
    <3>. QED BY <1>16, <3>1
  <2>2. CASE ~Decides(f, t)
    <3>1. LastOn(P, t, i) /\ snap[t] # 0 /\ i \in 1..Len(P)
      BY <1>4, <1>9, <2>2 DEF LastOn
    <3>2. Reached(c, Slug[t], i)
      BY <1>5, <3>1 DEF Chain, MentionsReached
    <3>. QED BY <1>14, <3>1, <3>2
  <2>. QED BY <2>1, <2>2
<1>. QED BY <1>10, <1>12, <1>13, <1>17, <1>18 DEF Chain

LEMMA ChainTake ==
  ASSUME CatalogTypeOK, FramesInv, NEW c \in Conns, Chain(c), TakeFrame(c)
  PROVE  Chain(c)'
<1>1. /\ UNCHANGED <<queue, pushing, snap, projects, rows>>
      /\ frames[c] \in Seq(Frame) /\ frames[c] # <<>> /\ frames'[c] = Tail(frames[c])
      /\ frame'[c] = Head(frames[c]) /\ handler[c] = "serving" /\ handler'[c] = "upsert"
  BY DEF TakeFrame, CatalogTypeOK, watchVars, storeVars
<1>2. PICK P \in Seq(Frame) : P = Pipe(c)
  BY BacklogTypes
<1>3. PICK f \in Frame : f = Head(frames[c])
  BY <1>1
<1>4. /\ P # <<>> /\ Pipe(c)' = Tail(P) /\ P[1] = f
      /\ Tail(P) \in Seq(Frame) /\ Len(Tail(P)) = Len(P) - 1 /\ Len(P) \in Nat \ {0}
      /\ \A j \in 2..Len(P) : j - 1 \in 1..Len(P) - 1 /\ P[j] = Tail(P)[j - 1]
  <2>1. PICK a \in Seq(Frame), b \in Seq(Frame) : a = frames[c] /\ b = Backlog
    BY <1>1, BacklogTypes
  <2>2. Tail(a) \o b = Tail(a \o b) /\ a \o b # <<>> /\ Head(a) = a[1] /\ (a \o b)[1] = a[1]
    BY <1>1, <2>1, TailOfConcat
  <2>3. Pipe(c)' = Tail(a) \o b
    BY <1>1, <2>1 DEF Pipe, Backlog
  <2>4. P = a \o b
    BY <1>2, <2>1 DEF Pipe
  <2>5. P # <<>> /\ Pipe(c)' = Tail(P) /\ P[1] = f
    BY <1>3, <2>1, <2>2, <2>3, <2>4
  <2>. QED BY <2>5
<1>5. PICK Q \in Seq(Frame) : Q = Tail(P)
  BY <1>4
<1>6. /\ \A t : /\ \A i : LastOn(Q, t, i) => i \in Nat /\ LastOn(P, t, i + 1)
                /\ Undecided(Q, t) => IF Decides(f, t) THEN LastOn(P, t, 1) ELSE Undecided(P, t)
      /\ LastSays(P, snap) /\ LastSays(Q, snap)
  BY <1>2, <1>4, <1>5, LastOfTail, SaysOnTail DEF Chain, SaidInPipe
<1>7. SaidInPipe(c)'
  <2>1. LastSays(Q, snap) /\ Pipe(c)' = Q /\ snap' = snap
    BY <1>1, <1>4, <1>5, <1>6
  <2>. QED BY ONLY <2>1 DEF SaidInPipe, LastSays, LastOn, Decides
<1>8. \A t : Undecided(Pipe(c), t)' <=> Undecided(Q, t)
  BY <1>4, <1>5 DEF Undecided, Decides
<1>9. SaidInRows(c)'
  <2>. SUFFICES ASSUME NEW t \in Transcripts, Undecided(Q, t) PROVE Current(c, t)'
    BY <1>8 DEF SaidInRows
  <2>1. CASE Decides(f, t)
    <3>1. LastOn(P, t, 1) /\ 1 \in 1..Len(P)
      BY <1>4, <1>6, <2>1
    <3>2. f.new[t] = snap[t]
      BY <1>4, <1>6, <3>1 DEF LastSays
    <3>. QED BY <1>1, <1>3, <2>1, <3>2 DEF Current, Applying, Decides
  <2>2. CASE ~Decides(f, t)
    <3>1. Undecided(P, t)
      BY <1>6, <2>2
    <3>2. Current(c, t) /\ ~Applying(c)
      BY <1>1, <1>2, <3>1 DEF Chain, SaidInRows, Applying
    <3>. QED BY <1>1, <1>3, <2>2, <3>2 DEF Current, Applying, Decides
  <2>. QED BY <2>1, <2>2
\* What stood or was to come with the frame stands now.
<1>10. ~FullPending(c)'
  <2>1. \A j \in 1..Len(frames[c]) : j > 1 => ~frames[c][j].full
    BY DEF FramesInv
  <2>2. PICK a \in Seq(Frame) : a = frames[c] /\ a # <<>>
    BY <1>1
  <2>3. Tail(a) # <<>> => 2 \in 1..Len(a) /\ Tail(a)[1] = a[2]
    OBVIOUS
  <2>. QED BY <1>1, <2>1, <2>2, <2>3 DEF FullPending
<1>11. \A p : Standing(c, p) \/ p \in f.projects => Standing(c, p)'
  <2>1. f.full <=> FullPending(c)
    BY <1>1, <1>3 DEF FullPending
  <2>. QED BY <1>1, <1>3, <1>10, <2>1 DEF Standing
<1>12. \A p : \A n \in 1..Len(P) : Reached(c, p, n) => Reached(c, p, n - 1)'
  <2>. SUFFICES ASSUME NEW p, NEW n \in 1..Len(P), Reached(c, p, n), ~Standing(c, p), p \notin f.projects
                PROVE  Reached(c, p, n - 1)'
    BY <1>11 DEF Reached
  <2>1. PICK j \in 1..n : p \in P[j].projects
    BY <1>2 DEF Reached
  <2>2. j \in 2..Len(P) /\ j - 1 \in 1..n - 1
    BY <1>4, <2>1
  <2>3. p \in Q[j - 1].projects
    BY <1>4, <1>5, <2>1, <2>2
  <2>. QED BY <1>4, <1>5, <2>2, <2>3 DEF Reached
<1>13. ProjectsReached(c)'
  <2>1. Len(P) \in 1..Len(P) /\ Len(Q) = Len(P) - 1
    BY <1>4, <1>5
  <2>. QED BY <1>1, <1>2, <1>4, <1>5, <1>12, <2>1 DEF Chain, ProjectsReached, Present
<1>14. MentionsReached(c)'
  <2>. SUFFICES ASSUME NEW t \in Transcripts, NEW i \in 1..Len(Q), snap[t] # 0, LastOn(Q, t, i)
                PROVE  Reached(c, Slug[t], i)'
    BY <1>1, <1>4, <1>5 DEF MentionsReached, LastOn, Decides
  <2>1. LastOn(P, t, i + 1) /\ i + 1 \in 1..Len(P) /\ (i + 1) - 1 = i
    <3>1. i + 1 \in 1..Len(P) /\ (i + 1) - 1 = i
      BY <1>4, <1>5
    <3>2. LastOn(P, t, i + 1)
      BY <1>6
    <3>. QED BY <3>1, <3>2
  <2>2. Reached(c, Slug[t], i + 1)
    BY <1>2, <2>1 DEF Chain, MentionsReached
  <2>3. Reached(c, Slug[t], (i + 1) - 1)'
    BY <1>12, <2>1, <2>2
  <2>. QED BY <2>1, <2>3
<1>15. MentionsKnown(c)'
  <2>. SUFFICES ASSUME NEW t \in Transcripts, snap[t] # 0, Undecided(Q, t), Decides(f, t)
                PROVE  Standing(c, Slug[t])'
    BY <1>1, <1>3, <1>8 DEF MentionsKnown, MentionKnown, Decides
  <2>1. LastOn(P, t, 1) /\ 1 \in 1..Len(P)
    BY <1>4, <1>6
  <2>2. Reached(c, Slug[t], 1)
    BY <1>2, <2>1 DEF Chain, MentionsReached
  <2>3. Standing(c, Slug[t]) \/ Slug[t] \in P[1].projects
    BY <1>2, <2>2 DEF Reached
  <2>. QED BY <1>4, <1>11, <2>3
<1>. QED BY <1>7, <1>9, <1>13, <1>14, <1>15 DEF Chain

\* A step of the handler need only show that what stands keeps standing.
LEMMA ChainApplies ==
  ASSUME NEW c \in Conns, Chain(c), Pipe(c)' = Pipe(c), snap' = snap,
         \A p \in Slugs : Standing(c, p) => Standing(c, p)',
         SaidInRows(c)', MentionsKnown(c)'
  PROVE  Chain(c)'
<1>1. SaidInPipe(c)'
  BY DEF Chain, SaidInPipe, LastSays, LastOn, Decides
<1>2. \A p \in Slugs : \A n : Reached(c, p, n) => Reached(c, p, n)'
  BY DEF Reached
<1>3. ProjectsReached(c)'
  BY <1>2 DEF Chain, ProjectsReached, Present
<1>4. MentionsReached(c)'
  <2>1. \A t \in Transcripts : Slug[t] \in Slugs
    BY DEF Slugs
  <2>. QED BY <1>2, <2>1 DEF Chain, MentionsReached, LastOn, Decides
<1>. QED BY <1>1, <1>3, <1>4 DEF Chain

LEMMA ChainUpsertProjects ==
  ASSUME CatalogTypeOK, FramesInv, NEW c \in Conns, Chain(c), UpsertProjects(c)
  PROVE  Chain(c)'
<1>. DEFINE f == frame[c]
<1>1. /\ UNCHANGED <<queue, pushing, snap, rows, frame, frames>> /\ handler[c] = "upsert"
      /\ handler'[c] = IF f.full THEN "prune" ELSE "transcripts"
  BY DEF UpsertProjects, ApplyUnchanged, CatalogTypeOK, watchVars, connVars
<1>2. \A p \in Slugs : /\ projects'[p] \in Nat
                       /\ projects[p] # 0 \/ p \in f.projects => projects'[p] # 0
  <2>1. \A p \in Slugs : lastId'[p] = IF p \in f.projects /\ projects[p] = 0 THEN lastId[p] + 1 ELSE lastId[p]
    BY DEF UpsertProjects
  <2>2. \A p \in Slugs : projects'[p] = IF p \in f.projects /\ projects[p] = 0 THEN lastId'[p] ELSE projects[p]
    BY DEF UpsertProjects
  <2>3. lastId \in [Slugs -> Nat] /\ projects \in [Slugs -> Nat]
    BY DEF CatalogTypeOK
  <2>. QED BY <2>1, <2>2, <2>3
<1>3. \A p \in Slugs :
        p \in f.projects \/ (~f.full /\ \E t \in Transcripts : Slug[t] = p /\ f.new[t] # 0)
          => ids'[c][p] = projects'[p]
  BY DEF UpsertProjects, CatalogTypeOK
<1>. HIDE DEF f
<1>4. Pipe(c)' = Pipe(c) /\ (FullPending(c)' <=> FullPending(c))
  BY <1>1 DEF Pipe, Backlog, FullPending
<1>5. \A p \in Slugs : Standing(c, p) => Standing(c, p)' /\ projects'[p] # 0
  BY <1>1, <1>2, <1>4 DEF Standing, f
<1>6. \A t : Undecided(Pipe(c), t)' <=> Undecided(Pipe(c), t)
  BY <1>4 DEF Undecided, Decides
<1>7. SaidInRows(c)'
  BY <1>1, <1>6 DEF Chain, SaidInRows, Current, Applying, Decides
<1>8. MentionsKnown(c)'
  <2>. SUFFICES ASSUME NEW t \in Transcripts, snap[t] # 0, Undecided(Pipe(c), t), Decides(f, t)
                PROVE  ids'[c][Slug[t]] # 0
    BY <1>1, <1>6 DEF MentionsKnown, MentionKnown, Decides, f
  <2>1. Slug[t] \in Slugs
    BY DEF Slugs
  <2>2. f.new[t] # 0
    BY <1>1 DEF Chain, SaidInRows, Current, Applying, f
  <2>3. Standing(c, Slug[t])
    BY <1>1 DEF Chain, MentionsKnown, MentionKnown, Applying, f
  <2>4. f.full => Slug[t] \in f.projects
    BY <2>2 DEF FramesInv, WellFormed, f
  <2>. QED BY <1>3, <1>5, <2>1, <2>2, <2>3, <2>4
<1>. QED BY <1>1, <1>4, <1>5, <1>7, <1>8, ChainApplies

LEMMA ChainPrune ==
  ASSUME CatalogTypeOK, FramesInv, NEW c \in Conns, Chain(c), PruneProjects(c)
  PROVE  Chain(c)'
<1>1. /\ UNCHANGED <<queue, pushing, snap, rows, frame, frames, ids>> /\ handler[c] = "prune"
      /\ handler'[c] = "transcripts" /\ frame[c].full
      /\ \A p \in Slugs : projects'[p] = IF p \in frame[c].projects THEN projects[p] ELSE 0
  BY DEF PruneProjects, ApplyUnchanged, CatalogTypeOK, FramesInv, watchVars, connVars
<1>2. Pipe(c)' = Pipe(c) /\ (FullPending(c)' <=> FullPending(c))
  BY <1>1 DEF Pipe, Backlog, FullPending
<1>3. \A p \in Slugs : Standing(c, p) => Standing(c, p)'
  BY <1>1, <1>2 DEF Standing
<1>4. \A t : Undecided(Pipe(c), t)' <=> Undecided(Pipe(c), t)
  BY <1>2 DEF Undecided, Decides
<1>5. SaidInRows(c)'
  BY <1>1, <1>4 DEF Chain, SaidInRows, Current, Applying, Decides
<1>6. MentionsKnown(c)'
  BY <1>1, <1>4 DEF Chain, MentionsKnown, MentionKnown, Applying, Decides
<1>. QED BY <1>1, <1>2, <1>3, <1>5, <1>6, ChainApplies

LEMMA ChainUpsertTranscripts ==
  ASSUME CatalogTypeOK, FramesInv, NEW c \in Conns, Chain(c), UpsertTranscripts(c),
         c = client, hole' = {}
  PROVE  Chain(c)'
<1>. DEFINE known == {t \in Transcripts : frame[c].new[t] # 0 /\ ids[c][Slug[t]] # 0}
<1>1. /\ UNCHANGED <<queue, pushing, snap, projects, frame, frames, ids>> /\ handler[c] = "transcripts"
      /\ handler'[c] = "remove"
  BY DEF UpsertTranscripts, ApplyUnchanged, CatalogTypeOK, watchVars, connVars
<1>2. /\ \A t \in known : rows'[t].version = frame[c].new[t]
      /\ \A t \in Transcripts \ known : rows'[t] = rows[t]
  <2>1. PICK done \in SUBSET known :
          /\ rows' = [t \in Transcripts |->
                        IF t \in done
                        THEN [rows[t] EXCEPT !.version = frame[c].new[t], !.project = ids[c][Slug[t]]]
                        ELSE rows[t]]
          /\ hole' = IF c = client /\ done # known THEN hole \cup {"stopped"} ELSE hole
    <3>1. {t \in {u \in Transcripts : frame[c].new[u] # 0} : ids[c][Slug[t]] # 0} = known
      OBVIOUS
    <3>. QED BY <3>1 DEF UpsertTranscripts
  <2>2. done = known
    BY <2>1
  <2>3. rows \in [Transcripts -> Row]
    BY DEF CatalogTypeOK
  <2>. QED BY <2>1, <2>2, <2>3 DEF Row
<1>3. Pipe(c)' = Pipe(c) /\ (FullPending(c)' <=> FullPending(c))
  BY <1>1 DEF Pipe, Backlog, FullPending
<1>4. \A p \in Slugs : Standing(c, p) => Standing(c, p)'
  BY <1>1, <1>3 DEF Standing
<1>5. \A t : Undecided(Pipe(c), t)' <=> Undecided(Pipe(c), t)
  BY <1>3 DEF Undecided, Decides
<1>6. SaidInRows(c)'
  <2>. SUFFICES ASSUME NEW t \in Transcripts, Undecided(Pipe(c), t) PROVE Current(c, t)'
    BY <1>5 DEF SaidInRows
  <2>1. Current(c, t) /\ Applying(c) /\ Applying(c)'
    BY <1>1 DEF Chain, SaidInRows, Applying
  <2>2. CASE Decides(frame[c], t)
    <3>1. frame[c].new[t] = snap[t]
      BY <2>1, <2>2 DEF Current
    <3>2. snap[t] # 0 => t \in known
      BY <1>1, <2>1, <2>2, <3>1 DEF Chain, MentionsKnown, MentionKnown
    <3>. QED BY <1>1, <1>2, <2>1, <2>2, <3>1, <3>2 DEF Current, Decides
  <2>3. CASE ~Decides(frame[c], t)
    <3>1. rows'[t] = rows[t]
      BY <1>2, <2>3 DEF Decides
    <3>. QED BY <1>1, <2>1, <2>3, <3>1 DEF Current, Decides
  <2>. QED BY <2>2, <2>3
<1>7. MentionsKnown(c)'
  BY <1>1 DEF MentionsKnown, MentionKnown
<1>. QED BY <1>1, <1>3, <1>4, <1>6, <1>7, ChainApplies

LEMMA ChainRemove ==
  ASSUME CatalogTypeOK, FramesInv, NEW c \in Conns, Chain(c), RemoveTranscripts(c)
  PROVE  Chain(c)'
<1>. DEFINE out == IF frame[c].full THEN {t \in Missing(c) : ~rows[t].gone} ELSE frame[c].removed
<1>1. /\ UNCHANGED <<queue, pushing, snap, projects, frames>> /\ handler[c] = "remove"
      /\ handler'[c] = "serving"
      /\ \A t \in Transcripts : rows'[t] = IF t \in out THEN NoRow ELSE rows[t]
  BY DEF RemoveTranscripts, RemoveRows, ApplyUnchanged, CatalogTypeOK, watchVars, connVars
<1>2. Pipe(c)' = Pipe(c) /\ (FullPending(c)' <=> FullPending(c))
  BY <1>1 DEF Pipe, Backlog, FullPending
<1>3. \A p \in Slugs : Standing(c, p) => Standing(c, p)'
  BY <1>1, <1>2 DEF Standing
<1>4. \A t : Undecided(Pipe(c), t)' <=> Undecided(Pipe(c), t)
  BY <1>2 DEF Undecided, Decides
<1>5. SaidInRows(c)'
  <2>. SUFFICES ASSUME NEW t \in Transcripts, Undecided(Pipe(c), t)
                PROVE  rows'[t].version = snap[t] \/ (rows'[t].gone /\ snap[t] = 0)
    BY <1>1, <1>4 DEF SaidInRows, Current, Applying
  <2>1. Current(c, t) /\ Applying(c) /\ WellFormed(frame[c])
    BY <1>1 DEF Chain, SaidInRows, Applying, FramesInv
  <2>2. CASE Decides(frame[c], t) /\ snap[t] # 0
    <3>1. rows[t].version = snap[t] /\ frame[c].new[t] # 0
      BY <1>1, <2>1, <2>2 DEF Current
    <3>2. t \notin out
      BY <2>1, <3>1 DEF Missing, WellFormed
    <3>. QED BY <1>1, <3>1, <3>2
  <2>3. CASE Decides(frame[c], t) /\ snap[t] = 0
    <3>1. frame[c].new[t] = 0
      BY <2>1, <2>3 DEF Current
    <3>2. t \in out \/ (frame[c].full /\ rows[t].gone)
      BY <2>3, <3>1 DEF Decides, Missing
    <3>. QED BY <1>1, <2>3, <3>2 DEF NoRow
  <2>4. CASE ~Decides(frame[c], t)
    <3>1. t \notin out
      BY <2>4 DEF Decides
    <3>. QED BY <1>1, <2>1, <2>4, <3>1 DEF Current
  <2>. QED BY <2>2, <2>3, <2>4
<1>6. MentionsKnown(c)'
  BY <1>1 DEF MentionsKnown, Applying
<1>. QED BY <1>1, <1>2, <1>3, <1>5, <1>6, ChainApplies

LEMMA ChainInit == CatalogInit => ChainInv
BY DEF CatalogInit, ChainInv, Up

LEMMA ChainNext ==
  ASSUME CatalogTypeOK, FramesInv, LinkInv, BacklogInv, ChainInv, [CatalogNext]_catalogVars
  PROVE  ChainInv'
<1>. SUFFICES ASSUME NEW c \in Conns, Up(c)', hole' = {} PROVE Chain(c)'
  BY DEF ChainInv
<1>. USE DEF CatalogTypeOK
<1>1. CASE \E d \in Conns : Connect(d)
  <2>1. PICK d \in Conns : Connect(d)
    BY <1>1
  <2>2. c = d
    BY <2>1, CatalogAssumption DEF Connect, Up, LinkInv, Linked
  <2>. QED BY <2>1, <2>2, ChainConnect
<1>2. CASE ~\E d \in Conns : Connect(d)
  <2>1. hole = {} /\ Up(c)
    <3>1. CASE \/ \E t \in Transcripts : Edit(t) \/ SoftDelete(t)
               \/ FirstScan \/ FirstScanFails \/ Scan \/ Push \/ SendDiff \/ StealDiff
               \/ RunOnceReturns \/ NetworkDrop \/ WrapperRestart \/ UNCHANGED catalogVars
      BY <3>1 DEF Edit, SoftDelete, FirstScan, FirstScanFails, Scan, Push, SendDiff, StealDiff, RunOnceReturns, NetworkDrop,
                  WrapperRestart, catalogVars, connVars, Up
    <3>2. ASSUME NEW d \in Conns, HandlerStep(d) PROVE hole = {} /\ Up(c)
      <4>1. CASE Register(d) \/ TakeFrame(d) \/ Unregister(d)
        BY <4>1 DEF Register, ClosedByServer, TakeFrame, Unregister, Up
      <4>2. CASE UpsertProjects(d) \/ PruneProjects(d) \/ UpsertTranscripts(d) \/ RemoveTranscripts(d)
        <5>1. hole \subseteq hole' /\ link' = link
          BY <4>2 DEF UpsertProjects, PruneProjects, UpsertTranscripts, RemoveTranscripts, RemoveRows,
                      ApplyUnchanged, connVars
        <5>. QED BY <5>1 DEF Up
      <4>. QED BY <3>2, <4>1, <4>2 DEF HandlerStep
    <3>. QED BY <1>2, <3>1, <3>2 DEF CatalogNext
  <2>2. Chain(c) /\ Linked(c)
    BY <2>1 DEF ChainInv, LinkInv
\* Nothing in sight of the handler changes.
  <2>3. CASE \/ \E t \in Transcripts : Edit(t) \/ SoftDelete(t)
             \/ FirstScan \/ FirstScanFails \/ NetworkDrop \/ UNCHANGED catalogVars
    <3>1. UNCHANGED <<snap, pushing, queue, frames, handler, frame, ids, projects>>
      BY <2>1, <2>2, <2>3, CatalogAssumption
      DEF Linked, Edit, SoftDelete, FirstScan, FirstScanFails, NetworkDrop, catalogVars, watchVars, connVars, handlerVars, storeVars
    <3>2. \A t \in Transcripts : rows'[t].version = rows[t].version /\ (rows[t].gone => rows'[t].gone)
      <4>1. CASE \E u \in Transcripts : SoftDelete(u)
        BY <4>1 DEF SoftDelete, Row
      <4>2. CASE rows' = rows
        BY <4>2
      <4>. QED BY <2>3, <4>1, <4>2 DEF Edit, FirstScan, FirstScanFails, NetworkDrop, catalogVars, storeVars
    <3>3. Pipe(c)' = Pipe(c) /\ (FullPending(c)' <=> FullPending(c))
      BY <3>1 DEF Pipe, Backlog, FullPending
    <3>. QED BY <2>2, <3>1, <3>2, <3>3, ChainQuiet
  <2>4. CASE Scan
    BY <2>2, <2>4, ChainScan
  <2>5. CASE Push
    <3>1. Pipe(c)' = Pipe(c) /\ (FullPending(c)' <=> FullPending(c))
      BY <2>5, BacklogPushed DEF Pipe, FullPending, Push, connVars
    <3>. QED BY <2>2, <2>5, <3>1, ChainQuiet DEF Push, handlerVars, storeVars
  <2>6. CASE SendDiff
    <3>1. PICK a \in Seq(Frame), b \in Seq(Frame) : a = frames[c] /\ b = Backlog
      BY BacklogTypes
    <3>2. /\ b # <<>> /\ Backlog' = Tail(b) /\ Head(b) = Head(queue) /\ Head(queue) \in Frame
          /\ frames'[c] = Append(a, Head(b))
      <4>1. queue # <<>> /\ queue' = Tail(queue) /\ pushing' = pushing /\ c = client /\ link[c] = "up"
        BY <2>1, <2>2, <2>6 DEF SendDiff, Linked, Up, watchVars
      <4>2. frames'[c] = Append(frames[c], Head(queue)) /\ Head(queue) \in Frame
        BY <2>6, <4>1 DEF SendDiff
      <4>. QED BY <3>1, <4>1, <4>2, BacklogTaken
    <3>3. Append(a, Head(b)) \o Tail(b) = a \o b
      BY <3>2, HeadMoves
    <3>4. Pipe(c)' = Pipe(c)
      BY <3>1, <3>2, <3>3 DEF Pipe
    <3>5. FullPending(c)' <=> FullPending(c)
      <4>1. ~Head(queue).full
        BY <2>6 DEF SendDiff, FramesInv, Incremental
      <4>2. PICK h \in Frame : h = Head(b) /\ ~h.full
        BY <3>2, <4>1
      <4>3. PICK e : e = frames'[c] /\ e = Append(a, h)
        BY <3>2, <4>2
      <4>4. e # <<>> /\ (a = <<>> => e[1] = h) /\ (a # <<>> => e[1] = a[1])
        <5>1. a \in Seq(Frame) /\ h \in Frame /\ e = Append(a, h)
          BY <4>3
        <5>. QED BY ONLY <5>1, HeadOfAppend
      <4>. QED BY <3>1, <4>2, <4>3, <4>4 DEF FullPending
    <3>. QED BY <2>2, <2>6, <3>4, <3>5, ChainQuiet DEF SendDiff, handlerVars, storeVars, watchVars
  <2>7. CASE StealDiff \/ RunOnceReturns \/ WrapperRestart
    BY <2>1, <2>2, <2>7 DEF StealDiff, RunOnceReturns, WrapperRestart, Linked, Up, connVars
  <2>8. ASSUME NEW d \in Conns, HandlerStep(d), d = c PROVE Chain(c)'
    <3>1. CASE Register(c)
      <4>1. handler[c] = "dialled" /\ FullPending(c)
        BY <2>2, <3>1 DEF Register, Linked
      <4>2. UNCHANGED <<snap, pushing, queue>> /\ frames'[c] = frames[c]
        BY <3>1, CatalogAssumption DEF Register, ClosedByServer, Up, watchVars
      <4>. QED BY <2>2, <4>1, <4>2, ChainPending DEF Pipe, Backlog, FullPending
    <3>2. CASE Unregister(c)
      BY <2>1, <3>2 DEF Unregister, Up
    <3>3. c = client
      BY <2>2 DEF Linked
    <3>. QED BY <2>2, <2>8, <3>1, <3>2, <3>3, ChainTake, ChainUpsertProjects, ChainPrune,
              ChainUpsertTranscripts, ChainRemove DEF HandlerStep
\* The handler of another connection: the snapshot of this one is to come.
  <2>9. ASSUME NEW d \in Conns, HandlerStep(d), d # c PROVE Chain(c)'
    <3>1. UNCHANGED <<snap, pushing, queue>> /\ handler'[c] = handler[c] /\ frame'[c] = frame[c] /\ ids'[c] = ids[c]
      BY <2>9 DEF HandlerStep, Register, TakeFrame, Unregister, UpsertProjects, PruneProjects, UpsertTranscripts,
                  RemoveTranscripts, RemoveRows, ApplyUnchanged, watchVars
    <3>2. frames'[c] = frames[c]
      <4>1. CASE Register(d)
        BY <4>1, CatalogAssumption DEF Register, ClosedByServer, Up
      <4>2. CASE Unregister(d)
        BY <2>9, <4>2 DEF Unregister, Up
      <4>3. CASE TakeFrame(d)
        BY <2>9, <4>3 DEF TakeFrame
      <4>. QED BY <2>9, <4>1, <4>2, <4>3 DEF HandlerStep, UpsertProjects, PruneProjects, UpsertTranscripts,
                  RemoveTranscripts, RemoveRows, ApplyUnchanged, connVars
    <3>3. Pipe(c)' = Pipe(c) /\ (FullPending(c)' <=> FullPending(c))
      BY <3>1, <3>2 DEF Pipe, Backlog, FullPending
    <3>4. CASE Register(d) \/ Unregister(d) \/ TakeFrame(d)
      BY <2>2, <3>1, <3>3, <3>4, ChainQuiet DEF Register, Unregister, TakeFrame, storeVars
    <3>5. CASE UpsertProjects(d) \/ PruneProjects(d) \/ UpsertTranscripts(d) \/ RemoveTranscripts(d)
      <4>1. Applying(d)
        BY <3>5 DEF UpsertProjects, PruneProjects, UpsertTranscripts, RemoveTranscripts, RemoveRows, Applying
      <4>2. FullPending(c)
        BY <2>1, <2>2, <2>9, <4>1 DEF Linked
      <4>. QED BY <2>2, <3>1, <3>3, <4>2, ChainPending
    <3>. QED BY <2>9, <3>4, <3>5 DEF HandlerStep
  <2>. QED BY <1>2, <2>3, <2>4, <2>5, <2>6, <2>7, <2>8, <2>9 DEF CatalogNext
<1>. QED BY <1>1, <1>2

-----------------------------------------------------------------------------
(* The projects of the rows that lists show.                               *)
LEMMA HousedInit == CatalogInit => HousedInv
BY DEF CatalogInit, HousedInv, FullTaken, Up

LEMMA HousedQuiet ==
  ASSUME NEW c \in Conns, Housed(c), projects' = projects,
         handler'[c] = handler[c], frame'[c] = frame[c], ids'[c] = ids[c],
         \A t \in Transcripts : rows'[t] = rows[t]
                                \/ (rows'[t].gone /\ rows'[t].project = rows[t].project)
  PROVE  Housed(c)'
<1>1. \A t \in Transcripts : (Visible(t)' => Visible(t)) /\ (Placed(t) => Placed(t)')
  BY DEF Visible, Placed
<1>. QED BY <1>1 DEF Housed, Applying

LEMMA HousedTake ==
  ASSUME CatalogTypeOK, NEW c \in Conns, TakeFrame(c), ~FullPending(c) => Housed(c)
  PROVE  Housed(c)'
<1>1. /\ UNCHANGED <<projects, rows>> /\ handler[c] = "serving" /\ handler'[c] = "upsert"
      /\ frame'[c] = Head(frames[c]) /\ frames[c] # <<>> /\ frames[c] \in Seq(Frame)
  BY DEF TakeFrame, CatalogTypeOK, storeVars
<1>2. frame'[c].full <=> FullPending(c)
  BY <1>1 DEF FullPending
<1>. QED BY <1>1, <1>2 DEF Housed, Visible, Placed, Applying

LEMMA HousedUpsertProjects ==
  ASSUME CatalogTypeOK, NEW c \in Conns, Housed(c), UpsertProjects(c)
  PROVE  Housed(c)'
<1>. DEFINE f == frame[c]
<1>1. /\ UNCHANGED <<rows, frame>> /\ handler[c] = "upsert" /\ f \in Frame
      /\ handler'[c] = IF f.full THEN "prune" ELSE "transcripts"
  BY DEF UpsertProjects, CatalogTypeOK
<1>2. \A p \in Slugs : projects[p] # 0 => projects'[p] = projects[p]
  BY DEF UpsertProjects
<1>3. \A p \in Slugs : ids'[c][p] \in {0, projects'[p]} /\ (p \in f.projects => ids'[c][p] = projects'[p])
  BY DEF UpsertProjects, CatalogTypeOK
<1>4. \A p \in f.projects : p \in Slugs /\ projects'[p] # 0
  <2>1. \A p \in f.projects : p \in Slugs
    BY <1>1 DEF Frame
  <2>2. \A p \in Slugs : lastId'[p] = IF p \in f.projects /\ projects[p] = 0 THEN lastId[p] + 1 ELSE lastId[p]
    BY DEF UpsertProjects
  <2>3. \A p \in Slugs : projects'[p] = IF p \in f.projects /\ projects[p] = 0 THEN lastId'[p] ELSE projects[p]
    BY DEF UpsertProjects
  <2>4. lastId \in [Slugs -> Nat]
    BY DEF CatalogTypeOK
  <2>. QED BY <2>1, <2>2, <2>3, <2>4
<1>. HIDE DEF f
<1>5. \A t \in Transcripts : (Visible(t)' <=> Visible(t)) /\ (Placed(t) => Placed(t)')
  <2>1. \A t \in Transcripts : Slug[t] \in Slugs
    BY DEF Slugs
  <2>. QED BY <1>1, <1>2, <2>1 DEF Visible, Placed
<1>6. CASE f.full
  BY <1>1, <1>3, <1>4, <1>6 DEF Housed, Applying, f
<1>7. CASE ~f.full
  BY <1>1, <1>3, <1>5, <1>7 DEF Housed, Applying, f
<1>. QED BY <1>6, <1>7

LEMMA HousedPrune ==
  ASSUME CatalogTypeOK, FramesInv, NEW c \in Conns, Housed(c), PruneProjects(c)
  PROVE  Housed(c)'
<1>1. /\ UNCHANGED <<rows, frame, ids>> /\ handler[c] = "prune" /\ frame[c].full
      /\ handler'[c] = "transcripts" /\ frame[c] \in Frame
      /\ \A p \in Slugs : projects'[p] = IF p \in frame[c].projects THEN projects[p] ELSE 0
  BY DEF PruneProjects, CatalogTypeOK, FramesInv
<1>2. \A p \in frame[c].projects : p \in Slugs
  BY <1>1 DEF Frame
<1>. QED BY <1>1, <1>2 DEF Housed, Applying

LEMMA HousedUpsertTranscripts ==
  ASSUME CatalogTypeOK, FramesInv, NEW c \in Conns, Housed(c), UpsertTranscripts(c)
  PROVE  Housed(c)'
<1>. DEFINE wanted == {t \in Transcripts : frame[c].new[t] # 0}
            known == {t \in wanted : ids[c][Slug[t]] # 0}
<1>1. /\ UNCHANGED <<projects, frame, ids>> /\ handler[c] = "transcripts" /\ handler'[c] = "remove"
  BY DEF UpsertTranscripts, CatalogTypeOK
<1>2. PICK done \in SUBSET known :
        /\ known = wanted => done = wanted
        /\ rows' = [t \in Transcripts |->
                      IF t \in done
                      THEN [rows[t] EXCEPT !.version = frame[c].new[t], !.project = ids[c][Slug[t]]]
                      ELSE rows[t]]
  BY DEF UpsertTranscripts
<1>3. /\ \A t \in done : rows'[t].project = ids[c][Slug[t]] /\ ids[c][Slug[t]] # 0 /\ Slug[t] \in Slugs
      /\ \A t \in Transcripts \ done : rows'[t] = rows[t]
  <2>1. rows \in [Transcripts -> Row]
    BY DEF CatalogTypeOK
  <2>. QED BY <1>2, <2>1 DEF Row, Slugs
<1>4. CASE frame[c].full
  <2>1. \A t \in wanted : Slug[t] \in frame[c].projects
    BY <1>4 DEF FramesInv, WellFormed
  <2>2. \A t \in wanted : ids[c][Slug[t]] # 0 /\ ids[c][Slug[t]] = projects[Slug[t]]
    BY <1>1, <1>4, <2>1 DEF Housed
  <2>3. done = wanted
    BY <1>2, <2>2
  <2>4. \A t \in Transcripts : frame[c].new[t] # 0 => Placed(t)'
    BY <1>1, <1>3, <2>2, <2>3 DEF Placed
  <2>. QED BY <1>1, <1>4, <2>4 DEF Housed, Applying
<1>5. CASE ~frame[c].full
  <2>1. \A t \in Transcripts : Visible(t)' => Placed(t)'
    <3>. SUFFICES ASSUME NEW t \in Transcripts, Visible(t)' PROVE Placed(t)'
      OBVIOUS
    <3>1. CASE t \in done
      BY <1>1, <1>3, <1>5, <3>1 DEF Housed, Placed
    <3>2. CASE t \notin done
      <4>1. rows'[t] = rows[t] /\ Visible(t)
        BY <1>3, <3>2 DEF Visible
      <4>. QED BY <1>1, <1>5, <4>1 DEF Housed, Applying, Placed
    <3>. QED BY <3>1, <3>2
  <2>. QED BY <1>1, <1>5, <2>1 DEF Housed, Applying
<1>. QED BY <1>4, <1>5

LEMMA HousedRemove ==
  ASSUME CatalogTypeOK, NEW c \in Conns, Housed(c), RemoveTranscripts(c)
  PROVE  Housed(c)'
<1>. DEFINE out == IF frame[c].full THEN {t \in Missing(c) : ~rows[t].gone} ELSE frame[c].removed
<1>1. /\ projects' = projects /\ handler[c] = "remove" /\ handler'[c] = "serving"
      /\ \A t \in Transcripts : rows'[t] = IF t \in out THEN NoRow ELSE rows[t]
  BY DEF RemoveTranscripts, RemoveRows, CatalogTypeOK
<1>2. ASSUME NEW t \in Transcripts, Visible(t)' PROVE Placed(t)'
  <2>1. rows'[t] = rows[t] /\ Visible(t) /\ t \notin out
    BY <1>1, <1>2 DEF Visible, NoRow
  <2>2. Placed(t)
    <3>1. CASE frame[c].full
      <4>1. frame[c].new[t] # 0
        BY <2>1, <3>1 DEF Missing, Visible
      <4>. QED BY <1>1, <3>1, <4>1 DEF Housed
    <3>2. CASE ~frame[c].full
      BY <1>1, <2>1, <3>2 DEF Housed, Applying
    <3>. QED BY <3>1, <3>2
  <2>. QED BY <1>1, <2>1, <2>2 DEF Placed
<1>. QED BY <1>1, <1>2 DEF Housed, Applying

LEMMA HousedNext ==
  ASSUME CatalogTypeOK, FramesInv, LinkInv, HousedInv, [CatalogNext]_catalogVars
  PROVE  HousedInv'
<1>. SUFFICES ASSUME NEW c \in Conns, FullTaken(c)', "raced" \notin hole' PROVE Housed(c)'
  BY DEF HousedInv
<1>. USE DEF CatalogTypeOK
<1>1. CASE \E d \in Conns : Connect(d)
  BY <1>1, CatalogAssumption DEF Connect, FullTaken, Up, LinkInv, Linked
<1>2. ASSUME UNCHANGED <<projects, handler, frame, ids>>, Up(c), FullPending(c)' <=> FullPending(c),
             "raced" \notin hole,
             \A t \in Transcripts : rows'[t] = rows[t]
                                    \/ (rows'[t].gone /\ rows'[t].project = rows[t].project)
      PROVE  Housed(c)'
  <2>1. Housed(c)
    BY <1>2 DEF HousedInv, FullTaken
  <2>. QED BY <1>2, <2>1, HousedQuiet
<1>3. CASE \/ \E t \in Transcripts : Edit(t) \/ SoftDelete(t)
           \/ FirstScan \/ FirstScanFails \/ Scan \/ Push \/ StealDiff
           \/ RunOnceReturns \/ NetworkDrop \/ WrapperRestart \/ UNCHANGED catalogVars
  <2>1. UNCHANGED <<projects, handler, frame, ids, frames>> /\ Up(c) /\ "raced" \notin hole
    BY <1>3 DEF FullTaken, Up, Edit, SoftDelete, FirstScan, FirstScanFails, Scan, Push, StealDiff, RunOnceReturns,
         NetworkDrop, WrapperRestart, catalogVars, connVars, handlerVars, storeVars
  <2>2. \A t \in Transcripts : rows'[t] = rows[t]
                               \/ (rows'[t].gone /\ rows'[t].project = rows[t].project)
    <3>1. CASE \E u \in Transcripts : SoftDelete(u)
      BY <3>1 DEF SoftDelete, Row
    <3>2. CASE rows' = rows
      BY <3>2
    <3>. QED BY <1>3, <3>1, <3>2 DEF Edit, FirstScan, FirstScanFails, Scan, Push, StealDiff, RunOnceReturns,
         NetworkDrop, WrapperRestart, catalogVars, storeVars
  <2>. QED BY <1>2, <2>1, <2>2 DEF FullPending
<1>4. CASE SendDiff
  <2>1. UNCHANGED <<projects, handler, frame, ids, rows, link>> /\ Up(c) /\ "raced" \notin hole
    BY <1>4 DEF FullTaken, Up, SendDiff, handlerVars, storeVars
  <2>2. FullPending(c) => FullPending(c)'
    <3>1. CASE frames'[c] = frames[c]
      BY <3>1 DEF FullPending
    <3>2. CASE frames'[c] = Append(frames[c], Head(queue))
      <4>1. PICK a \in Seq(Frame), h \in Frame : a = frames[c] /\ h = Head(queue)
        BY <1>4 DEF SendDiff
      <4>2. PICK e : e = frames'[c] /\ e = Append(a, h)
        BY <3>2, <4>1
      <4>3. e # <<>> /\ (a = <<>> => e[1] = h) /\ (a # <<>> => e[1] = a[1])
        <5>1. a \in Seq(Frame) /\ h \in Frame /\ e = Append(a, h)
          BY <4>2
        <5>. QED BY ONLY <5>1, HeadOfAppend
      <4>. QED BY <4>1, <4>2, <4>3 DEF FullPending
    <3>. QED BY <1>4, <3>1, <3>2 DEF SendDiff
  <2>3. Housed(c)
    BY <2>1, <2>2 DEF HousedInv, FullTaken
  <2>. QED BY <2>1, <2>3, HousedQuiet
<1>5. ASSUME NEW d \in Conns, HandlerStep(d) PROVE Housed(c)'
  <2>1. "raced" \notin hole /\ Up(c)
    <3>1. CASE Register(d) \/ TakeFrame(d) \/ Unregister(d)
      BY <3>1 DEF FullTaken, Register, ClosedByServer, TakeFrame, Unregister, Up
    <3>2. CASE UpsertProjects(d) \/ PruneProjects(d) \/ UpsertTranscripts(d) \/ RemoveTranscripts(d)
      <4>1. hole \subseteq hole' /\ link' = link
        BY <3>2 DEF UpsertProjects, PruneProjects, UpsertTranscripts, RemoveTranscripts, RemoveRows,
                    ApplyUnchanged, connVars
      <4>. QED BY <4>1 DEF FullTaken, Up
    <3>. QED BY <1>5, <3>1, <3>2 DEF HandlerStep
  <2>2. Linked(c)
    BY <2>1 DEF LinkInv
  <2>3. CASE UpsertProjects(d) \/ PruneProjects(d) \/ UpsertTranscripts(d) \/ RemoveTranscripts(d)
    <3>1. Applying(d) /\ UNCHANGED frames /\ (d # c => handler'[c] = handler[c])
      BY <2>3 DEF UpsertProjects, PruneProjects, UpsertTranscripts, RemoveTranscripts, RemoveRows, Applying,
                  ApplyUnchanged, connVars
    <3>2. ~FullPending(c)
      BY <3>1 DEF FullTaken, FullPending
    <3>3. d = c
      BY <2>1, <2>2, <3>1, <3>2 DEF Linked
    <3>4. Housed(c)
      BY <2>1, <3>1, <3>2, <3>3 DEF HousedInv, FullTaken, Applying
    <3>. QED BY <2>3, <3>3, <3>4, HousedUpsertProjects, HousedPrune, HousedUpsertTranscripts, HousedRemove
  <2>4. CASE Register(d)
    <3>1. frames'[c] = frames[c] /\ UNCHANGED <<projects, frame, ids, rows>>
      BY <2>4, CatalogAssumption DEF FullTaken, Register, ClosedByServer, Up, storeVars
    <3>2. d # c
      BY <2>2, <2>4, <3>1 DEF Register, Linked, FullTaken, FullPending
    <3>3. handler'[c] = handler[c] /\ Housed(c)
      BY <2>1, <2>4, <3>1, <3>2 DEF Register, HousedInv, FullTaken, FullPending
    <3>. QED BY <3>1, <3>3, HousedQuiet
  <2>5. CASE Unregister(d)
    <3>1. frames'[c] = frames[c] /\ UNCHANGED <<projects, frame, ids, rows>> /\ handler'[c] = handler[c]
      BY <2>1, <2>5 DEF FullTaken, Unregister, Up, storeVars
    <3>2. Housed(c)
      BY <2>1, <3>1 DEF HousedInv, FullTaken, FullPending
    <3>. QED BY <3>1, <3>2, HousedQuiet
  <2>6. CASE TakeFrame(d) /\ d = c
    <3>1. ~FullPending(c) => Housed(c)
      BY <2>1, <2>6 DEF TakeFrame, HousedInv, FullTaken
    <3>. QED BY <2>6, <3>1, HousedTake
  <2>7. CASE TakeFrame(d) /\ d # c
    <3>1. frames'[c] = frames[c] /\ UNCHANGED <<projects, rows, ids>> /\ handler'[c] = handler[c]
          /\ frame'[c] = frame[c]
      BY <2>7 DEF TakeFrame, storeVars
    <3>2. Housed(c)
      BY <2>1, <3>1 DEF HousedInv, FullTaken, FullPending
    <3>. QED BY <3>1, <3>2, HousedQuiet
  <2>. QED BY <1>5, <2>3, <2>4, <2>5, <2>6, <2>7 DEF HandlerStep
<1>. QED BY <1>1, <1>3, <1>4, <1>5 DEF CatalogNext

-----------------------------------------------------------------------------
CatalogInv ==
  CatalogTypeOK /\ FramesInv /\ LinkInv /\ BacklogInv /\ ChainInv /\ HousedInv

LEMMA CatalogInductive == CatalogSpec => []CatalogInv
<1>1. CatalogInit => CatalogInv
  BY CatalogTypedInit, FramesInit, LinkInit, BacklogInit, ChainInit, HousedInit DEF CatalogInv
<1>2. CatalogInv /\ [CatalogNext]_catalogVars => CatalogInv'
  BY TypedNext, FramesNext, LinkNext, BacklogNext, ChainNext, HousedNext DEF CatalogInv
<1>. QED BY <1>1, <1>2, PTL DEF CatalogSpec

\* Whatever was lost, replayed or reordered before, a connection on which
\* nothing was lost and nothing raced leaves the server with the wrapper's
\* snapshot once it has nothing more to carry.
THEOREM SettledIsMirrored == CatalogSpec => []SettledMirrors
<1>1. CatalogInv => SettledMirrors
  <2>. SUFFICES ASSUME CatalogInv, Settled, hole = {}, NEW t \in Transcripts
                PROVE  rows[t].version = snap[t] \/ (rows[t].gone /\ snap[t] = 0)
    BY DEF SettledMirrors, Mirrors
  <2>1. client \in Conns /\ Chain(client) /\ ~Applying(client)
    BY DEF CatalogInv, CatalogTypeOK, Settled, ChainInv, Up, Applying
  <2>2. Undecided(Pipe(client), t)
    <3>1. Pipe(client) = <<>>
      BY DEF Settled, Pipe, Backlog
    <3>. QED BY <3>1 DEF Undecided
  <2>. QED BY <2>1, <2>2 DEF Chain, SaidInRows, Current
<1>. QED BY <1>1, CatalogInductive, PTL

\* A row that lists show has its project: no order of deletions of projects
\* and upserts of transcripts, over reconnects and restarts, leaves one
\* without, unless two handlers applied frames at a time.
THEOREM ShownHaveProjects == CatalogSpec => []VisibleHasProject
<1>1. CatalogInv => VisibleHasProject
  <2>. SUFFICES ASSUME CatalogInv, Settled, "raced" \notin hole, NEW t \in Transcripts,
                       rows[t].version # 0, ~rows[t].gone
                PROVE  rows[t].project # 0 /\ rows[t].project = projects[Slug[t]]
    BY DEF VisibleHasProject
  <2>1. client \in Conns /\ FullTaken(client)
    BY DEF CatalogInv, CatalogTypeOK, Settled, FullTaken, FullPending, Up
  <2>2. Housed(client)
    BY <2>1 DEF CatalogInv, HousedInv
  <2>. QED BY <2>2 DEF Housed, Settled, Visible, Placed
<1>. QED BY <1>1, CatalogInductive, PTL
=============================================================================
