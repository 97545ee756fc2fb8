---------------------------- MODULE StreamProofs ----------------------------
(***************************************************************************)
(* Proofs about Stream: whatever the loss of the wrapper, a DELETE, the    *)
(* fan-out and the browsers' handlers do between their locks, no browser   *)
(* is left without a stream and none that is attached misses a chunk, for  *)
(* any number of browsers, handlers and chunks.                            *)
(***************************************************************************)
EXTENDS Stream, TLAPS

Attached == {"start", "data", "end", "live"}

\* Subscribers have a handler past Subscribe.
SubscribersServed == \A b \in subs : serve[b] \in Attached

\* Only a fan-out that is sending has browsers left to send to, and one that
\* is not idle has a chunk.
LeftOfSending ==
  \A h \in Handlers : /\ fan[h].at # "sending" => fan[h].left = {}
                      /\ fan[h].at # "idle" => fan[h].chunk \in Chunks

\* Chunk k is on its way to b: in a replay that is not yet written, or in a
\* fan-out that has read, or will read, the subscribers.
OnItsWay(b, k) ==
  \/ serve[b] \in {"start", "data"} /\ k \in ToSet(replay[b])
  \/ \E h \in Handlers : fan[h].chunk = k /\ (fan[h].at = "written" \/ b \in fan[h].left)

Covered == \A b \in subs : sock[b] = "open" => \A k \in ToSet(ring) \ got[b] : OnItsWay(b, k)

StreamInv ==
  /\ StreamTypeOK /\ SubscribersAreRouted /\ NoBrowserStranded
  /\ SubscribersServed /\ LeftOfSending /\ Covered

-----------------------------------------------------------------------------
LEMMA PushedType ==
  ASSUME StreamTypeOK, NEW k \in Chunks
  PROVE  /\ Pushed(k) \in Seq(Chunks) /\ Len(Pushed(k)) <= RingCap
         /\ ToSet(Pushed(k)) \subseteq ToSet(ring) \cup {k}
<1>. DEFINE all == Append(ring, k)
            n == IF Len(all) > RingCap THEN RingCap ELSE Len(all)
<1>1. all \in Seq(Chunks) /\ Len(all) = Len(ring) + 1 /\ RingCap \in Nat \ {0} /\ n \in 1..Len(all)
  BY StreamAssumption DEF StreamTypeOK
<1>2. /\ SubSeq(all, Len(all) - n + 1, Len(all)) \in Seq(Chunks)
      /\ Len(SubSeq(all, Len(all) - n + 1, Len(all))) = n
      /\ \A i \in 1..n : SubSeq(all, Len(all) - n + 1, Len(all))[i] = all[Len(all) - n + i]
  <2>. HIDE DEF all, n
  <2>. QED BY <1>1
<1>3. \A i \in 1..Len(all) : all[i] \in ToSet(ring) \cup {k}
  BY DEF ToSet, StreamTypeOK
<1>4. Pushed(k) = SubSeq(all, Len(all) - n + 1, Len(all))
  BY DEF Pushed
<1>5. n <= RingCap
  BY <1>1
<1>6. ToSet(Pushed(k)) \subseteq ToSet(ring) \cup {k}
  <2>. HIDE DEF all, n
  <2>1. ASSUME NEW i \in 1..n PROVE Pushed(k)[i] \in ToSet(ring) \cup {k}
    <3>1. Len(all) - n + i \in 1..Len(all)
      BY <1>1
    <3>. QED BY <1>2, <1>3, <1>4, <3>1
  <2>2. DOMAIN Pushed(k) = 1..n
    BY <1>2, <1>4
  <2>. QED BY <2>1, <2>2 DEF ToSet
<1>. QED BY <1>2, <1>4, <1>5, <1>6

LEMMA InitInv == Init => StreamInv
<1>. SUFFICES ASSUME Init PROVE StreamInv
  OBVIOUS
<1>. USE StreamAssumption DEF Init
<1>1. StreamTypeOK
  BY DEF StreamTypeOK, Idle, FanStates, ServeStates
<1>. QED BY <1>1
     DEF StreamInv, SubscribersAreRouted, NoBrowserStranded, SubscribersServed, LeftOfSending,
         Covered, Idle

-----------------------------------------------------------------------------
\* The steps of a fan-out.
FanState == [at : FanStates, chunk : 0..MaxChunks, left : SUBSET Browsers]

LEMMA FanReplaced ==
  ASSUME StreamTypeOK, NEW h \in Handlers, NEW e \in FanState, fan' = [fan EXCEPT ![h] = e]
  PROVE  /\ fan' \in [Handlers -> FanState] /\ fan'[h] = e
         /\ \A x \in Handlers \ {h} : fan'[x] = fan[x]
BY DEF StreamTypeOK, FanState

LEMMA FanStart ==
  ASSUME StreamInv, NEW h \in Handlers, FanoutPTYData(h)
  PROVE  StreamInv'
<1>. USE StreamAssumption DEF FanoutPTYData, StreamInv, hubVars, serveVars
<1>1. fed + 1 \in Chunks /\ fed' \in 0..MaxChunks
  BY DEF StreamTypeOK, Chunks
<1>2. StreamTypeOK'
  BY <1>1 DEF StreamTypeOK, FanStates, Chunks
<1>3. \A x \in Handlers : fan'[x] = IF x = h THEN [at |-> "found", chunk |-> fed + 1, left |-> {}]
                                             ELSE fan[x]
  BY DEF StreamTypeOK
<1>4. LeftOfSending'
  BY <1>1, <1>3 DEF LeftOfSending
<1>5. Covered'
  BY <1>3 DEF Covered, OnItsWay, LeftOfSending
<1>. QED BY <1>2, <1>4, <1>5 DEF SubscribersAreRouted, NoBrowserStranded, SubscribersServed

LEMMA WriteRingInv ==
  ASSUME StreamInv, NEW h \in Handlers, WriteRing(h)
  PROVE  StreamInv'
<1>. USE StreamAssumption DEF WriteRing, StreamInv, serveVars
<1>1. /\ fan' \in [Handlers -> [at : FanStates, chunk : 0..MaxChunks, left : SUBSET Browsers]]
      /\ fan'[h].at = "written" /\ fan'[h].chunk = fan[h].chunk /\ fan'[h].left = fan[h].left
      /\ \A x \in Handlers \ {h} : fan'[x] = fan[x]
  BY DEF StreamTypeOK, FanStates
<1>2. /\ ring' \in Seq(Chunks) /\ Len(ring') <= RingCap
      /\ ToSet(ring') \subseteq ToSet(ring) \cup {fan[h].chunk}
  <2>1. CASE ring' = ring
    BY <2>1 DEF StreamTypeOK
  <2>2. CASE ring' = Pushed(fan[h].chunk)
    <3>1. fan[h].chunk \in Chunks
      BY DEF LeftOfSending
    <3>. QED BY <2>2, <3>1, PushedType
  <2>. QED BY <2>1, <2>2
<1>3. StreamTypeOK'
  BY <1>1, <1>2 DEF StreamTypeOK
<1>4. LeftOfSending'
  BY <1>1 DEF LeftOfSending
<1>5. Covered'
  BY <1>1, <1>2 DEF Covered, OnItsWay
<1>. QED BY <1>3, <1>4, <1>5 DEF SubscribersAreRouted, NoBrowserStranded, SubscribersServed

LEMMA ReadInv ==
  ASSUME StreamInv, NEW h \in Handlers, ReadSubscribers(h)
  PROVE  StreamInv'
<1>. USE StreamAssumption DEF ReadSubscribers, StreamInv, hubVars, serveVars
<1>1. /\ \A x \in Handlers \ {h} : fan'[x] = fan[x]
      /\ IF subs = {} THEN fan'[h] = Idle
                     ELSE /\ fan'[h].at = "sending" /\ fan'[h].left = subs
                          /\ fan'[h].chunk = fan[h].chunk
      /\ fan' \in [Handlers -> FanState]
  <2>1. PICK e : /\ fan' = [fan EXCEPT ![h] = e]
                 /\ IF subs = {} THEN e = Idle ELSE e = [fan[h] EXCEPT !.at = "sending", !.left = subs]
    BY Zenon
  <2>2. Idle \in FanState /\ fan[h] \in FanState /\ subs \in SUBSET Browsers
    BY DEF StreamTypeOK, Idle, FanStates, FanState
  <2>3. CASE subs = {}
    BY <2>1, <2>2, <2>3, FanReplaced
  <2>4. CASE subs # {}
    <3>1. e \in FanState /\ e.left = subs /\ e.chunk = fan[h].chunk /\ e.at = "sending"
      <4>1. ASSUME NEW o, o = fan[h], NEW l, l = subs
            PROVE  e \in FanState /\ e.left = l /\ e.chunk = o.chunk /\ e.at = "sending"
        <5>1. o \in FanState /\ l \in SUBSET Browsers /\ e = [o EXCEPT !.at = "sending", !.left = l]
          BY <2>1, <2>2, <2>4, <4>1, Zenon
        <5>. QED BY ONLY <5>1 DEF FanState, FanStates
      <4>. QED BY <4>1, Zenon
    <3>. QED BY <2>1, <2>4, <3>1, FanReplaced
  <2>. QED BY <2>3, <2>4
<1>2. StreamTypeOK'
  BY <1>1 DEF StreamTypeOK, FanState
<1>3. LeftOfSending'
  BY <1>1 DEF LeftOfSending, Idle
<1>4. Covered'
  <2>. SUFFICES ASSUME NEW b \in subs, sock[b] = "open", NEW k \in ToSet(ring) \ got[b]
                PROVE  OnItsWay(b, k)'
    BY DEF Covered
  <2>1. OnItsWay(b, k)
    BY DEF Covered
  <2>. QED BY <1>1, <2>1 DEF OnItsWay
<1>. QED BY <1>2, <1>3, <1>4 DEF SubscribersAreRouted, NoBrowserStranded, SubscribersServed

LEMMA FanoutInv ==
  ASSUME StreamInv, NEW h \in Handlers, NEW b \in Browsers, FanoutTo(h, b)
  PROVE  StreamInv'
<1>. USE StreamAssumption DEF FanoutTo, StreamInv, hubVars
<1>0. fan[h].at = "sending" /\ fan[h].chunk \in Chunks
  BY DEF LeftOfSending
<1>1. /\ \A x \in Handlers \ {h} : fan'[x] = fan[x]
      /\ fan'[h].left = fan[h].left \ {b}
      /\ IF fan[h].left = {b} THEN fan'[h] = Idle
                             ELSE fan'[h].at = "sending" /\ fan'[h].chunk = fan[h].chunk
      /\ fan' \in [Handlers -> FanState]
  <2>1. PICK e : /\ fan' = [fan EXCEPT ![h] = e]
                 /\ IF fan[h].left = {b} THEN e = Idle
                                         ELSE e = [fan[h] EXCEPT !.left = fan[h].left \ {b}]
    <3>1. fan' = [fan EXCEPT ![h] = IF fan[h].left = {b} THEN Idle
                                    ELSE [fan[h] EXCEPT !.left = fan[h].left \ {b}]]
      BY Zenon
    <3>. QED BY <3>1, Zenon
  <2>2. Idle \in FanState /\ fan[h] \in FanState /\ fan[h].left \ {b} \in SUBSET Browsers
    BY DEF StreamTypeOK, Idle, FanStates, FanState
  <2>3. CASE fan[h].left = {b}
    <3>1. Idle.left = {}
      BY DEF Idle
    <3>. QED BY <2>1, <2>2, <2>3, <3>1, FanReplaced
  <2>4. CASE fan[h].left # {b}
    <3>1. /\ e \in FanState /\ e.left = fan[h].left \ {b} /\ e.chunk = fan[h].chunk
          /\ e.at = fan[h].at
      <4>1. ASSUME NEW o, o = fan[h], NEW l, l = fan[h].left \ {b}
            PROVE  e \in FanState /\ e.left = l /\ e.chunk = o.chunk /\ e.at = o.at
        <5>1. o \in FanState /\ l \in SUBSET Browsers /\ e = [o EXCEPT !.left = l]
          BY <2>1, <2>2, <2>4, <4>1, Zenon
        <5>. QED BY ONLY <5>1 DEF FanState
      <4>. QED BY <4>1, Zenon
    <3>. QED BY <1>0, <2>1, <2>4, <3>1, FanReplaced
  <2>. QED BY <2>3, <2>4
<1>2. got' \in [Browsers -> SUBSET Chunks]
  BY <1>0 DEF StreamTypeOK
<1>3. StreamTypeOK'
  BY <1>1, <1>2 DEF StreamTypeOK, FanState
<1>4. LeftOfSending'
  BY <1>0, <1>1 DEF LeftOfSending, Idle
<1>5. Covered'
  <2>. SUFFICES ASSUME NEW x \in subs, sock[x] = "open", NEW k \in ToSet(ring) \ got'[x]
                PROVE  OnItsWay(x, k)'
    BY DEF Covered
  <2>1. got[x] \subseteq got'[x] /\ (x = b => fan[h].chunk \in got'[x])
    BY DEF StreamTypeOK
  <2>2. OnItsWay(x, k)
    BY <2>1 DEF Covered
  <2>3. CASE serve[x] \in {"start", "data"} /\ k \in ToSet(replay[x])
    BY <2>3 DEF OnItsWay
  <2>4. CASE \E y \in Handlers : fan[y].chunk = k /\ (fan[y].at = "written" \/ x \in fan[y].left)
    <3>1. PICK y \in Handlers : fan[y].chunk = k /\ (fan[y].at = "written" \/ x \in fan[y].left)
      BY <2>4
    <3>2. CASE y # h
      BY <1>1, <3>1, <3>2 DEF OnItsWay
    <3>3. CASE y = h
      <4>1. x \in fan[h].left /\ x # b
        BY <1>0, <2>1, <3>1, <3>3
      <4>2. fan'[h].chunk = k /\ x \in fan'[h].left
        BY <1>1, <3>1, <3>3, <4>1
      <4>. QED BY <4>2 DEF OnItsWay
    <3>. QED BY <3>2, <3>3
  <2>. QED BY <2>2, <2>3, <2>4 DEF OnItsWay
<1>. QED BY <1>3, <1>4, <1>5 DEF SubscribersAreRouted, NoBrowserStranded, SubscribersServed

-----------------------------------------------------------------------------
\* The hub's own steps: what was subscribed is closed with the route.
LEMMA UnrouteInv ==
  ASSUME StreamInv, UnregisterWrapper \/ CloseSession
  PROVE  StreamInv'
<1>. USE StreamAssumption DEF UnregisterWrapper, CloseSession, Turn, StreamInv, fanVars, serveVars
<1>1. /\ \A h \in Handlers : /\ fan'[h].chunk = fan[h].chunk /\ fan'[h].left = fan[h].left
                             /\ fan'[h].at = fan[h].at \/ (fan[h].at = "found" /\ fan'[h].at = "orphan")
      /\ fan' \in [Handlers -> FanState]
  <2>1. \A h \in Handlers : fan'[h] = fan[h]
                           \/ (fan[h].at = "found" /\ fan'[h] = [fan[h] EXCEPT !.at = "orphan"])
    <3>1. CASE UnregisterWrapper
      BY ONLY <3>1 DEF UnregisterWrapper, fanVars
    <3>2. CASE CloseSession
      BY ONLY <3>2 DEF CloseSession
    <3>. QED BY ONLY <3>1, <3>2, UnregisterWrapper \/ CloseSession
  <2>2. fan \in [Handlers -> FanState]
    BY DEF StreamTypeOK, FanState
  <2>3. ASSUME NEW o \in FanState, NEW e, e = [o EXCEPT !.at = "orphan"]
        PROVE  e \in FanState /\ e.chunk = o.chunk /\ e.left = o.left /\ e.at = "orphan"
    BY ONLY <2>3 DEF FanState, FanStates
  <2>4. \A h \in Handlers :
          /\ fan'[h] \in FanState /\ fan'[h].chunk = fan[h].chunk /\ fan'[h].left = fan[h].left
          /\ fan'[h].at = fan[h].at \/ (fan[h].at = "found" /\ fan'[h].at = "orphan")
    BY <2>1, <2>2, <2>3
  <2>5. fan' = [h \in Handlers |-> fan'[h]]
    BY DEF StreamTypeOK
  <2>. QED BY <2>4, <2>5
<1>2. LeftOfSending'
  BY <1>1 DEF LeftOfSending
<1>3. turns' \in 0..MaxTurns /\ ring' \in Seq(Chunks) /\ Len(ring') <= RingCap
  <2>1. ring' \in {ring, <<>>} /\ turns' = turns + 1 /\ turns < MaxTurns
    OBVIOUS
  <2>2. ring \in Seq(Chunks) /\ Len(ring) <= RingCap /\ turns \in 0..MaxTurns
    BY DEF StreamTypeOK
  <2>3. turns' \in 0..MaxTurns
    BY ONLY <2>1, <2>2, MaxTurns \in Nat
  <2>4. <<>> \in Seq(Chunks) /\ Len(<<>>) <= RingCap
    OBVIOUS
  <2>. QED BY ONLY <2>1, <2>2, <2>3, <2>4
<1>4. StreamTypeOK'
  BY <1>1, <1>3 DEF StreamTypeOK, FanState
<1>5. subs' = {} /\ NoBrowserStranded'
  BY DEF NoBrowserStranded
<1>. QED BY <1>2, <1>4, <1>5 DEF SubscribersAreRouted, SubscribersServed, Covered

LEMMA HubInv ==
  ASSUME StreamInv, AssignSession \/ \E b \in Browsers : CloseBrowser(b)
  PROVE  StreamInv'
<1>. USE StreamAssumption DEF AssignSession, CloseBrowser, StreamInv, fanVars, serveVars
<1>1. StreamTypeOK' /\ LeftOfSending' /\ SubscribersServed' /\ SubscribersAreRouted'
  BY DEF StreamTypeOK, LeftOfSending, SubscribersServed, SubscribersAreRouted
<1>2. NoBrowserStranded'
  BY DEF NoBrowserStranded, StreamTypeOK
<1>3. \A b \in Browsers : sock'[b] = "open" => sock[b] = "open"
  BY DEF StreamTypeOK
<1>4. \A b \in subs : b \in Browsers
  BY DEF StreamTypeOK
<1>5. Covered'
  BY <1>3, <1>4 DEF Covered, OnItsWay
<1>. QED BY <1>1, <1>2, <1>5

\* The handler of a browser.
LEMMA SubscribeInv ==
  ASSUME StreamInv, NEW b \in Browsers, Subscribe(b)
  PROVE  StreamInv'
<1>. USE StreamAssumption DEF Subscribe, StreamInv, fanVars
<1>1. CASE routed
  <2>. USE <1>1 DEF Accept
  <2>1. StreamTypeOK' /\ LeftOfSending' /\ SubscribersAreRouted'
    <3>1. replay' \in [Browsers -> Seq(Chunks)]
      BY DEF StreamTypeOK
    <3>2. serve' \in [Browsers -> ServeStates]
      <4>1. serve \in [Browsers -> ServeStates] /\ serve' = [serve EXCEPT ![b] = "start"]
        BY DEF StreamTypeOK
      <4>. QED BY ONLY <4>1 DEF ServeStates
    <3>3. subs' \in SUBSET Browsers
      BY DEF StreamTypeOK
    <3>. QED BY <3>1, <3>2, <3>3 DEF StreamTypeOK, LeftOfSending, SubscribersAreRouted
  <2>2. SubscribersServed' /\ NoBrowserStranded'
    BY DEF SubscribersServed, NoBrowserStranded, Attached, StreamTypeOK
  <2>3. Covered'
    <3>. SUFFICES ASSUME NEW x \in subs', sock[x] = "open", NEW k \in ToSet(ring) \ got[x]
                  PROVE  OnItsWay(x, k)'
      BY DEF Covered
    <3>1. CASE x = b
      <4>1. serve'[x] = "start" /\ replay'[x] = ring
        BY <3>1 DEF StreamTypeOK
      <4>. QED BY <4>1 DEF OnItsWay
    <3>2. CASE x # b
      <4>1. x \in subs /\ serve'[x] = serve[x] /\ replay'[x] = replay[x] /\ OnItsWay(x, k)
        BY <3>2 DEF StreamTypeOK, Covered
      <4>. QED BY <4>1 DEF OnItsWay
    <3>. QED BY <3>1, <3>2
  <2>. QED BY <2>1, <2>2, <2>3
<1>2. CASE ~routed
  <2>. USE <1>2 DEF Refuse, hubVars
  <2>1. StreamTypeOK' /\ LeftOfSending' /\ SubscribersAreRouted' /\ NoBrowserStranded'
    <3>1. /\ serve' \in [Browsers -> ServeStates] /\ sock' \in [Browsers -> {"open", "closed"}]
          /\ \A x \in Browsers : serve'[x] \in {"none", serve[x]}
          /\ \A x \in Browsers : sock'[x] = "open" => sock[x] = "open"
          /\ serve[b] = "accepted" /\ \A x \in Browsers \ {b} : serve'[x] = serve[x] /\ sock'[x] = sock[x]
      BY DEF StreamTypeOK, ServeStates
    <3>2. StreamTypeOK'
      BY <3>1 DEF StreamTypeOK
    <3>3. LeftOfSending' /\ SubscribersAreRouted'
      BY DEF LeftOfSending, SubscribersAreRouted
    <3>4. NoBrowserStranded'
      BY <3>1 DEF NoBrowserStranded
    <3>. QED BY <3>2, <3>3, <3>4
  <2>2. subs' = {}
    BY DEF SubscribersAreRouted
  <2>. QED BY <2>1, <2>2 DEF SubscribersServed, Covered
<1>. QED BY <1>1, <1>2

LEMMA SendReplayInv ==
  ASSUME StreamInv, NEW b \in Browsers, SendReplay(b)
  PROVE  StreamInv'
<1>. USE StreamAssumption DEF SendReplay, StreamInv, fanVars, hubVars
<1>1. /\ serve[b] \in {"start", "data", "end"} /\ serve'[b] \in {"data", "end", "live"}
      /\ serve' \in [Browsers -> ServeStates]
      /\ serve[b] = "data" => serve'[b] = "end"
      /\ serve'[b] \notin {"start", "data"} => serve[b] \in {"data", "end"}
      /\ \A x \in Browsers \ {b} : serve'[x] = serve[x]
  BY DEF StreamTypeOK, ServeStates
<1>2. got' \in [Browsers -> SUBSET Chunks]
  <2>1. ToSet(replay[b]) \subseteq Chunks
    BY DEF StreamTypeOK, ToSet
  <2>2. got \in [Browsers -> SUBSET Chunks]
    BY DEF StreamTypeOK
  <2>3. CASE UNCHANGED got
    BY ONLY <2>2, <2>3
  <2>4. CASE got' = [got EXCEPT ![b] = IF sock[b] = "open" THEN @ \cup ToSet(replay[b]) ELSE @]
    BY ONLY <2>1, <2>2, <2>4, b \in Browsers
  <2>. QED BY <2>3, <2>4
<1>3. /\ \A x \in Browsers : got[x] \subseteq got'[x]
      /\ serve[b] = "data" /\ sock[b] = "open" => ToSet(replay[b]) \subseteq got'[b]
  <2>1. got \in [Browsers -> SUBSET Chunks]
    BY DEF StreamTypeOK
  <2>. QED BY <2>1
<1>4. StreamTypeOK' /\ LeftOfSending' /\ SubscribersAreRouted'
  BY <1>1, <1>2 DEF StreamTypeOK, LeftOfSending, SubscribersAreRouted
<1>5. SubscribersServed' /\ NoBrowserStranded'
  BY <1>1 DEF SubscribersServed, NoBrowserStranded, Attached, StreamTypeOK
<1>6. Covered'
  <2>. SUFFICES ASSUME NEW x \in subs, sock[x] = "open", NEW k \in ToSet(ring) \ got'[x]
                PROVE  OnItsWay(x, k)'
    BY DEF Covered
  <2>1. x \in Browsers
    BY DEF StreamTypeOK
  <2>2. OnItsWay(x, k)
    BY <1>3, <2>1 DEF Covered
  <2>3. CASE serve[x] \in {"start", "data"} /\ k \in ToSet(replay[x])
    <3>1. ~(x = b /\ serve[b] = "data")
      BY <1>3, <2>3
    <3>2. serve'[x] \in {"start", "data"}
      BY <1>1, <2>1, <2>3, <3>1
    <3>. QED BY <2>3, <3>2 DEF OnItsWay
  <2>4. CASE ~(serve[x] \in {"start", "data"} /\ k \in ToSet(replay[x]))
    BY <2>2, <2>4 DEF OnItsWay
  <2>. QED BY <2>3, <2>4
<1>. QED BY <1>4, <1>5, <1>6

LEMMA UnsubscribeInv ==
  ASSUME StreamInv, NEW b \in Browsers, Unsubscribe(b)
  PROVE  StreamInv'
<1>. USE StreamAssumption DEF Unsubscribe, StreamInv, fanVars
<1>1. StreamTypeOK' /\ LeftOfSending' /\ SubscribersAreRouted'
  BY DEF StreamTypeOK, ServeStates, LeftOfSending, SubscribersAreRouted
<1>2. SubscribersServed' /\ NoBrowserStranded'
  BY DEF SubscribersServed, NoBrowserStranded, Attached, StreamTypeOK
<1>3. \A x \in subs' : x \in subs /\ serve'[x] = serve[x]
  BY DEF StreamTypeOK
<1>4. Covered'
  BY <1>3 DEF Covered, OnItsWay
<1>. QED BY <1>1, <1>2, <1>4

-----------------------------------------------------------------------------
\* The hook's steps.
LEMMA ConnectInv ==
  ASSUME StreamInv, NEW t \in Tabs, Connect(t)
  PROVE  StreamInv'
<1>. USE StreamAssumption DEF StreamInv
<1>1. PICK b \in Browsers :
        /\ Unused(b)
        /\ tab' = [tab EXCEPT ![t] = b]
        /\ sock' = [sock EXCEPT ![b] = "open"]
        /\ serve' = [serve EXCEPT ![b] = "accepted"]
        /\ replay' = [replay EXCEPT ![b] = <<>>]
        /\ got' = [got EXCEPT ![b] = {}]
  BY DEF Connect
<1>2. UNCHANGED <<hubVars, fanVars, turns>>
  BY DEF Connect
<1>3. b \notin subs
  BY <1>1 DEF Unused, SubscribersServed, Attached
<1>4. StreamTypeOK' /\ LeftOfSending' /\ SubscribersAreRouted'
  BY <1>1, <1>2 DEF StreamTypeOK, ServeStates, LeftOfSending, SubscribersAreRouted, hubVars, fanVars
<1>5. \A x \in Browsers \ {b} : /\ sock'[x] = sock[x] /\ serve'[x] = serve[x]
                                /\ replay'[x] = replay[x] /\ got'[x] = got[x]
  BY <1>1 DEF StreamTypeOK
<1>6. serve'[b] = "accepted" /\ subs \subseteq Browsers \ {b}
  BY <1>1, <1>3 DEF StreamTypeOK
<1>7. SubscribersServed' /\ NoBrowserStranded'
  BY <1>2, <1>5, <1>6 DEF SubscribersServed, NoBrowserStranded, hubVars
<1>8. Covered'
  <2>. SUFFICES ASSUME NEW x \in subs, sock'[x] = "open", NEW k \in ToSet(ring) \ got'[x]
                PROVE  OnItsWay(x, k)'
    BY <1>2 DEF Covered, hubVars
  <2>1. x \in Browsers \ {b}
    BY <1>6
  <2>2. OnItsWay(x, k)
    BY <1>5, <2>1 DEF Covered
  <2>. QED BY <1>2, <1>5, <2>1, <2>2 DEF OnItsWay, fanVars
<1>. QED BY <1>4, <1>7, <1>8

LEMMA HookInv ==
  ASSUME StreamInv, NEW t \in Tabs, OnClose(t) \/ Leave(t)
  PROVE  StreamInv'
<1>. USE StreamAssumption DEF OnClose, Leave, Turn, StreamInv, hubVars, fanVars, serveVars
<1>1. StreamTypeOK' /\ LeftOfSending' /\ SubscribersAreRouted' /\ SubscribersServed'
  <2>1. sock' \in [Browsers -> {"open", "closed"}] /\ turns' \in 0..MaxTurns
    <3>0. sock \in [Browsers -> {"open", "closed"}] /\ turns \in 0..MaxTurns
      BY DEF StreamTypeOK
    <3>1. CASE OnClose(t)
      BY <3>0, <3>1
    <3>2. CASE Leave(t)
      <4>1. sock' = [sock EXCEPT ![tab[t]] = "closed"] /\ turns' = turns + 1 /\ turns < MaxTurns
        BY <3>2
      <4>2. sock' \in [Browsers -> {"open", "closed"}]
        BY ONLY <3>0, <4>1
      <4>. QED BY ONLY <3>0, <4>1, <4>2, MaxTurns \in Nat
    <3>. QED BY <3>1, <3>2
  <2>2. tab' \in [Tabs -> Browsers \cup {NoBrowser}]
    BY DEF StreamTypeOK
  <2>. QED BY <2>1, <2>2 DEF StreamTypeOK, LeftOfSending, SubscribersAreRouted, SubscribersServed
<1>2. \A b \in Browsers : sock'[b] = "open" => sock[b] = "open"
  BY DEF StreamTypeOK
<1>3. subs \subseteq Browsers
  BY DEF StreamTypeOK
<1>4. NoBrowserStranded' /\ Covered'
  BY <1>2, <1>3 DEF NoBrowserStranded, Covered, OnItsWay
<1>. QED BY <1>1, <1>4

LEMMA NextInv == StreamInv /\ [Next]_vars => StreamInv'
<1>. SUFFICES ASSUME StreamInv, [Next]_vars PROVE StreamInv'
  OBVIOUS
<1>1. ASSUME NEW h \in Handlers, FanoutPTYData(h) \/ FanStep(h) PROVE StreamInv'
  BY <1>1, FanStart, WriteRingInv, ReadInv, FanoutInv DEF FanStep
<1>2. CASE UnregisterWrapper \/ CloseSession
  BY <1>2, UnrouteInv
<1>3. CASE AssignSession \/ \E b \in Browsers : CloseBrowser(b)
  BY <1>3, HubInv
<1>4. ASSUME NEW b \in Browsers, ServeStep(b) PROVE StreamInv'
  BY <1>4, SubscribeInv, SendReplayInv, UnsubscribeInv DEF ServeStep
<1>5. ASSUME NEW t \in Tabs, TabStep(t) \/ Leave(t) PROVE StreamInv'
  BY <1>5, ConnectInv, HookInv DEF TabStep
<1>6. CASE UNCHANGED vars
  BY <1>6
  DEF vars, hubVars, fanVars, serveVars, StreamInv, StreamTypeOK, SubscribersAreRouted,
      NoBrowserStranded, SubscribersServed, LeftOfSending, Covered, OnItsWay
<1>. QED BY <1>1, <1>2, <1>3, <1>4, <1>5, <1>6 DEF Next

-----------------------------------------------------------------------------
(* The types of the hub's, the handlers' and the hooks' state.             *)
THEOREM StreamTyped == Spec => []StreamTypeOK
<1>1. StreamInv => StreamTypeOK
  BY DEF StreamInv
<1>. QED BY InitInv, NextInv, <1>1, PTL DEF Spec

(* None subscribes to a session whose wrapper is gone, or stays subscribed *)
(* when it goes (hub.go, Subscribe, UnregisterWrapper, CloseSession).      *)
THEOREM OnlyRoutedSubscribed == Spec => []SubscribersAreRouted
<1>1. StreamInv => SubscribersAreRouted
  BY DEF StreamInv
<1>. QED BY InitInv, NextInv, <1>1, PTL DEF Spec

(* An open browser that was accepted has the stream or is about to be      *)
(* closed, although the hub closes outside its lock.                       *)
THEOREM NoneStranded == Spec => []NoBrowserStranded
<1>1. StreamInv => NoBrowserStranded
  BY DEF StreamInv
<1>. QED BY InitInv, NextInv, <1>1, PTL DEF Spec

(* Replay and live stream leave no gap: the ring is written before the     *)
(* subscribers are read, and the snapshot is taken with the subscription.  *)
THEOREM NoGap == Spec => []NothingMissed
<1>1. StreamInv => NothingMissed
  BY DEF StreamInv, Covered, OnItsWay, NothingMissed
<1>. QED BY InitInv, NextInv, <1>1, PTL DEF Spec
=============================================================================
