----------------------------- MODULE TabProofs -----------------------------
(***************************************************************************)
(* Proofs about the two pages that tell the user of things by toasts.      *)
(* Tab: a page has one connection or one timer, never both and never       *)
(* neither, and what is typed in it arrives, for any sessions, sockets and *)
(* number of losses. Settings: what was saved is stored and shown, for any *)
(* limits, entries and failures. Both keep the toasts that are open.       *)
(***************************************************************************)
EXTENDS Tab, Settings, WellFoundedInduction, SequenceTheorems, TLAPS

HookTypes ==
  /\ shown \in Sessions \cup {NoSession}
  /\ sock \in [Sockets -> SocketState]
  /\ ref \in Sockets \cup {NoSocket}
  /\ timer \in BOOLEAN

\* The sockets in use are those of the effect that is set up: one that the
\* hook has closed belongs to an effect that was cleaned up.
StoppedOrMine ==
  \A k \in Sockets : (Live(k) => sock[k].mine) /\ (sock[k].mine => Live(k))

\* No timer outlives the page.
TimerOfPage == timer => shown # NoSession

TabInv == HookTypes /\ StoppedOrMine /\ TimerOfPage /\ OneLiveSocket /\ NeverStuck

LEMMA InitInv == Init => TabInv
<1>. SUFFICES ASSUME Init PROVE TabInv
  OBVIOUS
<1>1. \A k \in Sockets : sock[k] = Closed /\ Closed \in SocketState
  BY DEF Init, Closed, SocketState
<1>2. HookTypes
  BY <1>1 DEF Init, HookTypes
<1>3. \A k \in Sockets : sock[k].rs = "closed" /\ ~sock[k].mine
  BY <1>1 DEF Closed
<1>. QED BY <1>2, <1>3 DEF Init, TabInv, StoppedOrMine, TimerOfPage, OneLiveSocket, NeverStuck, Live

\* What neither opens nor closes a socket keeps the invariant, the loss of the
\* other end of one included: the hook learns of that with the close event.
LEMMA Untouched ==
  ASSUME TabInv, UNCHANGED <<shown, ref, timer, status>>,
         \/ sock' = sock
         \/ \E k \in Sockets : sock' = [sock EXCEPT ![k].alive = FALSE]
  PROVE  TabInv'
<1>1. CASE sock' = sock
  BY <1>1 DEF TabInv, HookTypes, StoppedOrMine, TimerOfPage, OneLiveSocket, NeverStuck, Live
<1>2. CASE \E k \in Sockets : sock' = [sock EXCEPT ![k].alive = FALSE]
  <2>1. PICK k \in Sockets : sock' = [sock EXCEPT ![k].alive = FALSE]
    BY <1>2
  <2>2. sock' \in [Sockets -> SocketState]
    BY <2>1 DEF TabInv, HookTypes, SocketState
  <2>3. \A x \in Sockets : /\ sock'[x].rs = sock[x].rs /\ sock'[x].sid = sock[x].sid
                           /\ sock'[x].mine = sock[x].mine
    BY <2>1 DEF TabInv, HookTypes, SocketState
  <2>. QED BY <2>2, <2>3 DEF TabInv, HookTypes, StoppedOrMine, TimerOfPage, OneLiveSocket, NeverStuck, Live
<1>. QED BY <1>1, <1>2

\* After the clean-up no socket is in use and none belongs to the effect.
LEMMA CleanUp ==
  ASSUME TabInv
  PROVE  /\ CleanedUp \in [Sockets -> SocketState]
         /\ \A k \in Sockets : /\ ~CleanedUp[k].mine
                               /\ CleanedUp[k].rs \in {"closed", "closing"}
<1>1. ASSUME NEW k \in Sockets
      PROVE  /\ CleanedUp[k] \in SocketState /\ ~CleanedUp[k].mine
             /\ CleanedUp[k].rs \in {"closed", "closing"}
  <2>1. CASE k = ref /\ Live(k)
    BY <2>1 DEF CleanedUp, TabInv, HookTypes, SocketState
  <2>2. CASE ~(k = ref /\ Live(k))
    <3>1. ~Live(k)
      BY <2>2 DEF TabInv, OneLiveSocket
    <3>. QED BY <2>2, <3>1 DEF CleanedUp, TabInv, HookTypes, SocketState, Live
  <2>. QED BY <2>1, <2>2
<1>. QED BY <1>1 DEF CleanedUp

\* connect() for the session that will be shown, while no other socket is in
\* use and the timer is not pending, gives the page its one connection.
LEMMA Connected ==
  ASSUME NEW s \in Sessions, NEW others \in [Sockets -> SocketState],
         \A k \in Sockets : ~others[k].mine /\ others[k].rs \in {"closed", "closing"},
         Connect(s, others), shown' = s, timer' = FALSE
  PROVE  TabInv'
<1>1. PICK k \in Sockets :
        /\ sock' = [others EXCEPT ![k] = [rs |-> "connecting", sid |-> s, mine |-> TRUE, alive |-> TRUE]]
        /\ ref' = k /\ status' = "connecting"
  BY DEF Connect
<1>2. sock' \in [Sockets -> SocketState]
  BY <1>1 DEF SocketState
<1>3. /\ sock'[k].rs = "connecting" /\ sock'[k].sid = s /\ sock'[k].mine
      /\ \A x \in Sockets \ {k} : ~sock'[x].mine /\ sock'[x].rs \in {"closed", "closing"}
  BY <1>1
<1>. QED BY <1>1, <1>2, <1>3, TabAssumption
     DEF TabInv, HookTypes, StoppedOrMine, TimerOfPage, OneLiveSocket, NeverStuck, Live

\* While the timer is pending, or the page is not shown, no socket is in use.
LEMMA NoneMine ==
  ASSUME TabInv, timer \/ shown = NoSession
  PROVE  \A k \in Sockets : ~sock[k].mine /\ sock[k].rs \in {"closed", "closing"}
<1>1. \A k \in Sockets : sock[k].rs \in {"closed", "closing"}
  BY DEF TabInv, HookTypes, SocketState, OneLiveSocket, Live
<1>2. \A k \in Sockets : ~sock[k].mine
  BY <1>1 DEF TabInv, StoppedOrMine, Live
<1>. QED BY <1>1, <1>2

\* The close event of a socket that was in use arms the timer; that of one the
\* hook has closed itself changes nothing the hook looks at.
LEMMA CloseStep ==
  ASSUME TabInv, NEW k \in Sockets, OnClose(k)
  PROVE  TabInv'
<1>1. /\ sock' \in [Sockets -> SocketState] /\ sock'[k] = Closed
      /\ \A x \in Sockets \ {k} : sock'[x] = sock[x]
  BY DEF OnClose, CloseEvent, TabInv, HookTypes, SocketState, Closed
<1>2. shown' = shown /\ ref' = ref
  BY DEF OnClose, CloseEvent
<1>3. CASE sock[k].mine
  <2>1. Live(k)
    BY <1>3 DEF OnClose, CloseEvent, TabInv, StoppedOrMine
  <2>2. shown # NoSession /\ \A x \in Sockets \ {k} : ~Live(x)
    BY <2>1 DEF TabInv, OneLiveSocket
  <2>3. status' = "closed" /\ timer' = TRUE
    BY <1>3 DEF OnClose
  <2>. QED BY <1>1, <1>2, <2>2, <2>3
       DEF TabInv, HookTypes, StoppedOrMine, TimerOfPage, OneLiveSocket, NeverStuck, Live, Closed
<1>4. CASE ~sock[k].mine
  <2>1. ~Live(k)
    BY <1>4 DEF TabInv, StoppedOrMine
  <2>2. status' = status /\ timer' = timer
    BY <1>4 DEF OnClose
  <2>. QED BY <1>1, <1>2, <2>1, <2>2
       DEF TabInv, HookTypes, StoppedOrMine, TimerOfPage, OneLiveSocket, NeverStuck, Live, Closed
<1>. QED BY <1>3, <1>4

LEMMA OpenStep ==
  ASSUME TabInv, NEW k \in Sockets, OnOpen(k)
  PROVE  TabInv'
<1>1. k = ref /\ shown # NoSession /\ sock[k].sid = shown /\ sock[k].mine /\ ~timer
  BY DEF OnOpen, TabInv, StoppedOrMine, TimerOfPage, OneLiveSocket, Live
<1>2. sock' \in [Sockets -> SocketState]
  BY DEF OnOpen, TabInv, HookTypes, SocketState
<1>3. /\ sock'[k].rs = "open" /\ sock'[k].sid = sock[k].sid /\ sock'[k].mine = sock[k].mine
      /\ \A x \in Sockets \ {k} : sock'[x] = sock[x]
  BY DEF OnOpen, TabInv, HookTypes, SocketState
<1>4. UNCHANGED <<shown, ref, timer>> /\ status' = "open"
  BY DEF OnOpen
<1>. QED BY <1>1, <1>2, <1>3, <1>4, TabAssumption
     DEF TabInv, HookTypes, StoppedOrMine, TimerOfPage, OneLiveSocket, NeverStuck, Live

LEMMA NextInv == ASSUME TabInv, [Next]_vars PROVE TabInv'
<1>1. ASSUME NEW s \in Sessions, Mount(s) PROVE TabInv'
  <2>1. \A k \in Sockets : ~sock[k].mine /\ sock[k].rs \in {"closed", "closing"}
    BY <1>1, NoneMine DEF Mount
  <2>. QED BY <1>1, <2>1, Connected DEF Mount, TabInv, HookTypes
<1>2. ASSUME NEW s \in Sessions, Switch(s) PROVE TabInv'
  BY <1>2, CleanUp, Connected DEF Switch
<1>3. CASE Unmount
  <2>1. HookTypes'
    BY <1>3, CleanUp DEF Unmount, HookTypes
  <2>2. \A k \in Sockets : ~sock'[k].mine /\ sock'[k].rs \in {"closed", "closing"}
    BY <1>3, CleanUp DEF Unmount
  <2>3. shown' = NoSession
    BY <1>3 DEF Unmount
  <2>4. StoppedOrMine' /\ OneLiveSocket'
    BY <2>2 DEF StoppedOrMine, OneLiveSocket, Live
  <2>. QED BY <1>3, <2>1, <2>3, <2>4 DEF Unmount, TabInv, TimerOfPage, NeverStuck
<1>4. CASE Retry
  <2>1. shown \in Sessions
    BY <1>4 DEF Retry, TabInv, HookTypes, TimerOfPage
  <2>. QED BY <1>4, <2>1, NoneMine, Connected DEF Retry, TabInv, HookTypes
<1>5. CASE Write \/ Toasting \/ UNCHANGED vars
  BY <1>5, Untouched DEF Write, Toasting, vars, hookVars, sockVars
<1>6. ASSUME NEW k \in Sockets, OnOpen(k) PROVE TabInv'
  BY <1>6, OpenStep
<1>7. ASSUME NEW k \in Sockets, OnClose(k) PROVE TabInv'
  BY <1>7, CloseStep
<1>8. ASSUME NEW k \in Sockets, \/ OnMessage(k) \/ SendPTYData(k) \/ Receive(k) \/ Lose(k)
                                \/ \E type \in Notices : SendControl(k, type)
      PROVE  TabInv'
  BY <1>8, Untouched DEF OnMessage, SendPTYData, SendControl, Send, Receive, Lose, hookVars
<1>. QED BY <1>1, <1>2, <1>3, <1>4, <1>5, <1>6, <1>7, <1>8 DEF Next

\* The tab has at most one connection in use, that of the session it shows,
\* and no timer about to make a second.
THEOREM OneConnection == Spec => []OneLiveSocket
<1>1. TabInv => OneLiveSocket
  BY DEF TabInv
<1>. QED BY InitInv, NextInv, <1>1, PTL DEF Spec

\* A page that is shown has a connection in use or a timer that will make one,
\* and its header says which.
THEOREM AlwaysConnecting == Spec => []NeverStuck
<1>1. TabInv => NeverStuck
  BY DEF TabInv
<1>. QED BY InitInv, NextInv, <1>1, PTL DEF Spec

-----------------------------------------------------------------------------
\* What the steps leave of the page's own state, given that of its sockets.
LEMMA TypesKept == ASSUME TabInv, TabTypeOK, [Next]_vars PROVE TabTypeOK'
<1>. USE TabAssumption DEF TabTypeOK
<1>0. TabInv'
  BY NextInv
<1>1. /\ shown' \in Sessions \cup {NoSession} /\ sock' \in [Sockets -> SocketState]
      /\ ref' \in Sockets \cup {NoSocket} /\ timer' \in BOOLEAN
  BY <1>0 DEF TabInv, HookTypes
<1>2. \A k \in Sockets : sock[k].rs = "open" => sock[k].sid \in Sessions
  BY DEF TabInv, OneLiveSocket, Live
<1>3. first' \in Sessions \cup {NoSession} /\ turns' \in 0..MaxTurns
  <2>1. CASE (\E s \in Sessions : Mount(s) \/ Switch(s)) \/ Unmount \/ \E k \in Sockets : Lose(k)
    BY <2>1 DEF Mount, Switch, Unmount, Lose, Turn
  <2>2. CASE UNCHANGED <<first, turns>>
    BY <2>2
  <2>. QED BY <2>1, <2>2
       DEF Next, vars, Retry, Write, Toasting, OnOpen, OnMessage, OnClose, CloseEvent, SendPTYData,
           Receive, SendControl, Send
<1>4. attempts' \in 0..DelaySteps /\ status' \in {"connecting", "open", "closed"}
  <2>1. CASE (\E s \in Sessions : Mount(s) \/ Switch(s)) \/ Unmount \/ Retry
    BY <2>1 DEF Mount, Switch, Unmount, Retry, Connect
  <2>2. CASE \E k \in Sockets : OnOpen(k) \/ OnClose(k)
    BY <2>2 DEF OnOpen, OnClose, Backoff
  <2>3. CASE UNCHANGED <<attempts, status>>
    BY <2>3
  <2>. QED BY <2>1, <2>2, <2>3
       DEF Next, vars, hookVars, Write, Toasting, OnMessage, SendPTYData, Receive, Lose,
           SendControl, Send
<1>5. term' \in SUBSET Sessions
  <2>1. CASE \E k \in Sockets : OnMessage(k)
    BY <2>1, <1>2 DEF OnMessage
  <2>2. CASE term' = {} \/ UNCHANGED term
    BY <2>2
  <2>. QED BY <2>1, <2>2
       DEF Next, vars, Mount, Switch, Unmount, Retry, Write, Toasting, OnOpen, OnClose, CloseEvent,
           SendPTYData, Receive, Lose, SendControl, Send
<1>. QED BY <1>1, <1>3, <1>4, <1>5

\* The page's own state, its sockets' and what its terminal shows keep their
\* types (useSessionStream.ts, SessionView.tsx).
THEOREM TabTyped == Spec => []TabTypeOK
<1>1. Init => TabTypeOK
  <2>1. Init => HookTypes
    BY InitInv DEF TabInv
  <2>. QED BY <2>1, TabAssumption DEF Init, TabTypeOK, HookTypes
<1>2. TabInv /\ TabTypeOK /\ [Next]_vars => TabInv' /\ TabTypeOK'
  BY NextInv, TypesKept
<1>. QED BY InitInv, <1>1, <1>2, PTL DEF Spec

-----------------------------------------------------------------------------
(***************************************************************************)
(* Induction over data. What a recursive function computes is shown with a *)
(* set of numbers in place of a predicate: the naturals are well-founded.  *)
(***************************************************************************)
LEMMA SmallerIsWellFounded == IsWellFoundedOn({p \in Nat \X Nat : p[1] < p[2]}, Nat)
<1>1. OpToRel(<, Nat) = {p \in Nat \X Nat : p[1] < p[2]}
  BY DEF OpToRel
<1>. QED BY <1>1, NatLessThanWellFounded

\* Induction over the naturals, for a set in place of a predicate.
LEMMA SetInduction ==
  ASSUME NEW S, 0 \in S, \A n \in Nat : n \in S => n + 1 \in S
  PROVE  Nat \subseteq S
<1>. DEFINE R == {p \in Nat \X Nat : p[1] < p[2]}
            T == Nat \ S
<1>1. ASSUME T # {} PROVE FALSE
  <2>1. IsWellFoundedOn(R, Nat) /\ T \subseteq Nat
    BY SmallerIsWellFounded
  <2>2. PICK x \in T : \A y \in T : ~(<<y, x>> \in R)
    <3>. HIDE DEF R, T
    <3>. QED BY <1>1, <2>1, WFMin
  <2>3. x \in Nat /\ x # 0
    OBVIOUS
  <2>4. x - 1 \in Nat /\ (x - 1) + 1 = x
    BY <2>3
  <2>5. <<x - 1, x>> \in R
    BY <2>3, <2>4
  <2>6. x - 1 \in S
    BY <2>2, <2>4, <2>5
  <2>. QED BY <2>2, <2>4, <2>6
<1>. QED BY <1>1

\* f is a at 0 and what G makes of the one before from there.
Recursive(f, V, n, a, G) ==
  f \in [0..n -> V] /\ f[0] = a /\ \A i \in 1..n : f[i] = G[<<i, f[i - 1]>>]

\* A function that is defined by recursion over 0..n exists.
LEMMA Recursion ==
  ASSUME NEW V, NEW n \in Nat, NEW a \in V, NEW G \in [(1..n) \X V -> V]
  PROVE  \E f : Recursive(f, V, n, a, G)
<1>. DEFINE Upto(k) == \E f \in [0..k -> V] : f[0] = a /\ \A i \in 1..k : f[i] = G[<<i, f[i - 1]>>]
            S == {k \in Nat : k <= n => Upto(k)}
<1>1. 0 \in S
  <2>. DEFINE g == [i \in 0..0 |-> a]
  <2>1. g \in [0..0 -> V] /\ g[0] = a /\ 1..0 = {}
    OBVIOUS
  <2>. HIDE DEF g
  <2>2. \A i \in 1..0 : g[i] = G[<<i, g[i - 1]>>]
    BY <2>1
  <2>. QED BY <2>1, <2>2
<1>2. ASSUME NEW k \in Nat, k \in S PROVE k + 1 \in S
  <2>. SUFFICES ASSUME k + 1 <= n PROVE Upto(k + 1)
    OBVIOUS
  <2>1. PICK f \in [0..k -> V] : f[0] = a /\ \A i \in 1..k : f[i] = G[<<i, f[i - 1]>>]
    BY <1>2
  <2>2. f[k] \in V /\ G[<<k + 1, f[k]>>] \in V
    OBVIOUS
  <2>. DEFINE g == [i \in 0..(k + 1) |-> IF i = k + 1 THEN G[<<k + 1, f[k]>>] ELSE f[i]]
  <2>3. g \in [0..(k + 1) -> V]
    BY <2>2
  <2>4. g[0] = a
    BY <2>1
  <2>5. ASSUME NEW i \in 1..(k + 1) PROVE g[i] = G[<<i, g[i - 1]>>]
    <3>1. CASE i = k + 1
      <4>1. g[i - 1] = f[k] /\ g[i] = G[<<k + 1, f[k]>>]
        BY <3>1
      <4>. QED BY <3>1, <4>1
    <3>2. CASE i \in 1..k
      <4>1. i \in 0..(k + 1) /\ i - 1 \in 0..(k + 1) /\ i # k + 1 /\ i - 1 # k + 1
        BY <3>2
      <4>2. g[i] = f[i] /\ g[i - 1] = f[i - 1]
        BY <4>1
      <4>. QED BY <2>1, <3>2, <4>2
    <3>. QED BY <3>1, <3>2
  <2>. QED BY <2>3, <2>4, <2>5
<1>3. n \in S
  <2>. HIDE DEF S
  <2>. QED BY <1>1, <1>2, SetInduction
<1>. QED BY <1>3 DEF Recursive

-----------------------------------------------------------------------------
(***************************************************************************)
(* The frames of ptydata.ts: what is encoded decodes to itself.            *)
(***************************************************************************)
\* A is what acc is after each digit of d, as a number.
Accumulates(A, d, base, n) ==
  /\ A \in [0..n -> Nat] /\ A[0] = 0
  /\ \A i \in 1..n : A[i] = A[i - 1] * base + d[i]

\* The function that Accumulated defines by recursion is that one.
LEMMA AccumulatedSteps ==
  ASSUME NEW n \in Nat, NEW d \in [1..n -> Nat], NEW base \in Nat
  PROVE  Accumulates(Accumulated(d, base), d, base, n)
<1>. DEFINE Step(g) == [i \in 0..n |-> IF i = 0 THEN 0 ELSE g[i - 1] * base + d[i]]
            G == [p \in (1..n) \X Nat |-> p[2] * base + d[p[1]]]
            A == Accumulated(d, base)
<1>1. Len(d) = n
  OBVIOUS
<1>2. \A x, y \in Nat : x * base + y \in Nat
  BY SMT
<1>3. G \in [(1..n) \X Nat -> Nat]
  BY <1>2
<1>4. PICK f : Recursive(f, Nat, n, 0, G)
  <2>1. 0 \in Nat
    OBVIOUS
  <2>. HIDE DEF G
  <2>. QED BY <1>3, <2>1, Recursion
<1>5. f = Step(f)
  <2>1. ASSUME NEW i \in 0..n PROVE f[i] = Step(f)[i]
    <3>1. CASE i = 0
      BY <1>4, <3>1 DEF Recursive
    <3>2. CASE i \in 1..n
      <4>1. f[i - 1] \in Nat
        BY <1>4, <3>2 DEF Recursive
      <4>. QED BY <1>4, <3>2, <4>1 DEF Recursive
    <3>. QED BY <3>1, <3>2
  <2>. QED BY <1>4, <2>1 DEF Recursive
<1>6. A = CHOOSE g : g = Step(g)
  BY <1>1 DEF Accumulated
<1>7. A = Step(A)
  <2>. HIDE DEF Step, A
  <2>. QED BY ONLY <1>5, <1>6
<1>8. DOMAIN A = 0..n /\ A[0] = 0 /\ \A i \in 1..n : A[i] = A[i - 1] * base + d[i]
  <2>. HIDE DEF A
  <2>. QED BY ONLY <1>7, n \in Nat
<1>9. \A i \in 0..n : A[i] \in Nat
  <2>. DEFINE S == {i \in Nat : i <= n => A[i] \in Nat}
  <2>. HIDE DEF A
  <2>1. 0 \in S
    BY <1>8
  <2>2. ASSUME NEW i \in Nat, i \in S PROVE i + 1 \in S
    <3>. SUFFICES ASSUME i + 1 <= n PROVE A[i + 1] \in Nat
      OBVIOUS
    <3>1. A[i + 1] = A[i] * base + d[i + 1] /\ A[i] \in Nat /\ d[i + 1] \in Nat
      BY <1>8, <2>2
    <3>. QED BY <1>2, <3>1
  <2>3. Nat \subseteq S
    <3>. HIDE DEF S
    <3>. QED BY <2>1, <2>2, SetInduction
  <2>. QED BY <2>3
<1>10. A \in [0..n -> Nat]
  <2>. HIDE DEF A
  <2>1. A = [i \in 0..n |-> A[i]]
    BY <1>7
  <2>. QED BY <1>9, <2>1
<1>. QED BY <1>8, <1>10 DEF Accumulates

\* R is what is left of x after each digit that is taken off its end.
Remains(R, x, base, len) ==
  /\ R \in [0..len -> Nat] /\ R[0] = x
  /\ \A i \in 1..len : R[i] = R[i - 1] \div base

\* The function that Remaining defines by recursion is that one.
LEMMA RemainingSteps ==
  ASSUME NEW x \in Nat, NEW base \in Nat \ {0}, NEW len \in Nat
  PROVE  Remains(Remaining(x, base, len), x, base, len)
<1>. DEFINE Step(g) == [i \in 0..len |-> IF i = 0 THEN x ELSE g[i - 1] \div base]
            G == [p \in (1..len) \X Nat |-> p[2] \div base]
            A == Remaining(x, base, len)
<1>2. \A y \in Nat : y \div base \in Nat
  BY SMT
<1>3. G \in [(1..len) \X Nat -> Nat]
  BY <1>2
<1>4. PICK f : Recursive(f, Nat, len, x, G)
  <2>. HIDE DEF G
  <2>. QED BY <1>3, Recursion
<1>5. f = Step(f)
  <2>1. ASSUME NEW i \in 0..len PROVE f[i] = Step(f)[i]
    <3>1. CASE i = 0
      BY <1>4, <3>1 DEF Recursive
    <3>2. CASE i \in 1..len
      <4>1. f[i - 1] \in Nat
        BY <1>4, <3>2 DEF Recursive
      <4>. QED BY <1>4, <3>2, <4>1 DEF Recursive
    <3>. QED BY <3>1, <3>2
  <2>. QED BY <1>4, <2>1 DEF Recursive
<1>6. A = CHOOSE g : g = Step(g)
  BY DEF Remaining
<1>7. A = Step(A)
  <2>. HIDE DEF Step, A
  <2>. QED BY ONLY <1>5, <1>6
<1>8. DOMAIN A = 0..len /\ A[0] = x /\ \A i \in 1..len : A[i] = A[i - 1] \div base
  <2>. HIDE DEF A
  <2>. QED BY ONLY <1>7, len \in Nat
<1>9. \A i \in 0..len : A[i] \in Nat
  <2>. DEFINE S == {i \in Nat : i <= len => A[i] \in Nat}
  <2>. HIDE DEF A
  <2>1. 0 \in S
    BY <1>8
  <2>2. ASSUME NEW i \in Nat, i \in S PROVE i + 1 \in S
    <3>. SUFFICES ASSUME i + 1 <= len PROVE A[i + 1] \in Nat
      OBVIOUS
    <3>1. A[i + 1] = A[i] \div base /\ A[i] \in Nat
      BY <1>8, <2>2
    <3>. QED BY <1>2, <3>1
  <2>3. Nat \subseteq S
    <3>. HIDE DEF S
    <3>. QED BY <2>1, <2>2, SetInduction
  <2>. QED BY <2>3
<1>10. A \in [0..len -> Nat]
  <2>. HIDE DEF A
  <2>1. A = [i \in 0..len |-> A[i]]
    BY <1>7
  <2>. QED BY <1>9, <2>1
<1>. QED BY <1>8, <1>10 DEF Remains

\* The bytes of a number that fits them stand for it.
LEMMA NumberOfBytes ==
  ASSUME NEW x \in Nat, NEW len \in Nat, Remaining(x, 256, len)[len] = 0
  PROVE  /\ AsDigits(x, 256, len) \in [1..len -> Byte]
         /\ AsNumber(AsDigits(x, 256, len), 256) = x
<1>. DEFINE R == Remaining(x, 256, len)
            b == AsDigits(x, 256, len)
            A == Accumulated(b, 256)
<1>1. R \in [0..len -> Nat] /\ R[0] = x /\ \A i \in 1..len : R[i] = R[i - 1] \div 256
  <2>1. 256 \in Nat \ {0}
    OBVIOUS
  <2>2. Remains(R, x, 256, len)
    BY <2>1, RemainingSteps
  <2>. QED BY <2>2 DEF Remains
<1>2. b = [i \in 1..len |-> R[len - i] % 256]
  BY DEF AsDigits
<1>3. ASSUME NEW i \in 1..len PROVE b[i] = R[len - i] % 256 /\ b[i] \in Byte /\ b[i] \in Nat
  <2>1. R[len - i] \in Nat
    BY <1>1
  <2>. HIDE DEF R, b
  <2>2. R[len - i] % 256 \in 0..255
    BY <2>1
  <2>3. b[i] = R[len - i] % 256
    BY <1>2
  <2>4. 0..255 \subseteq Nat
    OBVIOUS
  <2>. QED BY <2>2, <2>3, <2>4 DEF Byte
<1>4. b \in [1..len -> Byte] /\ b \in [1..len -> Nat] /\ Len(b) = len
  <2>. HIDE DEF b, R
  <2>. QED BY <1>2, <1>3
<1>5. /\ A[0] = 0
      /\ \A i \in 1..len : A[i] = A[i - 1] * 256 + b[i]
  <2>1. 256 \in Nat
    OBVIOUS
  <2>. HIDE DEF b
  <2>2. Accumulates(A, b, 256, len)
    BY <1>4, <2>1, AccumulatedSteps
  <2>. QED BY <2>2 DEF Accumulates
<1>. HIDE DEF R, b, A
<1>. DEFINE S == {i \in Nat : i <= len => A[i] = R[len - i]}
<1>6. 0 \in S
  BY <1>5 DEF R
<1>7. ASSUME NEW i \in Nat, i \in S PROVE i + 1 \in S
  <2>. SUFFICES ASSUME i + 1 <= len PROVE A[i + 1] = R[len - (i + 1)]
    OBVIOUS
  <2>1. A[i] = R[len - i]
    BY <1>7
  <2>. DEFINE j == len - i
  <2>2. j \in 1..len /\ j - 1 = len - (i + 1) /\ i + 1 \in 1..len /\ (i + 1) - 1 = i
    OBVIOUS
  <2>. HIDE DEF j
  <2>3. R[j] = R[j - 1] \div 256 /\ R[j - 1] \in Nat
    BY <1>1, <2>2
  <2>4. b[i + 1] = R[j - 1] % 256
    BY <1>3, <2>2
  <2>5. A[i + 1] = A[i] * 256 + b[i + 1]
    BY <1>5, <2>2
  <2>6. (R[j - 1] \div 256) * 256 + (R[j - 1] % 256) = R[j - 1]
    BY <2>3
  <2>. QED BY <2>1, <2>2, <2>3, <2>4, <2>5, <2>6 DEF j
<1>8. len \in S
  <2>. HIDE DEF S
  <2>. QED BY <1>6, <1>7, SetInduction
<1>9. A[len] = x
  BY <1>1, <1>8
<1>. QED BY <1>4, <1>9 DEF AsNumber, A, b

\* The characters of the number that characters stand for are those.
LEMMA CharsOfNumber ==
  ASSUME NEW len \in Nat, NEW s \in [1..len -> 0..31]
  PROVE  AsNumber(s, 32) \in Nat /\ AsDigits(AsNumber(s, 32), 32, len) = s
<1>. DEFINE A == Accumulated(s, 32)
            x == AsNumber(s, 32)
            R == Remaining(x, 32, len)
<1>1. s \in [1..len -> Nat] /\ Len(s) = len
  <2>1. 0..31 \subseteq Nat
    OBVIOUS
  <2>. HIDE DEF A, x, R
  <2>2. s \in [1..len -> Nat]
    BY <2>1
  <2>. QED BY <2>2
<1>2. /\ A \in [0..len -> Nat]
      /\ \A i \in 1..len : A[i] = A[i - 1] * 32 + s[i]
  <2>1. 32 \in Nat
    OBVIOUS
  <2>2. Accumulates(A, s, 32, len)
    BY <1>1, <2>1, AccumulatedSteps
  <2>. QED BY <2>2 DEF Accumulates
<1>3. x = A[len] /\ x \in Nat
  <2>1. x = A[len]
    BY <1>1 DEF AsNumber
  <2>. HIDE DEF x, A
  <2>. QED BY <1>2, <2>1
<1>4. R[0] = x /\ \A i \in 1..len : R[i] = R[i - 1] \div 32
  <2>1. 32 \in Nat \ {0}
    OBVIOUS
  <2>. HIDE DEF x
  <2>2. Remains(R, x, 32, len)
    BY <1>3, <2>1, RemainingSteps
  <2>. QED BY <2>2 DEF Remains
<1>5. AsDigits(x, 32, len) = [i \in 1..len |-> R[len - i] % 32]
  BY DEF AsDigits
<1>. HIDE DEF R, A, x
<1>. DEFINE S == {i \in Nat : i <= len => R[i] = A[len - i]}
<1>6. 0 \in S
  BY <1>3, <1>4
<1>7. ASSUME NEW i \in 1..len
      PROVE  A[i] % 32 = s[i] /\ A[i] \div 32 = A[i - 1]
  <2>1. A[i] = A[i - 1] * 32 + s[i] /\ A[i - 1] \in Nat /\ s[i] \in 0..31
    BY <1>2
  <2>2. \A a \in Nat, e \in 0..31 : (a * 32 + e) % 32 = e /\ (a * 32 + e) \div 32 = a
    OBVIOUS
  <2>3. /\ (A[i - 1] * 32 + s[i]) % 32 = s[i]
        /\ (A[i - 1] * 32 + s[i]) \div 32 = A[i - 1]
    BY <2>1, <2>2
  <2>. QED BY ONLY <2>1, <2>3
<1>8. ASSUME NEW i \in Nat, i \in S PROVE i + 1 \in S
  <2>. SUFFICES ASSUME i + 1 <= len PROVE R[i + 1] = A[len - (i + 1)]
    OBVIOUS
  <2>. DEFINE j == len - i
  <2>1. j \in 1..len /\ j - 1 = len - (i + 1) /\ i + 1 \in 1..len /\ (i + 1) - 1 = i
    OBVIOUS
  <2>2. R[i + 1] = R[i] \div 32 /\ R[i] = A[j]
    BY <1>4, <1>8, <2>1
  <2>. HIDE DEF j
  <2>. QED BY <1>7, <2>1, <2>2
<1>9. \A i \in 0..len : R[i] = A[len - i]
  <2>1. Nat \subseteq S
    <3>. HIDE DEF S
    <3>. QED BY <1>6, <1>8, SetInduction
  <2>. QED BY <2>1
<1>10. \A i \in 1..len : R[len - i] % 32 = s[i]
  <2>. SUFFICES ASSUME NEW i \in 1..len PROVE R[len - i] % 32 = s[i]
    OBVIOUS
  <2>1. len - i \in 0..len /\ len - (len - i) = i
    OBVIOUS
  <2>. QED BY <1>7, <1>9, <2>1
<1>. QED BY <1>3, <1>5, <1>10 DEF x

\* What encodePTYData makes of a session and a payload decodes to both, for
\* every ULID that fits its bytes and every payload (ptydata.ts).
THEOREM FrameDecodes ==
  ASSUME NEW s \in ULIDs, NEW payload \in Seq(Byte)
  PROVE  /\ EncodePTYData(s, payload) \in Seq(Byte)
         /\ Decodable(EncodePTYData(s, payload))
         /\ DecodePTYData(EncodePTYData(s, payload)) = [session |-> s, payload |-> payload]
<1>. DEFINE id == ULIDToBytes(s)
            f == EncodePTYData(s, payload)
<1>1. IdChars \in Nat /\ IdBytes \in Nat /\ HeaderLen = 1 + IdBytes
  BY IdAssumption DEF HeaderLen
<1>2. s \in [1..IdChars -> 0..31] /\ Remaining(AsNumber(s, 32), 256, IdBytes)[IdBytes] = 0
  BY DEF ULIDs
<1>3. AsNumber(s, 32) \in Nat /\ AsDigits(AsNumber(s, 32), 32, IdChars) = s
  BY <1>1, <1>2, CharsOfNumber
<1>4. id \in [1..IdBytes -> Byte] /\ AsNumber(id, 256) = AsNumber(s, 32)
  BY <1>1, <1>2, <1>3, NumberOfBytes DEF ULIDToBytes
<1>5. BytesToULID(id) = s
  BY <1>3, <1>4 DEF BytesToULID
<1>. HIDE DEF id
<1>6. id \in Seq(Byte) /\ Len(id) = IdBytes
  BY <1>1, <1>4
<1>. DEFINE h == <<Version>> \o id
<1>7. /\ h \in Seq(Byte) /\ Len(h) = HeaderLen /\ h[1] = Version
      /\ \A i \in 1..IdBytes : h[i + 1] = id[i]
  BY <1>1, <1>6 DEF Version, Byte
<1>. HIDE DEF h
<1>8. /\ f = h \o payload
      /\ f \in Seq(Byte) /\ Len(f) = HeaderLen + Len(payload)
      /\ \A i \in 1..Len(f) : f[i] = IF i <= HeaderLen THEN h[i] ELSE payload[i - HeaderLen]
  <2>1. f = h \o payload
    BY DEF EncodePTYData, h, id
  <2>. HIDE DEF f
  <2>2. /\ h \o payload \in Seq(Byte)
        /\ Len(h \o payload) = Len(h) + Len(payload)
        /\ \A i \in 1..Len(h) + Len(payload) :
             (h \o payload)[i] = IF i <= Len(h) THEN h[i] ELSE payload[i - Len(h)]
    BY <1>7, ConcatProperties
  <2>. QED BY <1>7, <2>1, <2>2
<1>. HIDE DEF f
<1>9. Decodable(f)
  BY <1>1, <1>7, <1>8 DEF Decodable
<1>10. SubSeq(f, 2, HeaderLen) = id
  BY <1>1, <1>6, <1>7, <1>8
<1>11. SubSeq(f, HeaderLen + 1, Len(f)) = payload
  BY <1>1, <1>7, <1>8
<1>. QED BY <1>5, <1>8, <1>9, <1>10, <1>11 DEF DecodePTYData, f

-----------------------------------------------------------------------------
(***************************************************************************)
(* What is typed in a page.                                                *)
(***************************************************************************)
\* What the terminal of a page sends, whichever session the page shows.
KeyFrames == {EncodePTYData(f, Key) : f \in Sessions}
TypedAt(at) == [at : at, frame : KeyFrames]

\* What is in flight to the server was typed at the session of its socket, and
\* a socket that is closed has nothing in flight.
InputInv ==
  /\ up \in [Sockets -> Seq(TypedAt(Sessions))]
  /\ \A k \in Sockets : up[k] \in Seq(TypedAt({sock[k].sid}))
  /\ \A k \in Sockets : sock[k].rs = "closed" => up[k] = <<>>
  /\ shown # NoSession => first \in Sessions
  /\ InputReachesShown

\* What the server makes of a frame that was typed.
LEMMA KeyFrame ==
  ASSUME NEW e \in KeyFrames
  PROVE  /\ Decodable(e)
         /\ DecodePTYData(e).session \in Sessions
         /\ DecodePTYData(e).payload = Key
<1>1. PICK f \in Sessions : e = EncodePTYData(f, Key)
  BY DEF KeyFrames
<1>2. f \in ULIDs /\ Key \in Seq(Byte)
  BY TabAssumption DEF Key, Byte
<1>3. Decodable(e) /\ DecodePTYData(e) = [session |-> f, payload |-> Key]
  BY <1>1, <1>2, FrameDecodes
<1>. QED BY <1>3

\* At first nothing is in flight.
LEMMA InputInit == Init => InputInv
<1>. SUFFICES ASSUME Init PROVE InputInv
  OBVIOUS
<1>1. \A T : <<>> \in Seq(T)
  OBVIOUS
<1>2. \A k \in Sockets : up[k] = <<>>
  BY DEF Init
<1>3. up \in [Sockets -> Seq(TypedAt(Sessions))]
  <2>1. up = [k \in Sockets |-> <<>>] /\ <<>> \in Seq(TypedAt(Sessions))
    BY <1>1 DEF Init
  <2>. QED BY ONLY <2>1
<1>. QED BY <1>1, <1>2, <1>3 DEF Init, InputInv, InputReachesShown

\* While nothing is typed and nothing arrives, a socket with something in
\* flight only has to keep its session.
LEMMA WireKept ==
  ASSUME InputInv, UNCHANGED <<up, arrived>>,
         \A k \in Sockets : sock[k].rs # "closed" => sock'[k].sid = sock[k].sid,
         \A k \in Sockets : sock'[k].rs = "closed" => sock[k].rs = "closed",
         shown' # NoSession => first' \in Sessions
  PROVE  InputInv'
<1>1. \A k \in Sockets : up'[k] \in Seq(TypedAt({sock'[k].sid}))
  <2>. SUFFICES ASSUME NEW k \in Sockets PROVE up[k] \in Seq(TypedAt({sock'[k].sid}))
    OBVIOUS
  <2>1. CASE sock[k].rs = "closed"
    BY <2>1 DEF InputInv
  <2>2. CASE sock[k].rs # "closed"
    BY <2>2 DEF InputInv
  <2>. QED BY <2>1, <2>2
<1>. QED BY <1>1 DEF InputInv, InputReachesShown, TypedAt, KeyFrames

\* connect() takes a socket that is closed.
LEMMA ConnectWire ==
  ASSUME TabInv, InputInv, NEW s \in Sessions, NEW others \in [Sockets -> SocketState],
         \A k \in Sockets : others[k].sid = sock[k].sid,
         \A k \in Sockets : others[k].rs = "closed" => sock[k].rs = "closed",
         Connect(s, others), arrived' = arrived, first' \in Sessions
  PROVE  InputInv'
<1>1. PICK k \in Sockets :
        /\ sock[k].rs = "closed" /\ UNCHANGED up
        /\ sock' = [others EXCEPT ![k] = [rs |-> "connecting", sid |-> s, mine |-> TRUE, alive |-> TRUE]]
  BY DEF Connect
<1>2. \A x \in Sockets \ {k} : sock'[x] = others[x]
  BY <1>1
<1>3. sock'[k].rs = "connecting"
  BY <1>1
<1>. QED BY <1>1, <1>2, <1>3, WireKept

\* What is typed goes to the socket of the session that is shown.
LEMMA WriteWire == ASSUME TabInv, InputInv, Write PROVE InputInv'
<1>1. ref \in Sockets /\ shown \in Sessions /\ sock[ref].sid = shown /\ sock[ref].rs = "open"
  BY DEF Write, TabInv, HookTypes, OneLiveSocket, Live
<1>2. PICK m : m = [at |-> shown, frame |-> EncodePTYData(first, Key)]
  OBVIOUS
<1>3. m \in TypedAt({sock[ref].sid}) /\ m \in TypedAt(Sessions)
  <2>1. EncodePTYData(first, Key) \in KeyFrames
    BY <1>1, TabAssumption DEF InputInv, KeyFrames
  <2>. QED BY <1>1, <1>2, <2>1 DEF TypedAt
<1>4. up' = [up EXCEPT ![ref] = Append(up[ref], m)]
  BY <1>2 DEF Write
<1>5. /\ Append(up[ref], m) \in Seq(TypedAt({sock[ref].sid}))
      /\ Append(up[ref], m) \in Seq(TypedAt(Sessions))
  BY <1>1, <1>3 DEF InputInv
<1>6. /\ up' \in [Sockets -> Seq(TypedAt(Sessions))]
      /\ up'[ref] \in Seq(TypedAt({sock[ref].sid}))
      /\ \A k \in Sockets \ {ref} : up'[k] = up[k]
  BY <1>1, <1>4, <1>5 DEF InputInv
<1>7. UNCHANGED <<sock, shown, first, arrived>>
  BY DEF Write
<1>8. /\ \A k \in Sockets : up'[k] \in Seq(TypedAt({sock'[k].sid}))
      /\ \A k \in Sockets : sock'[k].rs = "closed" => up'[k] = <<>>
  BY <1>1, <1>6, <1>7 DEF InputInv
<1>. QED BY <1>6, <1>7, <1>8 DEF InputInv, InputReachesShown, TypedAt, KeyFrames

\* The server hands it to the process of its socket's session.
LEMMA ReceiveWire == ASSUME InputInv, NEW k \in Sockets, Receive(k) PROVE InputInv'
<1>1. PICK u : u = up[k]
  OBVIOUS
<1>2. u \in Seq(TypedAt({sock[k].sid})) /\ u \in Seq(TypedAt(Sessions)) /\ u # <<>>
  BY <1>1 DEF Receive, InputInv
<1>3. /\ Tail(u) \in Seq(TypedAt({sock[k].sid})) /\ Tail(u) \in Seq(TypedAt(Sessions))
      /\ Head(u) \in TypedAt({sock[k].sid})
  BY <1>2
<1>4. Head(u).at = sock[k].sid /\ Head(u).frame \in KeyFrames
  BY <1>3 DEF TypedAt
<1>5. up' = [up EXCEPT ![k] = Tail(u)] /\ UNCHANGED <<sock, shown, first>>
  BY <1>1 DEF Receive
<1>6. sock[k].rs # "closed"
  BY <1>1, <1>2 DEF InputInv
<1>7. /\ up' \in [Sockets -> Seq(TypedAt(Sessions))]
      /\ up'[k] \in Seq(TypedAt({sock[k].sid}))
      /\ \A x \in Sockets \ {k} : up'[x] = up[x]
  BY <1>3, <1>5 DEF InputInv
<1>8. InputReachesShown'
  <2>. DEFINE d == DecodePTYData(Head(u).frame)
              a == [at |-> Head(u).at, to |-> sock[k].sid, named |-> d.session, keys |-> d.payload]
  <2>1. Decodable(Head(u).frame) /\ d.session \in Sessions /\ d.payload = Key
    BY <1>4, KeyFrame
  <2>2. arrived' = arrived \cup {a}
    BY <1>1, <2>1 DEF Receive
  <2>. HIDE DEF d
  <2>3. a.to = a.at /\ a.keys = Key /\ a.named \in Sessions
    BY <1>4, <2>1
  <2>. HIDE DEF a
  <2>. QED BY <2>2, <2>3 DEF InputInv, InputReachesShown, Key
<1>9. /\ \A x \in Sockets : up'[x] \in Seq(TypedAt({sock'[x].sid}))
      /\ \A x \in Sockets : sock'[x].rs = "closed" => up'[x] = <<>>
  BY <1>5, <1>6, <1>7 DEF InputInv
<1>. QED BY <1>5, <1>7, <1>8, <1>9 DEF InputInv, TypedAt, KeyFrames

\* A socket that is closed or lost loses what was in flight.
LEMMA DropWire ==
  ASSUME TabInv, InputInv, NEW k \in Sockets, OnClose(k) \/ Lose(k)
  PROVE  InputInv'
<1>1. /\ up' = [up EXCEPT ![k] = <<>>]
      /\ UNCHANGED <<shown, first, arrived>>
      /\ \A x \in Sockets \ {k} : sock'[x] = sock[x]
  BY DEF OnClose, CloseEvent, Lose, TabInv, HookTypes
<1>2. \A T : <<>> \in Seq(T)
  OBVIOUS
<1>3. /\ up' \in [Sockets -> Seq(TypedAt(Sessions))]
      /\ up'[k] = <<>>
      /\ \A x \in Sockets \ {k} : up'[x] = up[x]
  BY <1>1, <1>2 DEF InputInv
<1>4. /\ \A x \in Sockets : up'[x] \in Seq(TypedAt({sock'[x].sid}))
      /\ \A x \in Sockets : sock'[x].rs = "closed" => up'[x] = <<>>
  BY <1>1, <1>2, <1>3 DEF InputInv
<1>. QED BY <1>1, <1>3, <1>4 DEF InputInv, InputReachesShown, TypedAt, KeyFrames

\* The clean-up closes no socket at once and leaves each its session.
LEMMA CleanedWire ==
  ASSUME TabInv, NEW k \in Sockets
  PROVE  CleanedUp[k].sid = sock[k].sid /\ (CleanedUp[k].rs = "closed" => sock[k].rs = "closed")
BY DEF CleanedUp, TabInv, HookTypes, SocketState

\* Every step of the page, the browser and the server keeps it.
LEMMA InputStep == ASSUME TabInv, InputInv, [Next]_vars PROVE InputInv'
<1>1. ASSUME NEW s \in Sessions, Mount(s) PROVE InputInv'
  BY <1>1, ConnectWire DEF Mount, TabInv, HookTypes
<1>2. ASSUME NEW s \in Sessions, Switch(s) PROVE InputInv'
  <2>1. first' \in Sessions /\ arrived' = arrived /\ Connect(s, CleanedUp)
    BY <1>2 DEF Switch, InputInv
  <2>2. CleanedUp \in [Sockets -> SocketState]
    BY CleanUp
  <2>. QED BY <2>1, <2>2, CleanedWire, ConnectWire
<1>3. CASE Unmount
  BY <1>3, CleanedWire, WireKept DEF Unmount
<1>4. CASE Retry
  <2>1. shown \in Sessions
    BY <1>4 DEF Retry, TabInv, HookTypes, TimerOfPage
  <2>2. first' \in Sessions /\ arrived' = arrived /\ Connect(shown, sock)
    BY <1>4, <2>1, TabAssumption DEF Retry, InputInv
  <2>. QED BY <2>1, <2>2, ConnectWire DEF TabInv, HookTypes
<1>5. CASE Write
  BY <1>5, WriteWire
<1>6. CASE Toasting \/ UNCHANGED vars
  BY <1>6, WireKept DEF Toasting, vars, sockVars, InputInv
<1>7. ASSUME NEW k \in Sockets, OnOpen(k) PROVE InputInv'
  <2>1. \A x \in Sockets : sock'[x].sid = sock[x].sid /\ (sock'[x].rs = "closed" => sock[x].rs = "closed")
    BY <1>7 DEF OnOpen, TabInv, HookTypes, SocketState
  <2>. QED BY <1>7, <2>1, WireKept DEF OnOpen, InputInv
<1>8. ASSUME NEW k \in Sockets, \/ OnMessage(k) \/ SendPTYData(k)
                                \/ \E type \in Notices : SendControl(k, type)
      PROVE  InputInv'
  <2>1. UNCHANGED <<shown, first, sock, up, arrived>>
    BY <1>8 DEF OnMessage, SendPTYData, SendControl, Send
  <2>. QED BY <2>1, WireKept DEF InputInv
<1>9. ASSUME NEW k \in Sockets, OnClose(k) \/ Lose(k) PROVE InputInv'
  BY <1>9, DropWire
<1>10. ASSUME NEW k \in Sockets, Receive(k) PROVE InputInv'
  BY <1>10, ReceiveWire
<1>. QED BY <1>1, <1>2, <1>3, <1>4, <1>5, <1>6, <1>7, <1>8, <1>9, <1>10 DEF Next

\* What is typed reaches the process of the session that was shown, whole and
\* in a frame that names a session the page has shown, although the terminal
\* keeps the callbacks of its first render (Terminal.tsx, useSessionStream.ts).
THEOREM InputArrives == Spec => []InputReachesShown
<1>1. TabInv /\ InputInv /\ [Next]_vars => TabInv' /\ InputInv'
  BY NextInv, InputStep
<1>2. InputInv => InputReachesShown
  BY DEF InputInv
<1>. QED BY InitInv, InputInit, <1>1, <1>2, PTL DEF Spec

-----------------------------------------------------------------------------
(***************************************************************************)
(* The toasts of both pages.                                               *)
(***************************************************************************)
\* s has the toasts that are not id's of the first i, and no others.
Filtered(s, i, id, T) ==
  /\ s \in Seq(T) /\ Len(s) <= i
  /\ \A j \in 1..i : toasts[j].id # id => \E m \in 1..Len(s) : s[m] = toasts[j]
  /\ \A m \in 1..Len(s) : \E j \in 1..i : s[m] = toasts[j]

\* toasts.filter(t => t.id !== id) does that.
LEMMA WithoutFilters ==
  ASSUME NEW T, toasts \in Seq(T), NEW id
  PROVE  Filtered(Without(id), Len(toasts), id, T)
<1>. DEFINE n == Len(toasts)
            Next1(s, i) == IF toasts[i].id = id THEN s ELSE Append(s, toasts[i])
            Step(g) == [i \in 0..n |-> IF i = 0 THEN <<>>
                                       ELSE IF toasts[i].id = id THEN g[i - 1]
                                       ELSE Append(g[i - 1], toasts[i])]
            G == [p \in (1..n) \X Seq(T) |-> Next1(p[2], p[1])]
            K == CHOOSE g : g = Step(g)
<1>1. n \in Nat /\ \A i \in 1..n : toasts[i] \in T
  OBVIOUS
<1>2. \A s \in Seq(T), i \in 1..n : Append(s, toasts[i]) \in Seq(T)
  BY <1>1
<1>3. G \in [(1..n) \X Seq(T) -> Seq(T)]
  BY <1>2
<1>4. PICK f : Recursive(f, Seq(T), n, <<>>, G)
  <2>1. <<>> \in Seq(T)
    OBVIOUS
  <2>. HIDE DEF G, n
  <2>. QED BY <1>1, <1>3, <2>1, Recursion
<1>5. f = Step(f)
  <2>1. ASSUME NEW i \in 0..n PROVE f[i] = Step(f)[i]
    <3>1. CASE i = 0
      BY <1>4, <3>1 DEF Recursive
    <3>2. CASE i \in 1..n
      <4>1. f[i - 1] \in Seq(T) /\ f[i] = G[<<i, f[i - 1]>>]
        <5>1. f \in [0..n -> Seq(T)] /\ \A j \in 1..n : f[j] = G[<<j, f[j - 1]>>]
          BY <1>4 DEF Recursive
        <5>2. i - 1 \in 0..n
          BY <1>1, <3>2
        <5>. HIDE DEF G, n
        <5>. QED BY ONLY <3>2, <5>1, <5>2
      <4>2. f[i] = Next1(f[i - 1], i)
        <5>1. <<i, f[i - 1]>> \in (1..n) \X Seq(T)
          BY <3>2, <4>1
        <5>2. G[<<i, f[i - 1]>>] = Next1(<<i, f[i - 1]>>[2], <<i, f[i - 1]>>[1])
          <6>. HIDE DEF Next1
          <6>. QED BY ONLY <5>1
        <5>. QED BY ONLY <4>1, <5>2
      <4>. QED BY <3>2, <4>2
    <3>. QED BY <3>1, <3>2
  <2>2. f = [i \in 0..n |-> f[i]]
    BY <1>4 DEF Recursive
  <2>3. Step(f) = [i \in 0..n |-> Step(f)[i]]
    OBVIOUS
  <2>. HIDE DEF Step, n
  <2>. QED BY ONLY <2>1, <2>2, <2>3
<1>6. Without(id) = K[n]
  BY DEF Without
<1>7. K = Step(K)
  <2>. HIDE DEF Step
  <2>. QED BY ONLY <1>5
<1>8. K[0] = <<>> /\ \A i \in 1..n : K[i] = Next1(K[i - 1], i)
  <2>1. n \in Nat
    BY <1>1
  <2>2. 0 \in 0..n
    BY <2>1
  <2>. HIDE DEF K, n
  <2>3. K[0] = Step(K)[0] /\ Step(K)[0] = <<>>
    <3>1. K[0] = Step(K)[0]
      <4>. HIDE DEF Step
      <4>. QED BY ONLY <1>7
    <3>. QED BY ONLY <2>2, <3>1
  <2>4. ASSUME NEW i \in 1..n PROVE K[i] = Next1(K[i - 1], i)
    <3>1. K[i] = Step(K)[i]
      <4>. HIDE DEF Step
      <4>. QED BY ONLY <1>7
    <3>2. i \in 0..n /\ i # 0
      BY ONLY <2>1, i \in 1..n
    <3>. QED BY ONLY <3>1, <3>2
  <2>. QED BY <2>3, <2>4
<1>. DEFINE S == {i \in Nat : i <= n => Filtered(K[i], i, id, T)}
<1>. HIDE DEF K, n
<1>9. 0 \in S
  <2>1. PICK a : a = K[0]
    OBVIOUS
  <2>2. a = <<>>
    BY <1>8, <2>1
  <2>3. a \in Seq(T) /\ Len(a) = 0
    BY <2>2
  <2>4. 1..0 = {}
    OBVIOUS
  <2>. QED BY <2>1, <2>3, <2>4 DEF Filtered
<1>10. ASSUME NEW i \in Nat, i \in S PROVE i + 1 \in S
  <2>. SUFFICES ASSUME i + 1 <= n PROVE Filtered(K[i + 1], i + 1, id, T)
    OBVIOUS
  <2>1. i + 1 \in 1..n /\ (i + 1) - 1 = i /\ toasts[i + 1] \in T /\ Filtered(K[i], i, id, T)
    BY <1>1, <1>10
  <2>2. CASE toasts[i + 1].id = id
    <3>1. K[i + 1] = K[i]
      BY <1>8, <2>1, <2>2
    <3>. QED BY <2>1, <2>2, <3>1 DEF Filtered
  <2>3. CASE toasts[i + 1].id # id
    <3>1. K[i + 1] = Append(K[i], toasts[i + 1])
      BY <1>8, <2>1, <2>3
    <3>2. PICK a : a = K[i]
      OBVIOUS
    <3>3. PICK e : e = Append(a, toasts[i + 1])
      OBVIOUS
    <3>4. a \in Seq(T) /\ Len(a) \in Nat /\ Len(a) <= i
      BY <2>1, <3>2 DEF Filtered
    <3>5. /\ e \in Seq(T) /\ Len(e) = Len(a) + 1
          /\ e[Len(a) + 1] = toasts[i + 1] /\ \A m \in 1..Len(a) : e[m] = a[m]
      BY <2>1, <3>3, <3>4
    <3>6. ASSUME NEW j \in 1..(i + 1), toasts[j].id # id
          PROVE  \E m \in 1..Len(e) : e[m] = toasts[j]
      <4>1. CASE j = i + 1
        BY <3>4, <3>5, <4>1
      <4>2. CASE j \in 1..i
        <5>1. PICK m \in 1..Len(a) : a[m] = toasts[j]
          BY <2>1, <3>2, <3>6, <4>2 DEF Filtered
        <5>. QED BY <3>4, <3>5, <5>1
      <4>. QED BY <4>1, <4>2
    <3>7. ASSUME NEW m \in 1..Len(e) PROVE \E j \in 1..(i + 1) : e[m] = toasts[j]
      <4>1. CASE m = Len(a) + 1
        BY <3>5, <4>1
      <4>2. CASE m \in 1..Len(a)
        <5>1. PICK j \in 1..i : a[m] = toasts[j]
          BY <2>1, <3>2, <4>2 DEF Filtered
        <5>. QED BY <3>5, <4>2, <5>1
      <4>. QED BY <3>4, <3>5, <4>1, <4>2
    <3>8. Len(e) <= i + 1
      BY <3>4, <3>5
    <3>9. Filtered(e, i + 1, id, T)
      BY ONLY <3>5, <3>6, <3>7, <3>8 DEF Filtered
    <3>10. K[i + 1] = e
      BY ONLY <3>1, <3>2, <3>3
    <3>. QED BY ONLY <3>9, <3>10
  <2>. QED BY <2>2, <2>3
<1>11. n \in S
  <2>. HIDE DEF S
  <2>. QED BY <1>1, <1>9, <1>10, SetInduction
<1>. QED BY <1>6, <1>11, <1>1 DEF n

\* A timer runs for toasts that are closed only, and no toast is newer than the
\* counter, so that the timer of none that is to come runs.
ToastInv ==
  /\ toasts \in Seq([id : Nat, open : BOOLEAN])
  /\ count \in Nat
  /\ Len(toasts) <= ToastLimit
  /\ \A i \in 1..Len(toasts) : toasts[i].id <= count
  /\ \A i \in 1..Len(toasts) : toasts[i].open = TRUE => toasts[i].id \notin toastTimeouts
  /\ \A id \in toastTimeouts : id \in Nat /\ id <= count

\* An open toast leaves the list only when newer ones have filled it.
OpenStays ==
  \A id \in Ids : OpenToast(id) /\ ~Listed(id)' => count' > count /\ Len(toasts') = ToastLimit

\* ADD_TOAST displaces a toast only when the list is full.
LEMMA AddStep == ASSUME ToastInv, AddToast PROVE ToastInv' /\ OpenStays
<1>. DEFINE T == [id : Nat, open : BOOLEAN]
            new == [id |-> GenId, open |-> TRUE]
            all == <<new>> \o toasts
            cut == IF Len(all) < ToastLimit THEN Len(all) ELSE ToastLimit
<1>1. /\ toasts \in Seq(T) /\ count \in Nat /\ Len(toasts) \in Nat /\ Len(toasts) <= ToastLimit
      /\ ToastLimit \in Nat \ {0}
  BY ToastAssumption DEF ToastInv
<1>2. count' = count + 1 /\ GenId = count + 1 /\ UNCHANGED toastTimeouts
  BY DEF AddToast, GenId
<1>3. new \in T /\ new.id = count + 1
  BY <1>1, <1>2
<1>. HIDE DEF new
<1>4. /\ all \in Seq(T) /\ Len(all) = Len(toasts) + 1 /\ all[1] = new
      /\ \A i \in 1..Len(toasts) : all[i + 1] = toasts[i]
      /\ \A i \in 2..Len(all) : all[i] = toasts[i - 1]
  BY <1>1, <1>3
<1>. HIDE DEF all
<1>5. cut \in 1..Len(all) /\ cut <= ToastLimit
  BY <1>1, <1>4
<1>6. toasts' = SubSeq(all, 1, cut)
  BY DEF AddToast, Added, all, new
<1>7. PICK s : s = SubSeq(all, 1, cut)
  OBVIOUS
<1>8. s \in Seq(T) /\ Len(s) = cut /\ \A i \in 1..cut : s[i] = all[i]
  <2>. HIDE DEF cut, T
  <2>1. 1 \in 1..Len(all) + 1 /\ cut \in 1 - 1..Len(all) /\ cut \in Nat
    BY <1>4, <1>5
  <2>. QED BY ONLY <1>4, <1>7, <2>1, SubSeqProperties
<1>9. ASSUME NEW i \in 1..cut
      PROVE  s[i] = new \/ \E j \in 1..Len(toasts) : s[i] = toasts[j]
  <2>1. CASE i = 1
    BY <1>4, <1>8, <2>1
  <2>2. CASE i \in 2..Len(all)
    BY <1>1, <1>4, <1>8, <2>2
  <2>. QED BY <1>5, <2>1, <2>2
<1>10. ToastInv'
  <2>1. \A i \in 1..Len(s) : s[i].id <= count + 1
    <3>. SUFFICES ASSUME NEW i \in 1..cut PROVE s[i].id <= count + 1
      BY <1>8
    <3>1. s[i].id = count + 1 \/ s[i].id <= count
      BY <1>3, <1>9 DEF ToastInv
    <3>2. s[i] \in T
      <4>. HIDE DEF T, cut
      <4>. QED BY ONLY <1>8, i \in 1..cut
    <3>3. s[i].id \in Nat
      BY ONLY <3>2
    <3>. QED BY <1>1, <3>1, <3>3
  <2>2. \A i \in 1..Len(s) : s[i].open = TRUE => s[i].id \notin toastTimeouts
    <3>1. count + 1 \notin toastTimeouts
      BY <1>1 DEF ToastInv
    <3>. QED BY <1>3, <1>8, <1>9, <3>1 DEF ToastInv
  <2>3. \A id \in toastTimeouts : id \in Nat /\ id <= count + 1
    BY <1>1 DEF ToastInv
  <2>. QED BY <1>1, <1>2, <1>5, <1>6, <1>7, <1>8, <2>1, <2>2, <2>3 DEF ToastInv
<1>11. ASSUME NEW id \in Ids, OpenToast(id), ~Listed(id)'
       PROVE  count' > count /\ Len(toasts') = ToastLimit
  <2>0. DOMAIN toasts = 1..Len(toasts)
    BY <1>1
  <2>1. PICK i \in 1..Len(toasts) : toasts[i].id = id
    BY ONLY <1>11, <2>0 DEF OpenToast
  <2>2. all[i + 1] = toasts[i] /\ i + 1 \in 1..Len(all)
    <3>. HIDE DEF T, cut
    <3>1. Len(toasts) \in Nat /\ Len(all) = Len(toasts) + 1
      BY <1>1, <1>4
    <3>. QED BY ONLY <1>4, <3>1, i \in 1..Len(toasts)
  <2>3. i + 1 \notin 1..cut
    <3>1. \A m \in 1..cut : s[m].id # id
      <4>1. toasts' = s
        BY ONLY <1>6, <1>7
      <4>2. \A m \in DOMAIN toasts' : toasts'[m].id # id
        BY ONLY <1>11 DEF Listed
      <4>3. DOMAIN s = 1..cut
        <5>. HIDE DEF T, cut
        <5>. QED BY ONLY <1>8
      <4>. QED BY ONLY <4>1, <4>2, <4>3
    <3>. QED BY <1>8, <2>1, <2>2, <3>1
  <2>4. cut = ToastLimit
    BY <1>5, <2>2, <2>3
  <2>. QED BY <1>1, <1>2, <1>6, <1>7, <1>8, <2>4
<1>. QED BY <1>10, <1>11 DEF OpenStays

\* DISMISS_TOAST starts the timer of the toasts it closes and removes none.
LEMMA DismissStep ==
  ASSUME ToastInv, NEW d \in Ids, DismissToast(d)
  PROVE  ToastInv' /\ OpenStays
<1>. DEFINE T == [id : Nat, open : BOOLEAN]
<1>1. /\ toasts \in Seq(T) /\ count \in Nat /\ Len(toasts) \in Nat
      /\ d \in Nat
  BY ToastAssumption DEF ToastInv, Ids
<1>2. /\ toastTimeouts' = toastTimeouts \cup {d} /\ count' = count
      /\ toasts' = [i \in DOMAIN toasts |->
                      IF toasts[i].id = d THEN [toasts[i] EXCEPT !.open = FALSE] ELSE toasts[i]]
      /\ OpenToast(d)
  BY DEF DismissToast
<1>3. DOMAIN toasts = 1..Len(toasts) /\ DOMAIN toasts' = 1..Len(toasts)
  BY <1>1, <1>2
<1>4. ASSUME NEW i \in 1..Len(toasts)
      PROVE  /\ toasts'[i] \in T /\ toasts'[i].id = toasts[i].id
             /\ toasts[i].id = d => toasts'[i].open = FALSE
             /\ toasts[i].id # d => toasts'[i] = toasts[i]
  <2>1. PICK t : t = toasts[i]
    OBVIOUS
  <2>2. t \in T
    <3>. HIDE DEF T
    <3>. QED BY ONLY <1>1, <2>1, i \in 1..Len(toasts)
  <2>3. [t EXCEPT !.open = FALSE] \in T
        /\ [t EXCEPT !.open = FALSE].id = t.id /\ [t EXCEPT !.open = FALSE].open = FALSE
    BY ONLY <2>2
  <2>4. toasts'[i] = IF t.id = d THEN [t EXCEPT !.open = FALSE] ELSE t
    BY ONLY <1>2, <1>3, <2>1, i \in 1..Len(toasts)
  <2>. QED BY ONLY <2>1, <2>2, <2>3, <2>4
<1>5. toasts' \in Seq(T) /\ Len(toasts') = Len(toasts)
  <2>1. toasts' = [i \in 1..Len(toasts) |-> toasts'[i]]
    BY ONLY <1>2, <1>3
  <2>2. PICK s : s = toasts'
    OBVIOUS
  <2>3. s \in [1..Len(toasts) -> T]
    <3>. HIDE DEF T
    <3>. QED BY ONLY <1>4, <2>1, <2>2
  <2>4. s \in Seq(T) /\ Len(s) = Len(toasts)
    <3>. HIDE DEF T
    <3>1. PICK k : k = Len(toasts)
      OBVIOUS
    <3>. QED BY ONLY <1>1, <2>3, <3>1
  <2>. QED BY ONLY <2>2, <2>4
<1>6. d <= count
  <2>1. PICK i \in 1..Len(toasts) : toasts[i].id = d
    BY <1>1, <1>2 DEF OpenToast
  <2>. QED BY <2>1 DEF ToastInv
<1>7. ToastInv'
  BY <1>1, <1>2, <1>4, <1>5, <1>6 DEF ToastInv
<1>8. \A id : Listed(id) => Listed(id)'
  BY <1>3, <1>4 DEF Listed
<1>9. \A id : OpenToast(id) => Listed(id)
  BY DEF OpenToast, Listed
<1>. QED BY <1>7, <1>8, <1>9 DEF OpenStays

\* REMOVE_TOAST takes off what its timer was started for: that is closed.
LEMMA RemoveStep ==
  ASSUME ToastInv, NEW d \in Ids, RemoveToast(d)
  PROVE  ToastInv' /\ OpenStays
<1>. DEFINE T == [id : Nat, open : BOOLEAN]
<1>1. toasts \in Seq(T) /\ count \in Nat /\ Len(toasts) \in Nat
  BY DEF ToastInv
<1>2. /\ d \in toastTimeouts /\ toastTimeouts' = toastTimeouts \ {d} /\ count' = count
      /\ toasts' = Without(d)
  BY DEF RemoveToast
<1>3. Filtered(toasts', Len(toasts), d, T)
  BY <1>1, <1>2, WithoutFilters
<1>4. /\ toasts' \in Seq(T) /\ Len(toasts') \in Nat /\ Len(toasts') <= Len(toasts)
      /\ \A j \in 1..Len(toasts) : toasts[j].id # d => \E m \in 1..Len(toasts') : toasts'[m] = toasts[j]
      /\ \A m \in 1..Len(toasts') : \E j \in 1..Len(toasts) : toasts'[m] = toasts[j]
  BY <1>3 DEF Filtered
<1>5. ToastInv'
  <2>1. Len(toasts') <= ToastLimit
    BY <1>1, <1>4, ToastAssumption DEF ToastInv
  <2>2. \A i \in 1..Len(toasts') : toasts'[i].id <= count
    BY <1>4 DEF ToastInv
  <2>3. \A i \in 1..Len(toasts') : toasts'[i].open = TRUE => toasts'[i].id \notin toastTimeouts
    BY <1>4 DEF ToastInv
  <2>. QED BY <1>1, <1>2, <1>4, <2>1, <2>2, <2>3 DEF ToastInv
<1>6. ASSUME NEW id \in Ids, OpenToast(id) PROVE Listed(id)'
  <2>0. DOMAIN toasts = 1..Len(toasts)
    BY <1>1
  <2>1. PICK i \in 1..Len(toasts) : toasts[i] = [id |-> id, open |-> TRUE]
    BY ONLY <1>6, <2>0 DEF OpenToast
  <2>2. toasts[i].id = id /\ toasts[i].open = TRUE
    BY <2>1
  <2>3. id # d
    BY <1>2, <2>2 DEF ToastInv
  <2>4. PICK m \in 1..Len(toasts') : toasts'[m] = toasts[i]
    BY <1>4, <2>2, <2>3
  <2>. QED BY <1>4, <2>2, <2>4 DEF Listed
<1>. QED BY <1>5, <1>6 DEF OpenStays

\* The steps of the store together.
LEMMA ToastsStep ==
  ASSUME ToastInv, [AddToast \/ ToastStep]_toastVars
  PROVE  ToastInv' /\ [OpenStays]_toastVars
<1>1. CASE AddToast
  BY <1>1, AddStep
<1>2. CASE ToastStep
  BY <1>2, DismissStep, RemoveStep DEF ToastStep
<1>3. CASE UNCHANGED toastVars
  BY <1>3 DEF ToastInv, toastVars
<1>. QED BY <1>1, <1>2, <1>3

\* The settings page changes the store by those steps only.
LEMMA ToastsOfNext == ASSUME [SettingsNext]_settingsVars PROVE [AddToast \/ ToastStep]_toastVars
<1>1. CASE UNCHANGED settingsVars
  BY <1>1 DEF settingsVars, toastVars
<1>2. CASE ToastOnForm \/ \E t \in Awaited : Saved(t) \/ SaveFailed(t) \/ AnswerLost(t)
  BY <1>2 DEF Saved, SaveFailed, AnswerLost, NotSaved, ToastOnForm
<1>3. CASE Return \/ EditKeep \/ Save \/ Focus \/ GetMe \/ MeArrives
  BY <1>3 DEF Return, EditKeep, Save, Focus, GetMe, MeArrives
<1>4. CASE \E d \in Entries : EditDays(d) \/ \E u \in Unheard, k \in Keep : OtherSave(u, k, d)
  BY <1>4 DEF EditDays, OtherSave
<1>5. CASE \/ \E t \in Posters : SetKeep(t) \/ SetRetention(t)
           \/ \E u \in Unheard : UnheardDone(u)
  BY <1>5 DEF SetKeep, SetRetention, UnheardDone
<1>. QED BY <1>1, <1>2, <1>3, <1>4, <1>5 DEF SettingsNext

\* At first there are no toasts.
LEMMA ToastsInit == ASSUME ToastInit PROVE ToastInv
<1>1. toasts = <<>> /\ toastTimeouts = {} /\ count = 0
  BY DEF ToastInit
<1>2. <<>> \in Seq([id : Nat, open : BOOLEAN]) /\ Len(<<>>) = 0
  OBVIOUS
<1>. QED BY <1>1, <1>2, ToastAssumption DEF ToastInv

\* The timer of a toast that was closed, or displaced while its timer ran,
\* never takes away one that is open on the settings page (use-toast.ts).
THEOREM OpenToastsStay == SettingsSpec => OpenToastStays
<1>1. SettingsInit => ToastInv
  BY ToastsInit DEF SettingsInit
<1>2. ToastInv /\ [SettingsNext]_settingsVars => ToastInv' /\ [OpenStays]_toastVars
  BY ToastsOfNext, ToastsStep
<1>. QED BY <1>1, <1>2, PTL DEF SettingsSpec, OpenToastStays, OpenStays

\* The same of the notices that a session's page shows (SessionView.tsx).
THEOREM OpenNoticesStay == Spec => OpenToastStays
<1>1. Init => ToastInv
  BY ToastsInit DEF Init
<1>2. [Next]_vars => [AddToast \/ ToastStep]_toastVars
  <2>. SUFFICES ASSUME [Next]_vars PROVE AddToast \/ ToastStep \/ UNCHANGED toastVars
    OBVIOUS
  <2>1. CASE UNCHANGED vars
    BY <2>1 DEF vars, toastVars
  <2>2. CASE Toasting \/ Unmount \/ Retry \/ Write \/ \E s \in Sessions : Mount(s) \/ Switch(s)
    BY <2>2 DEF Toasting, Unmount, Retry, Write, Mount, Switch
  <2>3. ASSUME NEW k \in Sockets, OnMessage(k) PROVE AddToast \/ UNCHANGED toastVars
    BY <2>3 DEF OnMessage, OnControl
  <2>4. CASE \E k \in Sockets : \/ OnOpen(k) \/ OnClose(k) \/ SendPTYData(k) \/ Receive(k) \/ Lose(k)
                               \/ \E type \in Notices : SendControl(k, type)
    BY <2>4 DEF OnOpen, OnClose, CloseEvent, SendPTYData, SendControl, Send, Receive, Lose
  <2>. QED BY <2>1, <2>2, <2>3, <2>4 DEF Next
<1>3. ToastInv /\ [Next]_vars => ToastInv' /\ [OpenStays]_toastVars
  BY <1>2, ToastsStep
<1>. QED BY <1>1, <1>3, PTL DEF Spec, OpenToastStays, OpenStays

-----------------------------------------------------------------------------
(***************************************************************************)
(* The settings page.                                                      *)
(***************************************************************************)
FormTypes ==
  /\ stored \in [keep : Keep, days : Nat]
  /\ me \in Keep
  /\ fetch \in {"none", "sent", "failed"} \cup Keep
  /\ form \in [keep : Keep, days : Nat]
  /\ post \in [Posters -> Posts]
  /\ asked \in [keep : Keep \cup {"none"}, days : Nat, known : BOOLEAN]

\* Something was saved and neither edited nor overwritten since.
Pending == asked # Nothing

\* What the form shows is what was saved, or what the cache brought over it.
FormOfAsked ==
  Pending =>
    /\ form.keep \in {asked.keep, me}
    /\ asked.days # Unset => Clamped(form.days) = asked.days /\ Clamped(asked.days) = asked.days

\* Until the page is told, the save is in its POST, and each write that the
\* handler has made is in the row.
AskedInPost ==
  Pending /\ asked.known = FALSE =>
    /\ post["mine"].at # "none"
    /\ post["mine"].keep = asked.keep /\ post["mine"].days = asked.days
    /\ post["mine"].at \in {"half", "done"} => stored.keep = asked.keep
    /\ post["mine"].at = "done" /\ asked.days # Unset => stored.days = asked.days

\* Once it is told, both are in the row, and so they are in the answer to the
\* fetch that followed and in those that follow it.
AskedInRow ==
  asked.known = TRUE =>
    /\ post["mine"].at = "none"
    /\ stored.keep = asked.keep
    /\ asked.days # Unset => stored.days = asked.days
    /\ fetch \in Keep => fetch = asked.keep
    /\ fetch = "none" => form.keep = asked.keep

FormInv == FormTypes /\ FormOfAsked /\ AskedInPost /\ AskedInRow

LEMMA LimitsKeep ==
  ASSUME NEW d \in Nat
  PROVE  Clamped(d) \in Nat /\ Clamped(Clamped(d)) = Clamped(d)
BY SettingsAssumption DEF Clamped

LEMMA NoPostType == NoPost \in Posts /\ NoPost.at = "none"
BY DEF NoPost, Posts, Keep, Unset

LEMMA NothingType ==
  /\ Nothing \in [keep : Keep \cup {"none"}, days : Nat, known : BOOLEAN]
  /\ Nothing.known = FALSE
BY DEF Nothing, Unset

\* With nothing asked only the types are left to show.
LEMMA NothingAsked == ASSUME FormTypes', asked' = Nothing PROVE FormInv'
BY NothingType DEF FormInv, FormOfAsked, AskedInPost, AskedInRow, Pending

LEMMA FormInitInv == SettingsInit => FormInv
<1>. SUFFICES ASSUME SettingsInit PROVE FormInv
  OBVIOUS
<1>1. FormTypes
  BY NoPostType, NothingType, SettingsAssumption DEF SettingsInit, FormTypes, Unset
<1>. QED BY <1>1, NothingType DEF SettingsInit, FormInv, FormOfAsked, AskedInPost, AskedInRow, Pending

\* A POST under another name.
LEMMA MovedTypes ==
  ASSUME FormTypes, NEW t \in Posters, NEW to \in Posters
  PROVE  /\ Moved(t, to) \in [Posters -> Posts]
         /\ t # "mine" /\ to # "mine" => Moved(t, to)["mine"] = post["mine"]
<1>1. post \in [Posters -> Posts] /\ "mine" \in Posters
  BY DEF FormTypes, Posters, Awaited
<1>2. NoPost \in Posts
  BY NoPostType
<1>. HIDE DEF NoPost, Posts, Posters
<1>. QED BY <1>1, <1>2 DEF Moved

\* The user's steps but Save forget what was asked.
LEMMA EditStep ==
  ASSUME FormInv, Return \/ EditKeep \/ (\E d \in Entries : EditDays(d))
  PROVE  FormInv'
<1>1. asked' = Nothing
  BY DEF Return, EditKeep, EditDays
<1>2. form' \in [keep : Keep, days : Nat]
  BY SettingsAssumption DEF Return, EditKeep, EditDays, FormInv, FormTypes, Mounted, Keep
<1>3. post' \in [Posters -> Posts]
  <2>1. CASE Return
    <3>1. UNCHANGED post \/ \E l \in Left : post' = Moved("mine", l)
      BY <2>1 DEF Return
    <3>2. "mine" \in Posters /\ \A l \in Left : l \in Posters
      BY DEF Posters, Awaited
    <3>. QED BY <3>1, <3>2, MovedTypes DEF FormInv, FormTypes
  <2>2. CASE EditKeep \/ \E d \in Entries : EditDays(d)
    BY <2>2 DEF EditKeep, EditDays, FormInv, FormTypes
  <2>. QED BY <2>1, <2>2
<1>4. UNCHANGED <<stored, me, fetch>>
  BY DEF Return, EditKeep, EditDays
<1>. QED BY <1>1, <1>2, <1>3, <1>4, NothingType, NothingAsked DEF FormInv, FormTypes

LEMMA SaveStep == ASSUME FormInv, Save PROVE FormInv'
<1>. DEFINE days == IF form.keep = "yes" THEN Clamped(form.days) ELSE Unset
            new == [at |-> "sent", keep |-> form.keep, days |-> days]
<1>1. /\ form \in [keep : Keep, days : Nat] /\ form.keep \in Keep /\ form.days \in Nat
      /\ post \in [Posters -> Posts]
  BY DEF FormInv, FormTypes
<1>2. days \in Nat /\ (days # Unset => days = Clamped(form.days) /\ Clamped(days) = days)
  BY <1>1, LimitsKeep DEF Unset
<1>. HIDE DEF days
<1>3. new \in Posts
  BY <1>1, <1>2 DEF Posts
<1>4. post' = [post EXCEPT !["mine"] = new]
  BY DEF Save, days
<1>5. post' \in [Posters -> Posts] /\ post'["mine"] = new
  BY <1>1, <1>3, <1>4 DEF Posters, Awaited
<1>6. asked' = [keep |-> form.keep, days |-> days, known |-> FALSE]
  <2>1. asked' = [keep |-> form.keep, days |-> post'["mine"].days, known |-> FALSE]
    BY DEF Save
  <2>. QED BY <1>5, <2>1
<1>7. UNCHANGED <<stored, me, fetch, form>>
  BY DEF Save
<1>8. FormTypes'
  BY <1>1, <1>2, <1>5, <1>6, <1>7 DEF FormInv, FormTypes
<1>9. FormOfAsked'
  BY <1>2, <1>6, <1>7 DEF FormOfAsked, Clamped
<1>10. AskedInPost' /\ AskedInRow'
  BY <1>5, <1>6 DEF AskedInPost, AskedInRow
<1>. QED BY <1>8, <1>9, <1>10 DEF FormInv

\* What becomes of POSTs the form does not wait for, while the row is as it
\* was, does not matter, and neither does it that me is fetched again.
LEMMA OtherPostStep ==
  ASSUME FormInv, UNCHANGED <<stored, me, form, asked>>, fetch' \in {fetch, "sent"},
         post' \in [Posters -> Posts], post'["mine"] = post["mine"]
  PROVE  FormInv'
<1>1. FormTypes' /\ FormOfAsked' /\ AskedInPost'
  BY DEF FormInv, FormTypes, FormOfAsked, AskedInPost, Pending, Clamped
<1>2. AskedInRow'
  BY DEF FormInv, AskedInRow, Keep
<1>. QED BY <1>1, <1>2 DEF FormInv

\* One of them set to something else.
LEMMA OtherSet ==
  ASSUME FormTypes, NEW u \in Posters \ {"mine"}, NEW p \in Posts
  PROVE  /\ [post EXCEPT ![u] = p] \in [Posters -> Posts]
         /\ [post EXCEPT ![u] = p]["mine"] = post["mine"]
<1>1. post \in [Posters -> Posts] /\ "mine" \in Posters
  BY DEF FormTypes, Posters, Awaited
<1>. HIDE DEF Posts, Posters
<1>. QED BY <1>1

LEMMA OthersAreOthers ==
  /\ \A u \in Left \cup Unheard : u \in Posters \ {"mine"}
  /\ \A t \in Posters \ {"mine"} : t \in Left \cup Unheard
BY SettingsAssumption DEF Posters, Awaited

LEMMA OtherStep ==
  ASSUME FormInv, NEW u \in Unheard,
         UnheardDone(u) \/ \E k \in Keep, d \in Entries : OtherSave(u, k, d)
  PROVE  FormInv'
<1>1. u \in Posters \ {"mine"} /\ FormTypes
  BY OthersAreOthers DEF FormInv
<1>2. CASE UnheardDone(u)
  <2>1. post' = [post EXCEPT ![u] = NoPost] /\ UNCHANGED <<stored, me, fetch, form, asked>>
    BY <1>2 DEF UnheardDone
  <2>. QED BY <1>1, <2>1, NoPostType, OtherSet, OtherPostStep
<1>3. ASSUME NEW d \in Entries, NEW k \in Keep, OtherSave(u, k, d) PROVE FormInv'
  <2>. DEFINE days == IF k = "yes" THEN Clamped(d) ELSE Unset
  <2>1. days \in Nat
    BY SettingsAssumption, LimitsKeep DEF Unset
  <2>. HIDE DEF days
  <2>2. [at |-> "sent", keep |-> k, days |-> days] \in Posts
    BY <2>1 DEF Posts
  <2>3. /\ post' = [post EXCEPT ![u] = [at |-> "sent", keep |-> k, days |-> days]]
        /\ UNCHANGED <<stored, me, fetch, form, asked>>
    BY <1>3 DEF OtherSave, days
  <2>. QED BY <1>1, <2>2, <2>3, OtherSet, OtherPostStep
<1>. QED BY <1>2, <1>3

\* A handler of a POST that the form does not wait for forgets what was asked
\* with each write, and one that fails writes nothing.
LEMMA OtherWriteStep ==
  ASSUME FormInv, NEW t \in Posters \ {"mine"}, SetKeep(t) \/ SetRetention(t)
  PROVE  FormInv'
<1>1. /\ post \in [Posters -> Posts] /\ post[t] \in Posts /\ FormTypes
      /\ stored \in [keep : Keep, days : Nat]
  BY DEF FormInv, FormTypes
<1>2. PICK at \in {"half", "done", "failed"} :
        /\ post' = [post EXCEPT ![t].at = at]
        /\ asked' = Nothing \/ UNCHANGED <<stored, asked>>
  BY DEF SetKeep, SetRetention, Overwritten
<1>3. /\ post' = [post EXCEPT ![t] = [post[t] EXCEPT !.at = at]]
      /\ [post[t] EXCEPT !.at = at] \in Posts
  BY <1>1, <1>2 DEF Posts
<1>4. UNCHANGED <<me, fetch, form>>
  BY DEF SetKeep, SetRetention
<1>5. post' \in [Posters -> Posts] /\ post'["mine"] = post["mine"]
  BY <1>1, <1>3, OtherSet
<1>6. CASE UNCHANGED <<stored, asked>>
  BY <1>4, <1>5, <1>6, OtherPostStep
<1>7. CASE asked' = Nothing
  <2>1. stored' \in [keep : Keep, days : Nat]
    BY <1>1, LimitsKeep DEF SetKeep, SetRetention, Posts
  <2>. QED BY <1>1, <1>4, <1>5, <1>7, <2>1, NothingAsked, NothingType DEF FormTypes
<1>. QED BY <1>2, <1>6, <1>7

\* A handler of the form's POST puts into the row what was asked.
LEMMA MyWriteStep ==
  ASSUME FormInv, SetKeep("mine") \/ SetRetention("mine")
  PROVE  FormInv'
<1>. DEFINE mine == post["mine"]
<1>1. /\ post \in [Posters -> Posts] /\ mine \in Posts /\ mine.days \in Nat /\ mine.keep \in Keep
      /\ stored \in [keep : Keep, days : Nat]
  BY DEF FormInv, FormTypes, Posters, Awaited, Posts
<1>2. /\ UNCHANGED <<me, fetch, form, asked>>
      /\ mine.at # "none"
  BY DEF SetKeep, SetRetention, Overwritten
<1>3. asked.known # TRUE
  BY <1>2 DEF FormInv, AskedInRow
<1>4. AskedInRow'
  BY <1>2, <1>3 DEF AskedInRow
<1>5. FormOfAsked'
  BY <1>2 DEF FormInv, FormOfAsked, Pending, Clamped
<1>6. /\ stored' \in [keep : Keep, days : Nat]
      /\ post' \in [Posters -> Posts]
      /\ post'["mine"].keep = mine.keep /\ post'["mine"].days = mine.days
      /\ post'["mine"].at \in {"half", "done", "failed"}
      /\ post'["mine"].at = "half" => stored'.keep = mine.keep
      /\ post'["mine"].at = "done" =>
           /\ mine.at = "half" /\ stored'.keep = stored.keep
           /\ mine.days # Unset => stored'.days = Clamped(mine.days)
  <2>1. PICK at \in {"half", "done", "failed"} : post' = [post EXCEPT !["mine"].at = at]
    BY DEF SetKeep, SetRetention
  <2>2. post' \in [Posters -> Posts] /\ post'["mine"] = [mine EXCEPT !.at = at]
    BY <1>1, <2>1 DEF Posters, Awaited, Posts
  <2>3. CASE SetKeep("mine")
    BY <1>1, <2>2, <2>3 DEF SetKeep, Posts, Posters, Awaited
  <2>4. CASE SetRetention("mine")
    <3>1. Clamped(mine.days) \in Nat
      BY <1>1, LimitsKeep
    <3>. QED BY <1>1, <2>2, <2>4, <3>1 DEF SetRetention, Posts, Posters, Awaited
  <2>. QED BY <2>3, <2>4
<1>7. AskedInPost'
  <2>. SUFFICES ASSUME Pending, asked.known = FALSE PROVE AskedInPost'
    BY <1>2 DEF AskedInPost, Pending
  <2>1. mine.keep = asked.keep /\ mine.days = asked.days
    BY DEF FormInv, AskedInPost
  <2>2. mine.at = "half" => stored.keep = asked.keep
    BY DEF FormInv, AskedInPost
  <2>3. asked.days # Unset => Clamped(asked.days) = asked.days
    BY DEF FormInv, FormOfAsked
  <2>. QED BY <1>2, <1>6, <2>1, <2>2, <2>3 DEF AskedInPost
<1>. QED BY <1>2, <1>4, <1>5, <1>6, <1>7 DEF FormInv, FormTypes

\* The page is told of what its POST has done: that is in the row.
LEMMA SavedStep == ASSUME FormInv, Saved("mine") PROVE FormInv'
<1>1. post["mine"].at = "done" /\ post' = [post EXCEPT !["mine"] = NoPost]
  BY DEF Saved
<1>2. post' \in [Posters -> Posts] /\ post'["mine"].at = "none"
  BY <1>1, NoPostType DEF FormInv, FormTypes, Posters, Awaited
<1>3. fetch' = "sent" /\ UNCHANGED <<stored, me, form>>
  BY DEF Saved
<1>4. asked' = [asked EXCEPT !.known = asked # Nothing]
  BY DEF Saved
<1>5. asked \in [keep : Keep \cup {"none"}, days : Nat, known : BOOLEAN]
  BY DEF FormInv, FormTypes
<1>6. CASE asked = Nothing
  <2>1. asked' = Nothing
    BY <1>4, <1>6 DEF Nothing
  <2>. QED BY <1>2, <1>3, <2>1, NothingType, NothingAsked DEF FormInv, FormTypes
<1>7. CASE asked # Nothing
  <2>1. asked' = [asked EXCEPT !.known = TRUE]
    BY <1>4, <1>7
  <2>2. /\ asked' \in [keep : Keep \cup {"none"}, days : Nat, known : BOOLEAN]
        /\ asked'.keep = asked.keep /\ asked'.days = asked.days /\ asked'.known = TRUE
    BY ONLY <1>5, <2>1
  <2>3. asked.known = FALSE
    BY <1>1, <1>5 DEF FormInv, AskedInRow
  <2>4. /\ stored.keep = asked.keep
        /\ asked.days # Unset => stored.days = asked.days
    BY <1>1, <1>7, <2>3 DEF FormInv, AskedInPost, Pending
  <2>5. FormTypes'
    BY <1>2, <1>3, <2>2 DEF FormInv, FormTypes
  <2>6. FormOfAsked'
    BY <1>3, <1>7, <2>2 DEF FormInv, FormOfAsked, Pending, Clamped
  <2>7. AskedInPost' /\ AskedInRow'
    BY <1>2, <1>3, <2>2, <2>4 DEF AskedInPost, AskedInRow, Keep
  <2>. QED BY <2>5, <2>6, <2>7 DEF FormInv
<1>. QED BY <1>6, <1>7

\* Of a save that failed nothing is promised.
LEMMA NotSavedStep ==
  ASSUME FormInv, SaveFailed("mine") \/ AnswerLost("mine")
  PROVE  FormInv'
<1>1. asked' = Nothing /\ UNCHANGED <<stored, me, fetch, form>>
  BY DEF SaveFailed, AnswerLost, NotSaved
<1>2. "mine" \in Posters /\ (\A u \in Unheard : u \in Posters) /\ FormTypes
  BY DEF Posters, Awaited, FormInv
<1>3. post' \in [Posters -> Posts]
  <2>1. CASE SaveFailed("mine")
    BY <1>2, <2>1, NoPostType DEF SaveFailed, FormTypes
  <2>2. CASE AnswerLost("mine")
    <3>1. PICK u \in Unheard : post' = Moved("mine", u)
      BY <2>2 DEF AnswerLost
    <3>. QED BY <1>2, <3>1, MovedTypes
  <2>. QED BY <2>1, <2>2
<1>. QED BY <1>1, <1>2, <1>3, NothingType, NothingAsked DEF FormTypes

\* The answer to a save of a form that was left changes nothing that the form
\* shows; it fetches me again.
LEMMA LeftAnswered ==
  ASSUME FormInv, NEW l \in Left, Saved(l) \/ SaveFailed(l) \/ AnswerLost(l)
  PROVE  FormInv'
<1>1. l \in Posters /\ l # "mine" /\ FormTypes
  BY OthersAreOthers DEF FormInv
<1>2. UNCHANGED <<stored, me, form, asked>> /\ fetch' \in {fetch, "sent"}
  BY <1>1 DEF Saved, SaveFailed, AnswerLost, NotSaved
<1>3. post' \in [Posters -> Posts] /\ post'["mine"] = post["mine"]
  <2>1. CASE Saved(l) \/ SaveFailed(l)
    <3>1. post' = [post EXCEPT ![l] = NoPost]
      BY <2>1 DEF Saved, SaveFailed
    <3>. QED BY <1>1, <3>1, NoPostType, OtherSet
  <2>2. CASE AnswerLost(l)
    <3>1. PICK u \in Unheard : post' = Moved(l, u)
      BY <2>2 DEF AnswerLost
    <3>2. u \in Posters /\ u # "mine"
      BY OthersAreOthers
    <3>. QED BY <1>1, <3>1, <3>2, MovedTypes
  <2>. QED BY <2>1, <2>2
<1>. QED BY <1>2, <1>3, OtherPostStep

\* A fetch that is sent, fails or is answered: the answer is what the row has.
LEMMA FetchStep == ASSUME FormInv, Focus \/ GetMe PROVE FormInv'
<1>1. UNCHANGED <<stored, me, form, post, asked>>
  BY DEF Focus, GetMe
<1>2. fetch' \in {"sent", "failed"} \/ (fetch' = stored.keep /\ fetch' \in Keep)
  BY DEF Focus, GetMe, FormInv, FormTypes
<1>3. FormTypes' /\ FormOfAsked' /\ AskedInPost'
  BY <1>1, <1>2 DEF FormInv, FormTypes, FormOfAsked, AskedInPost, Pending, Clamped
<1>4. AskedInRow'
  BY <1>1, <1>2 DEF FormInv, AskedInRow, Keep
<1>. QED BY <1>3, <1>4 DEF FormInv

\* The effect either leaves a form that shows the answer already or sets it.
LEMMA EffectStep == ASSUME FormInv, MeArrives PROVE FormInv'
<1>1. /\ fetch \in Keep /\ me' = fetch /\ fetch' = "none" /\ form' = Effect(fetch)
      /\ UNCHANGED <<stored, post, asked>>
  BY DEF MeArrives
<1>2. /\ form' \in [keep : Keep, days : Nat] /\ form'.days = form.days
      /\ form'.keep = fetch \/ (form'.keep = form.keep /\ fetch = me)
  BY <1>1 DEF Effect, FormInv, FormTypes
<1>3. FormTypes' /\ AskedInPost'
  BY <1>1, <1>2 DEF FormInv, FormTypes, AskedInPost, Pending
<1>4. FormOfAsked'
  BY <1>1, <1>2 DEF FormInv, FormOfAsked, Pending, Clamped
<1>5. AskedInRow'
  <2>. SUFFICES ASSUME asked.known = TRUE PROVE AskedInRow'
    BY <1>1 DEF AskedInRow
  <2>1. Pending
    BY NothingType DEF Pending
  <2>2. form.keep \in {asked.keep, me} /\ fetch = asked.keep
    BY <1>1, <2>1 DEF FormInv, FormOfAsked, AskedInRow
  <2>. QED BY <1>1, <1>2, <2>2 DEF FormInv, AskedInRow, Keep
<1>. QED BY <1>3, <1>4, <1>5 DEF FormInv

LEMMA FormNextInv == ASSUME FormInv, [SettingsNext]_settingsVars PROVE FormInv'
<1>1. CASE UNCHANGED formVars
  BY <1>1 DEF formVars, FormInv, FormTypes, FormOfAsked, AskedInPost, AskedInRow, Pending, Clamped
<1>2. CASE \E t \in Posters : SetKeep(t) \/ SetRetention(t)
  BY <1>2, MyWriteStep, OtherWriteStep
<1>3. CASE \E u \in Unheard : UnheardDone(u) \/ \E k \in Keep, d \in Entries : OtherSave(u, k, d)
  BY <1>3, OtherStep
<1>4. CASE Return \/ EditKeep \/ \E d \in Entries : EditDays(d)
  BY <1>4, EditStep
<1>5. CASE \E t \in Awaited : Saved(t) \/ SaveFailed(t) \/ AnswerLost(t)
  BY <1>5, SavedStep, NotSavedStep, LeftAnswered DEF Awaited
<1>. QED BY <1>1, <1>2, <1>3, <1>4, <1>5, SaveStep, FetchStep, EffectStep
     DEF SettingsNext, settingsVars, ToastOnForm

\* From "Settings saved" until somebody edits or saves again, or a POST writes
\* that the form does not wait for, the row has both settings as they were
\* asked for, and the form shows them, but for days beyond the limits, of
\* which the row has the nearer limit, whatever fetches and saves of other
\* tabs or of forms that were left are on their way (SettingsForm.tsx, me.go).
THEOREM SavedSettingsShow == SettingsSpec => []SavedIsShown
<1>1. FormInv => SavedIsShown
  <2>. SUFFICES ASSUME FormInv, asked.known = TRUE PROVE SavedIsShown
    BY DEF SavedIsShown, FormInv, FormTypes
  <2>1. Pending
    BY NothingType DEF Pending
  <2>2. form.days \in MinDays..MaxDays => Clamped(form.days) = form.days
    BY SettingsAssumption DEF FormInv, FormTypes, Clamped
  <2>3. /\ stored.keep = asked.keep
        /\ asked.days # Unset => stored.days = asked.days /\ asked.days = Clamped(form.days)
        /\ fetch = "none" => form.keep = asked.keep
    BY <2>1 DEF FormInv, FormOfAsked, AskedInRow
  <2>. QED BY <2>2, <2>3 DEF SavedIsShown
<1>. QED BY FormInitInv, FormNextInv, <1>1, PTL DEF SettingsSpec
=============================================================================
