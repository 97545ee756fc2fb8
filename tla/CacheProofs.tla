---------------------------- MODULE CacheProofs ----------------------------
(***************************************************************************)
(* Lemmas about the operators of QueryCache, which the proofs about the    *)
(* pages that compose it cite: each keeps CacheInv, and says what becomes  *)
(* of the data that is shown.                                              *)
(***************************************************************************)
EXTENDS QueryCache, TLAPS

\* Whatever is held or has been answered is a version the server has had.
VersionsExist ==
  \A k \in Keys :
    /\ query[k].data <= ver[k]
    /\ \A i \in 1..Slots : wire[k][i].at = "answered" => wire[k][i].ver \in 1..ver[k]

\* The awaited request is on its way, and its answer is no older than what is
\* held: whatever brought newer data was awaited instead of it.
AwaitedIsNewer ==
  \A k \in Keys : query[k].cur # 0 =>
    /\ wire[k][query[k].cur].at # "free"
    /\ wire[k][query[k].cur].at = "answered" => query[k].data <= wire[k][query[k].cur].ver

CacheInv == CacheTypeOK /\ VersionsExist /\ AwaitedIsNewer

View == [k \in Keys |-> query[k].data]

LEMMA EntryTypes ==
  /\ \A e \in Entry : e.data \in 0..MaxVer /\ e.cur \in 0..Slots
  /\ NoEntry \in Entry /\ NoEntry.data = 0 /\ NoEntry.cur = 0
<1>1. \A e \in Entry : e.data \in 0..MaxVer /\ e.cur \in 0..Slots
  BY DEF Entry
<1>2. NoEntry \in Entry /\ NoEntry.data = 0 /\ NoEntry.cur = 0
  BY CacheAssumption DEF Entry, NoEntry
<1>. QED BY <1>1, <1>2

\* The entries that Settled makes.
LEMMA EntryFailed ==
  ASSUME NEW e \in Entry,
         NEW n, n = [e EXCEPT !.err = TRUE, !.inv = TRUE, !.cur = 0, !.lap = FALSE]
  PROVE  n \in Entry /\ n.data = e.data /\ n.cur = 0
<1>1. n = [data |-> e.data, inv |-> TRUE, err |-> TRUE, cur |-> 0, lap |-> FALSE, old |-> e.old]
  BY DEF Entry
<1>2. e.data \in 0..MaxVer /\ e.old \in BOOLEAN /\ 0 \in 0..Slots
  BY CacheAssumption DEF Entry
<1>. QED BY ONLY <1>1, <1>2 DEF Entry

LEMMA EntryAnswered ==
  ASSUME NEW v \in 0..MaxVer, NEW b \in BOOLEAN,
         NEW n, n = [NoEntry EXCEPT !.data = v, !.old = b]
  PROVE  n \in Entry /\ n.data = v /\ n.cur = 0
<1>1. n = [data |-> v, inv |-> FALSE, err |-> FALSE, cur |-> 0, lap |-> FALSE, old |-> b]
  BY DEF NoEntry
<1>2. 0 \in 0..Slots
  BY CacheAssumption
<1>. QED BY ONLY <1>1, <1>2, v \in 0..MaxVer, b \in BOOLEAN DEF Entry

LEMMA RequestTypes ==
  /\ Free \in Request /\ Free.at = "free"
  /\ Sent \in Request /\ Sent.at = "sent"
  /\ \A v \in 0..MaxVer : [at |-> "answered", ver |-> v] \in Request
BY CacheAssumption DEF Free, Sent, Request

\* What replaces request i of key k, and nothing else.
LEMMA WireExcept ==
  ASSUME wire \in [Keys -> [1..Slots -> Request]],
         NEW k \in Keys, NEW i \in 1..Slots, NEW r \in Request
  PROVE  /\ [wire EXCEPT ![k][i] = r] \in [Keys -> [1..Slots -> Request]]
         /\ \A x \in Keys, j \in 1..Slots :
              [wire EXCEPT ![k][i] = r][x][j] = IF x = k /\ j = i THEN r ELSE wire[x][j]
OBVIOUS

LEMMA EntryBegun ==
  ASSUME NEW n, n = [NoEntry EXCEPT !.cur = 1]
  PROVE  n \in Entry /\ n.data = 0 /\ n.cur = 1
<1>1. n = [data |-> 0, inv |-> FALSE, err |-> FALSE, cur |-> 1, lap |-> FALSE, old |-> FALSE]
  BY DEF NoEntry
<1>2. 1 \in 0..Slots /\ 0 \in 0..MaxVer
  BY CacheAssumption
<1>. QED BY ONLY <1>1, <1>2 DEF Entry

VersionTypes == ver \in [Keys -> 1..MaxVer] /\ own \in [Keys -> 0..MaxVer]

\* The cache of a tab that has nothing, and of one that asks for k first.
Blank == query = NoEntries /\ wire = NoRequests /\ VersionTypes

Beginning(k) ==
  /\ query = [NoEntries EXCEPT ![k].cur = 1]
  /\ wire = [NoRequests EXCEPT ![k][1] = Sent]
  /\ VersionTypes

LEMMA BlankCache == Blank => CacheInv /\ View = [k \in Keys |-> 0]
<1>. SUFFICES ASSUME Blank PROVE CacheInv /\ View = [k \in Keys |-> 0]
  OBVIOUS
<1>1. query \in [Keys -> Entry] /\ \A k \in Keys : query[k].data = 0 /\ query[k].cur = 0
  BY EntryTypes DEF Blank, NoEntries
<1>2. /\ wire \in [Keys -> [1..Slots -> Request]]
      /\ \A k \in Keys, i \in 1..Slots : wire[k][i].at = "free"
  BY RequestTypes DEF Blank, NoRequests
<1>3. VersionTypes
  BY DEF Blank
<1>4. VersionsExist
  <2>1. \A k \in Keys : query[k].data <= ver[k]
    <3>1. ASSUME NEW k \in Keys PROVE query[k].data <= ver[k]
      <4>1. query[k].data = 0 /\ ver[k] \in 1..MaxVer
        BY <1>1, <1>3 DEF VersionTypes
      <4>. QED BY <4>1
    <3>. QED BY <3>1
  <2>2. \A k \in Keys, i \in 1..Slots : wire[k][i].at # "answered"
    BY <1>2
  <2>. QED BY <2>1, <2>2 DEF VersionsExist
<1>. QED BY <1>1, <1>2, <1>3, <1>4 DEF CacheInv, CacheTypeOK, VersionTypes, AwaitedIsNewer, View

LEMMA BeginningCache ==
  ASSUME NEW k \in Keys
  PROVE  Beginning(k) => CacheInv /\ View = [x \in Keys |-> 0]
<1>. SUFFICES ASSUME Beginning(k) PROVE CacheInv /\ View = [x \in Keys |-> 0]
  OBVIOUS
<1>0. 1 \in 1..Slots
  BY CacheAssumption
<1>1. /\ query \in [Keys -> Entry]
      /\ \A x \in Keys : query[x].data = 0 /\ query[x].cur = IF x = k THEN 1 ELSE 0
  <2>1. query = [x \in Keys |-> query[x]]
    BY DEF Beginning, NoEntries
  <2>2. ASSUME NEW x \in Keys, x # k PROVE query[x] = NoEntry
    BY <2>2 DEF Beginning, NoEntries
  <2>3. query[k] = [NoEntry EXCEPT !.cur = 1]
    BY DEF Beginning, NoEntries
  <2>4. query[k] \in Entry /\ query[k].data = 0 /\ query[k].cur = 1
    <3>1. ASSUME NEW n, n = query[k] PROVE n \in Entry /\ n.data = 0 /\ n.cur = 1
      BY <3>1, <2>3, EntryBegun
    <3>. QED BY <3>1, Zenon
  <2>. QED BY <2>1, <2>2, <2>4, EntryTypes
<1>2. /\ wire \in [Keys -> [1..Slots -> Request]]
      /\ \A x \in Keys, i \in 1..Slots :
           wire[x][i] = IF x = k /\ i = 1 THEN Sent ELSE Free
  BY <1>0, RequestTypes DEF Beginning, NoRequests
<1>3. VersionTypes
  BY DEF Beginning
<1>4. CacheTypeOK
  BY <1>1, <1>2, <1>3 DEF VersionTypes, CacheTypeOK
<1>5. VersionsExist
  BY <1>1, <1>2, <1>3, RequestTypes DEF VersionTypes, VersionsExist
<1>6. AwaitedIsNewer
  BY <1>0, <1>1, <1>2, RequestTypes DEF AwaitedIsNewer
<1>. QED BY <1>1, <1>4, <1>5, <1>6 DEF CacheInv, View

\* A fetch begins for the keys of K, on entries with the data and the awaited
\* requests of the cache.
LEMMA FetchingKeeps ==
  ASSUME CacheInv, NEW K \in SUBSET Keys, NEW entries \in [Keys -> Entry],
         \A k \in Keys : entries[k].data = query[k].data /\ entries[k].cur = query[k].cur,
         Fetching(K, entries), ver' = ver, own' \in [Keys -> 0..MaxVer]
  PROVE  CacheInv' /\ View' = View
<1>. USE CacheAssumption DEF CacheInv, CacheTypeOK
<1>1. \A k \in K : Slot(k) \in 1..Slots /\ wire[k][Slot(k)] = Free
  BY DEF Fetching, CanSend, Slot
<1>2. /\ query' \in [Keys -> Entry]
      /\ \A k \in Keys : query'[k].data = query[k].data
      /\ \A k \in Keys : query'[k].cur = IF k \in K THEN Slot(k) ELSE query[k].cur
  <2>1. query' = [k \in Keys |-> query'[k]]
    BY DEF Fetching
  <2>2. ASSUME NEW k \in Keys
        PROVE  /\ query'[k] \in Entry /\ query'[k].data = query[k].data
               /\ query'[k].cur = IF k \in K THEN Slot(k) ELSE query[k].cur
    <3>1. CASE k \in K
      <4>1. PICK b \in BOOLEAN :
              query'[k] = [entries[k] EXCEPT !.cur = Slot(k), !.lap = FALSE, !.err = b]
        BY <3>1, Zenon DEF Fetching
      <4>2. Slot(k) \in 0..Slots /\ entries[k] \in Entry
        BY <3>1, <1>1
      <4>3. /\ query'[k] \in Entry /\ query'[k].data = entries[k].data
            /\ query'[k].cur = Slot(k)
        <5>1. ASSUME NEW e, e = entries[k], NEW c, c = Slot(k), NEW n, n = query'[k]
              PROVE  n \in Entry /\ n.data = e.data /\ n.cur = c
          <6>1. e \in Entry /\ c \in 0..Slots /\ n = [e EXCEPT !.cur = c, !.lap = FALSE, !.err = b]
            BY <5>1, <4>1, <4>2, Zenon
          <6>. QED BY ONLY <6>1, b \in BOOLEAN DEF Entry
        <5>. QED BY <5>1, Zenon
      <4>. QED BY <3>1, <4>3
    <3>2. CASE k \notin K
      BY <3>2 DEF Fetching
    <3>. QED BY <3>1, <3>2
  <2>. QED BY <2>1, <2>2
<1>3. /\ wire' \in [Keys -> [1..Slots -> Request]]
      /\ \A k \in Keys, i \in 1..Slots :
           wire'[k][i] = IF k \in K /\ i = Slot(k) THEN Sent ELSE wire[k][i]
  <2>1. wire' = [k \in Keys |-> wire'[k]]
    BY DEF Fetching
  <2>2. ASSUME NEW k \in Keys
        PROVE  /\ wire'[k] \in [1..Slots -> Request]
               /\ \A i \in 1..Slots :
                    wire'[k][i] = IF k \in K /\ i = Slot(k) THEN Sent ELSE wire[k][i]
    <3>1. CASE k \in K
      <4>1. wire'[k] = [wire[k] EXCEPT ![Slot(k)] = Sent]
        BY <3>1 DEF Fetching
      <4>. QED BY <3>1, <4>1, <1>1, RequestTypes
    <3>2. CASE k \notin K
      BY <3>2 DEF Fetching
    <3>. QED BY <3>1, <3>2
  <2>. QED BY <2>1, <2>2
<1>4. VersionsExist'
  <2>. SUFFICES ASSUME NEW k \in Keys
                PROVE  /\ query'[k].data <= ver[k]
                       /\ \A i \in 1..Slots :
                            wire'[k][i].at = "answered" => wire'[k][i].ver \in 1..ver[k]
    BY DEF VersionsExist
  <2>. QED BY <1>2, <1>3, RequestTypes DEF VersionsExist
<1>5. AwaitedIsNewer'
  <2>. SUFFICES ASSUME NEW k \in Keys, query'[k].cur # 0
                PROVE  /\ wire'[k][query'[k].cur].at # "free"
                       /\ wire'[k][query'[k].cur].at = "answered" =>
                            query'[k].data <= wire'[k][query'[k].cur].ver
    BY DEF AwaitedIsNewer
  <2>1. CASE k \in K
    BY <2>1, <1>1, <1>2, <1>3, RequestTypes
  <2>2. CASE k \notin K
    <3>1. query[k].cur \in 1..Slots
      BY <2>2, <1>2 DEF Entry
    <3>. QED BY <2>2, <3>1, <1>2, <1>3 DEF AwaitedIsNewer
  <2>. QED BY <2>1, <2>2
<1>. QED BY <1>2, <1>3, <1>4, <1>5 DEF View

\* Nothing is fetched.
LEMMA CacheRests ==
  ASSUME CacheInv, UNCHANGED <<query, wire, ver>>, own' \in [Keys -> 0..MaxVer]
  PROVE  CacheInv' /\ View' = View
BY DEF CacheInv, CacheTypeOK, VersionsExist, AwaitedIsNewer, View

\* The server's versions move on.
LEMMA VersionsAdvance ==
  ASSUME CacheInv, UNCHANGED <<query, wire, own>>, ver' \in [Keys -> 1..MaxVer],
         \A k \in Keys : ver[k] <= ver'[k]
  PROVE  CacheInv' /\ View' = View
<1>. USE CacheAssumption DEF CacheInv, CacheTypeOK
<1>1. VersionsExist'
  BY DEF VersionsExist, Entry, Request
<1>. QED BY <1>1 DEF AwaitedIsNewer, View

\* The entries of an invalidation may be fetched for.
LEMMA InvalidatedEntries ==
  ASSUME CacheInv, NEW K, NEW M
  PROVE  /\ Invalidated(K, M) \in [Keys -> Entry]
         /\ \A k \in Keys : /\ Invalidated(K, M)[k].data = query[k].data
                            /\ Invalidated(K, M)[k].cur = query[k].cur
<1>1. ASSUME NEW k \in Keys PROVE Kept(k, k \in M) \in BOOLEAN
  BY DEF Kept
<1>. QED BY <1>1 DEF Invalidated, CacheInv, CacheTypeOK, Entry

LEMMA ServeKeeps ==
  ASSUME CacheInv, NEW k \in Keys, NEW i \in 1..Slots, Serve(k, i)
  PROVE  CacheInv' /\ View' = View
<1>. USE CacheAssumption DEF CacheInv, CacheTypeOK
<1>1. /\ wire' \in [Keys -> [1..Slots -> Request]]
      /\ \A x \in Keys, j \in 1..Slots :
           wire'[x][j] = IF x = k /\ j = i THEN [at |-> "answered", ver |-> ver[k]] ELSE wire[x][j]
  <2>1. [at |-> "answered", ver |-> ver[k]] \in Request
    BY RequestTypes
  <2>. QED BY <2>1, WireExcept DEF Serve
<1>2. VersionsExist'
  BY <1>1 DEF Serve, VersionsExist
<1>3. AwaitedIsNewer'
  <2>. SUFFICES ASSUME NEW x \in Keys, query[x].cur # 0
                PROVE  /\ wire'[x][query[x].cur].at # "free"
                       /\ wire'[x][query[x].cur].at = "answered" =>
                            query[x].data <= wire'[x][query[x].cur].ver
    BY DEF AwaitedIsNewer, Serve
  <2>1. query[x] \in Entry /\ query[x].cur \in 1..Slots /\ query[x].data <= ver[x]
    <3>1. query[x] \in Entry
      OBVIOUS
    <3>. QED BY <3>1, EntryTypes DEF VersionsExist
  <2>2. CASE x = k /\ query[x].cur = i
    BY <2>2, <1>1, <2>1
  <2>3. CASE ~(x = k /\ query[x].cur = i)
    <3>1. wire'[x][query[x].cur] = wire[x][query[x].cur]
      BY <2>3, <1>1, <2>1
    <3>. QED BY <3>1 DEF AwaitedIsNewer
  <2>. QED BY <2>2, <2>3
<1>. QED BY <1>1, <1>2, <1>3 DEF Serve, View

\* A settled request leaves the view, or takes key k on to a newer version.
LEMMA SettleKeeps ==
  ASSUME CacheInv, NEW k \in Keys, NEW i \in 1..Slots, Settle(k, i)
  PROVE  /\ CacheInv'
         /\ \/ View' = View
            \/ \E v \in 1..ver[k] : View[k] <= v /\ View' = [View EXCEPT ![k] = v]
<1>. USE CacheAssumption DEF CacheInv, CacheTypeOK
<1>1. /\ Settled(k, i) \in Entry
      /\ Settled(k, i).cur = IF i = query[k].cur THEN 0 ELSE query[k].cur
      /\ Settled(k, i).data = IF i = query[k].cur /\ wire[k][i].at = "answered"
                              THEN wire[k][i].ver ELSE query[k].data
  <2>1. CASE i # query[k].cur
    BY <2>1 DEF Settled
  <2>2. CASE i = query[k].cur /\ wire[k][i].at = "answered"
    <3>1. wire[k][i].ver \in 0..MaxVer /\ query[k].lap \in BOOLEAN
      BY DEF Request, Entry
    <3>2. Settled(k, i) = [NoEntry EXCEPT !.data = wire[k][i].ver, !.old = query[k].lap]
      BY <2>2 DEF Settled
    <3>3. /\ Settled(k, i) \in Entry /\ Settled(k, i).data = wire[k][i].ver
          /\ Settled(k, i).cur = 0
      <4>1. ASSUME NEW v, v = wire[k][i].ver, NEW b, b = query[k].lap, NEW n, n = Settled(k, i)
            PROVE  n \in Entry /\ n.data = v /\ n.cur = 0
        <5>1. v \in 0..MaxVer /\ b \in BOOLEAN /\ n = [NoEntry EXCEPT !.data = v, !.old = b]
          BY <4>1, <3>1, <3>2, Zenon
        <5>. QED BY ONLY <5>1, EntryAnswered
      <4>. QED BY <4>1, Zenon
    <3>. QED BY <2>2, <3>3
  <2>3. CASE i = query[k].cur /\ wire[k][i].at # "answered"
    <3>1. Settled(k, i) = [query[k] EXCEPT !.err = TRUE, !.inv = TRUE, !.cur = 0, !.lap = FALSE]
      BY <2>3 DEF Settled
    <3>2. query[k] \in Entry
      OBVIOUS
    <3>3. /\ Settled(k, i) \in Entry /\ Settled(k, i).data = query[k].data
          /\ Settled(k, i).cur = 0
      BY <3>1, <3>2, EntryFailed, Zenon
    <3>. QED BY <2>3, <3>3
  <2>. QED BY <2>1, <2>2, <2>3
<1>2. query' = [query EXCEPT ![k] = Settled(k, i)] /\ query' \in [Keys -> Entry]
  BY <1>1 DEF Settle
<1>3. /\ wire' \in [Keys -> [1..Slots -> Request]]
      /\ \A x \in Keys, j \in 1..Slots : wire'[x][j] = IF x = k /\ j = i THEN Free ELSE wire[x][j]
  BY RequestTypes, WireExcept DEF Settle
<1>4. VersionsExist'
  <2>. SUFFICES ASSUME NEW x \in Keys
                PROVE  /\ query'[x].data <= ver[x]
                       /\ \A j \in 1..Slots :
                            wire'[x][j].at = "answered" => wire'[x][j].ver \in 1..ver[x]
    BY DEF VersionsExist, Settle
  <2>1. query'[x].data <= ver[x]
    BY <1>1, <1>2, EntryTypes DEF VersionsExist
  <2>2. ASSUME NEW j \in 1..Slots, wire'[x][j].at = "answered"
        PROVE  wire'[x][j] = wire[x][j]
    BY <2>2, <1>3, RequestTypes
  <2>. QED BY <2>1, <2>2 DEF VersionsExist
<1>5. AwaitedIsNewer'
  <2>. SUFFICES ASSUME NEW x \in Keys, query'[x].cur # 0
                PROVE  /\ wire'[x][query'[x].cur].at # "free"
                       /\ wire'[x][query'[x].cur].at = "answered" =>
                            query'[x].data <= wire'[x][query'[x].cur].ver
    BY DEF AwaitedIsNewer
  <2>1. /\ query'[x].cur = query[x].cur /\ query'[x].data = query[x].data
        /\ query[x].cur \in 1..Slots
        /\ ~(x = k /\ query[x].cur = i)
    BY <1>1, <1>2, EntryTypes
  <2>2. wire'[x][query[x].cur] = wire[x][query[x].cur]
    BY <2>1, <1>3
  <2>. QED BY <2>1, <2>2 DEF AwaitedIsNewer
<1>6. CASE i = query[k].cur /\ wire[k][i].at = "answered"
  <2>1. wire[k][i].ver \in 1..ver[k] /\ query[k].data <= wire[k][i].ver
    BY <1>6 DEF VersionsExist, AwaitedIsNewer
  <2>2. View' = [View EXCEPT ![k] = wire[k][i].ver]
    BY <1>6, <1>1, <1>2 DEF View
  <2>. QED BY <2>1, <2>2, <1>2, <1>3, <1>4, <1>5 DEF View, Settle
<1>7. CASE ~(i = query[k].cur /\ wire[k][i].at = "answered")
  <2>1. View' = View
    BY <1>7, <1>1, <1>2 DEF View
  <2>. QED BY <2>1, <1>2, <1>3, <1>4, <1>5 DEF Settle
<1>. QED BY <1>6, <1>7

LEMMA CollectKeeps ==
  ASSUME CacheInv, NEW k \in Keys, Collect(k)
  PROVE  CacheInv' /\ View' = [View EXCEPT ![k] = 0]
<1>. USE CacheAssumption DEF CacheInv, CacheTypeOK
<1>1. /\ query' \in [Keys -> Entry]
      /\ \A x \in Keys : query'[x] = IF x = k THEN NoEntry ELSE query[x]
  BY EntryTypes DEF Collect
<1>2. VersionsExist' /\ AwaitedIsNewer'
  BY <1>1, EntryTypes DEF Collect, VersionsExist, AwaitedIsNewer
<1>3. View' = [View EXCEPT ![k] = 0]
  BY <1>1, EntryTypes DEF View
<1>. QED BY <1>1, <1>2, <1>3 DEF Collect

-----------------------------------------------------------------------------
(* This tab's own writes: what is held, unless it is invalid or came of a  *)
(* fetch that was kept over an invalidation, has them in it, and so will   *)
(* the answer that is awaited.                                             *)
HasOwn(e, v) == e.inv = FALSE /\ e.data # 0 => v <= e.data \/ e.old = TRUE

AnswerHasOwn(e, r, v) == e.cur # 0 /\ r.at = "answered" => v <= r.ver \/ e.lap = TRUE

OwnInv ==
  \A k \in Keys :
    /\ own[k] <= ver[k]
    /\ HasOwn(query[k], own[k])
    /\ AnswerHasOwn(query[k], wire[k][query[k].cur], own[k])

\* A mounted key that awaits nothing holds what is valid, or shows an error.
Served(k) == query[k].cur = 0 /\ query[k].err = FALSE => query[k].inv = FALSE /\ query[k].data # 0

LEMMA ServedShowsOwn ==
  ASSUME CacheInv, OwnInv, NEW k \in Keys, Served(k)
  PROVE  ShowsOwn(k)
<1>1. query[k] \in Entry /\ own[k] \in 0..MaxVer
  BY DEF CacheInv, CacheTypeOK
<1>2. {query[k].inv, query[k].err, query[k].old} \subseteq BOOLEAN /\ query[k].data \in 0..MaxVer
  BY <1>1 DEF Entry
<1>. QED BY <1>1, <1>2 DEF OwnInv, HasOwn, Served, ShowsOwn, Idle

\* A fetch begins: for the keys of K the answer is still to come; the others
\* await what they did.
LEMMA FetchingOwn ==
  ASSUME CacheInv, NEW K \in SUBSET Keys, NEW entries \in [Keys -> Entry],
         Fetching(K, entries), ver' = ver,
         \A k \in Keys :
           /\ own'[k] <= ver[k]
           /\ HasOwn(entries[k], own'[k])
           /\ k \notin K => AnswerHasOwn(entries[k], wire[k][entries[k].cur], own'[k])
  PROVE  /\ OwnInv'
         /\ \A k \in Keys : k \notin K => query'[k] = entries[k]
         /\ \A k \in K : query'[k].cur # 0
<1>. SUFFICES ASSUME NEW k \in Keys
              PROVE  /\ HasOwn(query'[k], own'[k])
                     /\ AnswerHasOwn(query'[k], wire'[k][query'[k].cur], own'[k])
                     /\ k \notin K => query'[k] = entries[k]
                     /\ k \in K => query'[k].cur # 0
  BY DEF OwnInv
<1>1. CASE k \in K
  <2>1. Slot(k) \in 1..Slots
    BY <1>1 DEF Fetching, CanSend, Slot
  <2>2. PICK b \in BOOLEAN :
          query'[k] = [entries[k] EXCEPT !.cur = Slot(k), !.lap = FALSE, !.err = b]
    BY <1>1, Zenon DEF Fetching
  <2>3. ASSUME NEW e, e = entries[k], NEW c, c = Slot(k), NEW n, n = query'[k]
        PROVE  n.cur = c /\ n.data = e.data /\ n.inv = e.inv /\ n.old = e.old
    <3>1. e \in Entry /\ n = [e EXCEPT !.cur = c, !.lap = FALSE, !.err = b]
      BY <2>2, <2>3, Zenon
    <3>. QED BY ONLY <3>1 DEF Entry
  <2>4. /\ query'[k].cur = Slot(k) /\ query'[k].data = entries[k].data
        /\ query'[k].inv = entries[k].inv /\ query'[k].old = entries[k].old
    BY <2>3, Zenon
  <2>5. wire'[k][Slot(k)] = Sent
    BY <1>1, <2>1 DEF Fetching, CacheInv, CacheTypeOK
  <2>. QED BY <1>1, <2>1, <2>4, <2>5, RequestTypes DEF HasOwn, AnswerHasOwn
<1>2. CASE k \notin K
  <2>1. query'[k] = entries[k] /\ wire'[k] = wire[k]
    BY <1>2 DEF Fetching
  <2>. QED BY <1>2, <2>1
<1>. QED BY <1>1, <1>2

\* Entries that are as the cache has them.
LEMMA AsBeforeOwn ==
  ASSUME OwnInv, UNCHANGED own, NEW k \in Keys
  PROVE  /\ own'[k] <= ver[k]
         /\ HasOwn(query[k], own'[k])
         /\ AnswerHasOwn(query[k], wire[k][query[k].cur], own'[k])
BY DEF OwnInv

\* Entries after an invalidation of K, before what is mounted is fetched.
LEMMA InvalidatedOwn ==
  ASSUME CacheInv, OwnInv, NEW K, NEW M, NEW k \in Keys,
         own'[k] <= ver[k], k \notin K => own'[k] = own[k]
  PROVE  LET e == Invalidated(K, M)[k]
         IN  /\ HasOwn(e, own'[k])
             /\ ~(k \in K /\ Replaced(k, k \in M)) =>
                  /\ AnswerHasOwn(e, wire[k][e.cur], own'[k])
                  /\ k \in K /\ k \in M => e.cur # 0
                  /\ k \notin K => e = query[k]
<1>. DEFINE e == Invalidated(K, M)[k]
<1>0. query[k] \in Entry
  BY DEF CacheInv, CacheTypeOK
<1>1. CASE k \in K
  <2>1. e = [query[k] EXCEPT !.inv = TRUE, !.lap = Kept(k, k \in M)]
    BY <1>1 DEF Invalidated
  <2>2. Kept(k, k \in M) \in BOOLEAN
    BY DEF Kept
  <2>3. ASSUME NEW o, o = query[k], NEW n, n = e, NEW l, l = Kept(k, k \in M)
        PROVE  n.cur = o.cur /\ n.inv = TRUE /\ n.lap = l
    <3>1. o \in Entry /\ n = [o EXCEPT !.inv = TRUE, !.lap = l]
      BY <1>0, <2>1, <2>3, Zenon
    <3>. QED BY ONLY <3>1 DEF Entry
  <2>4. e.cur = query[k].cur /\ e.inv = TRUE /\ e.lap = Kept(k, k \in M)
    BY <2>3, Zenon
  <2>5. HasOwn(e, own'[k])
    BY <2>4 DEF HasOwn
  <2>6. ASSUME ~Replaced(k, k \in M), query[k].cur # 0 PROVE Kept(k, k \in M)
    BY <2>6 DEF Replaced, Kept, Idle
  <2>7. ASSUME ~Replaced(k, k \in M), k \in M PROVE query[k].cur # 0
    BY <2>7 DEF Replaced, Idle
  <2>8. ASSUME ~Replaced(k, k \in M), query[k].cur # 0 PROVE e.lap = TRUE
    <3>1. Kept(k, k \in M) = TRUE
      BY <2>6, <2>8, <2>2
    <3>. QED BY <3>1, <2>4
  <2>. HIDE DEF e
  <2>. QED BY <1>1, <2>4, <2>5, <2>7, <2>8 DEF AnswerHasOwn, e
<1>2. CASE k \notin K
  <2>1. e = query[k]
    BY <1>2 DEF Invalidated
  <2>. QED BY <1>2, <2>1 DEF OwnInv
<1>. QED BY <1>1, <1>2

LEMMA ServeOwn ==
  ASSUME CacheInv, OwnInv, NEW k \in Keys, NEW i \in 1..Slots, Serve(k, i)
  PROVE  OwnInv'
<1>1. \A x \in Keys, j \in 1..Slots :
        wire'[x][j] = IF x = k /\ j = i THEN [at |-> "answered", ver |-> ver[k]] ELSE wire[x][j]
  <2>1. ver[k] \in 0..MaxVer
    BY CacheAssumption DEF CacheInv, CacheTypeOK
  <2>2. [at |-> "answered", ver |-> ver[k]] \in Request
    BY <2>1, RequestTypes
  <2>. QED BY <2>2, WireExcept DEF Serve, CacheInv, CacheTypeOK
<1>. SUFFICES ASSUME NEW x \in Keys
              PROVE  AnswerHasOwn(query[x], wire'[x][query[x].cur], own[x])
  BY DEF Serve, OwnInv
<1>2. CASE query[x].cur = 0
  BY <1>2 DEF AnswerHasOwn
<1>3. CASE query[x].cur # 0
  <2>1. query[x].cur \in 1..Slots
    <3>1. query[x] \in Entry
      BY DEF CacheInv, CacheTypeOK
    <3>. QED BY <3>1, <1>3, EntryTypes, CacheAssumption
  <2>2. CASE x = k /\ query[x].cur = i
    BY <2>1, <2>2, <1>1 DEF OwnInv, AnswerHasOwn
  <2>3. CASE ~(x = k /\ query[x].cur = i)
    BY <2>1, <2>3, <1>1 DEF OwnInv
  <2>. QED BY <2>2, <2>3
<1>. QED BY <1>2, <1>3

LEMMA SettleOwn ==
  ASSUME CacheInv, OwnInv, NEW k \in Keys, NEW i \in 1..Slots, Settle(k, i)
  PROVE  /\ OwnInv'
         /\ \A x \in Keys : Served(x) => Served(x)'
<1>1. /\ \A x \in Keys \ {k} : query'[x] = query[x] /\ wire'[x] = wire[x]
      /\ query'[k] = Settled(k, i)
  BY DEF Settle, CacheInv, CacheTypeOK
<1>2. UNCHANGED <<own, ver>>
  BY DEF Settle
<1>3. ASSUME NEW x \in Keys, x # k
      PROVE  /\ HasOwn(query'[x], own[x])
             /\ AnswerHasOwn(query'[x], wire'[x][query'[x].cur], own[x])
             /\ Served(x) => Served(x)'
  <2>1. query'[x] = query[x] /\ wire'[x] = wire[x]
    BY <1>1, <1>3
  <2>. QED BY <2>1 DEF OwnInv, Served
<1>4. /\ HasOwn(query'[k], own[k])
      /\ AnswerHasOwn(query'[k], wire'[k][query'[k].cur], own[k])
      /\ Served(k) => Served(k)'
  <2>0. query[k] \in Entry
    BY DEF CacheInv, CacheTypeOK
  <2>1. CASE i # query[k].cur
    <3>1. query'[k] = query[k]
      BY <2>1, <1>1 DEF Settled
    <3>2. CASE query[k].cur = 0
      BY <3>1, <3>2 DEF AnswerHasOwn, OwnInv, Served
    <3>3. CASE query[k].cur # 0
      <4>1. query[k].cur \in 1..Slots
        BY <3>3, <2>0, EntryTypes, CacheAssumption
      <4>2. wire'[k][query[k].cur] = wire[k][query[k].cur]
        BY <2>1, <4>1 DEF Settle, CacheInv, CacheTypeOK
      <4>. QED BY <3>1, <4>2 DEF OwnInv, Served
    <3>. QED BY <3>2, <3>3
  <2>2. CASE i = query[k].cur /\ wire[k][i].at = "answered"
    <3>1. query'[k] = [NoEntry EXCEPT !.data = wire[k][i].ver, !.old = query[k].lap]
      BY <2>2, <1>1 DEF Settled
    <3>2. ASSUME NEW v, v = wire[k][i].ver, NEW l, l = query[k].lap, NEW n, n = query'[k]
          PROVE  n.data = v /\ n.old = l /\ n.inv = FALSE /\ n.cur = 0
      <4>1. n = [NoEntry EXCEPT !.data = v, !.old = l]
        BY <3>1, <3>2, Zenon
      <4>. QED BY ONLY <4>1 DEF NoEntry
    <3>3. /\ query'[k].data = wire[k][i].ver /\ query'[k].old = query[k].lap
          /\ query'[k].inv = FALSE /\ query'[k].cur = 0
      BY <3>2, Zenon
    <3>4. wire[k][i].ver # 0 /\ i # 0
      BY <2>2, CacheAssumption DEF CacheInv, CacheTypeOK, VersionsExist
    <3>. QED BY <2>2, <3>3, <3>4 DEF OwnInv, HasOwn, AnswerHasOwn, Served
  <2>3. CASE i = query[k].cur /\ wire[k][i].at # "answered"
    <3>1. query'[k] = [query[k] EXCEPT !.err = TRUE, !.inv = TRUE, !.cur = 0, !.lap = FALSE]
      BY <2>3, <1>1 DEF Settled
    <3>2. ASSUME NEW e, e = query[k], NEW n, n = query'[k]
          PROVE  n.err = TRUE /\ n.inv = TRUE /\ n.cur = 0
      <4>1. e \in Entry /\ n = [e EXCEPT !.err = TRUE, !.inv = TRUE, !.cur = 0, !.lap = FALSE]
        BY <2>0, <3>1, <3>2, Zenon
      <4>. QED BY ONLY <4>1 DEF Entry
    <3>3. query'[k].err = TRUE /\ query'[k].inv = TRUE /\ query'[k].cur = 0
      BY <3>2, Zenon
    <3>. QED BY <3>3 DEF HasOwn, AnswerHasOwn, Served
  <2>. QED BY <2>1, <2>2, <2>3
<1>. QED BY <1>2, <1>3, <1>4 DEF OwnInv

LEMMA CollectOwn ==
  ASSUME CacheInv, OwnInv, NEW k \in Keys, Collect(k)
  PROVE  /\ OwnInv'
         /\ \A x \in Keys \ {k} : Served(x) => Served(x)'
<1>1. \A x \in Keys : query'[x] = IF x = k THEN NoEntry ELSE query[x]
  BY DEF Collect, CacheInv, CacheTypeOK
<1>. QED BY <1>1, EntryTypes DEF Collect, OwnInv, HasOwn, AnswerHasOwn, Served

\* The keys of M are mounted, or see the focus.
LEMMA MountedServed ==
  ASSUME CacheInv, OwnInv, NEW M \in SUBSET Keys, NEW aged,
         Fetching(Unserved(M, aged), query), UNCHANGED <<ver, own>>
  PROVE  OwnInv' /\ \A k \in M : Served(k)'
<1>1. Unserved(M, aged) \in SUBSET Keys /\ query \in [Keys -> Entry]
  BY DEF Unserved, CacheInv, CacheTypeOK
<1>2. /\ OwnInv'
      /\ \A k \in Keys : k \notin Unserved(M, aged) => query'[k] = query[k]
      /\ \A k \in Unserved(M, aged) : query'[k].cur # 0
  BY <1>1, AsBeforeOwn, FetchingOwn
<1>3. ASSUME NEW k \in M PROVE Served(k)'
  <2>1. CASE k \in Unserved(M, aged)
    BY <2>1, <1>2 DEF Served
  <2>2. CASE k \notin Unserved(M, aged)
    <3>1. query'[k] = query[k]
      BY <2>2, <1>2
    <3>2. query[k].cur = 0 => query[k].data # 0 /\ ~query[k].inv
      BY <2>2 DEF Unserved, Idle, Invalid
    <3>3. query[k].inv \in BOOLEAN
      BY <1>1 DEF Entry
    <3>. QED BY <3>1, <3>2, <3>3 DEF Served
  <2>. QED BY <2>1, <2>2
<1>. QED BY <1>2, <1>3

\* A tab that has made no writes, and has nothing or asks for k first.
LEMMA BlankOwn == Blank /\ own = [x \in Keys |-> 0] => OwnInv
<1>. SUFFICES ASSUME Blank, own = [x \in Keys |-> 0], NEW x \in Keys
              PROVE  /\ own[x] <= ver[x]
                     /\ query[x].data = 0 /\ query[x].cur = 0
  BY DEF OwnInv, HasOwn, AnswerHasOwn
<1>1. query[x] = NoEntry /\ ver[x] \in 1..MaxVer
  BY DEF Blank, NoEntries, VersionTypes
<1>. QED BY <1>1, EntryTypes

LEMMA BeginningOwn ==
  ASSUME NEW k \in Keys
  PROVE  Beginning(k) /\ own = [x \in Keys |-> 0] => OwnInv /\ Served(k)
<1>. SUFFICES ASSUME Beginning(k), own = [x \in Keys |-> 0] PROVE OwnInv /\ Served(k)
  OBVIOUS
<1>1. \A x \in Keys : query[x].data = 0 /\ query[x].cur \in 0..Slots
  BY BeginningCache, EntryTypes DEF View, CacheInv, CacheTypeOK
<1>2. \A x \in Keys, i \in 1..Slots : wire[x][i].at # "answered"
  BY RequestTypes DEF Beginning, NoRequests
<1>3. \A x \in Keys : own[x] = 0 /\ ver[x] \in 1..MaxVer
  BY DEF Beginning, VersionTypes
<1>4. query[k].cur # 0
  <2>1. query[k] = [NoEntry EXCEPT !.cur = 1]
    BY DEF Beginning, NoEntries
  <2>2. ASSUME NEW n, n = query[k] PROVE n.cur = 1
    BY <2>1, <2>2, EntryBegun
  <2>3. query[k].cur = 1
    BY <2>2, Zenon
  <2>. QED BY <2>3
<1>. QED BY <1>1, <1>2, <1>3, <1>4, CacheAssumption DEF OwnInv, HasOwn, AnswerHasOwn, Served
=============================================================================
