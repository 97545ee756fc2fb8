---------------------------- MODULE PortalProofs ----------------------------
(***************************************************************************)
(* Proofs about Portal: its guard, the lists' replica, and that what a tab *)
(* has written is in what it shows, for any number of navigations, writes, *)
(* requests and versions.                                                  *)
(***************************************************************************)
EXTENDS Portal, CacheProofs

Zeros == [k \in Keys |-> 0]

\* The user is known on a guarded page, and once the guard lets through.
Guarding ==
  /\ page \in Guarded => View["me"] # 0
  /\ going.to # Nowhere /\ going.wait = FALSE => View["me"] # 0

PortalInv == PortalTypeOK /\ CacheInv /\ Guarding

LEMMA KeyTypes ==
  /\ "me" \in Keys /\ Mounted \subseteq Keys
  /\ \A op \in Ops \ {"logout"} : KeyOf(op) \in Keys
BY PortalAssumption DEF Mounted, TopBar, Sidebar, Ops, KeyOf

\* What a step that is not of the server's data may do to the lists.
ViewStep == \/ View' = View
            \/ \E k \in Keys, v \in 1..MaxVer :
                 v <= ver[k] /\ View[k] <= v /\ View' = [View EXCEPT ![k] = v]
            \/ \E K \in SUBSET Keys : View' = [k \in Keys |-> IF k \in K THEN 0 ELSE View[k]]

\* The steps of the abstract lists.
LEMMA ViewSteps ==
  ASSUME CacheInv, ver' = ver, ViewStep
  PROVE  [Shown!Next]_Shown!vars
<1>. USE DEF View
<1>0. View \in [Keys -> 0..MaxVer] /\ \A k \in Keys : ver[k] \in 1..MaxVer /\ View[k] <= ver[k]
  BY EntryTypes DEF CacheInv, CacheTypeOK, VersionsExist
<1>1. CASE View' = View
  BY <1>1 DEF Shown!vars
<1>2. CASE \E k \in Keys, v \in 1..MaxVer :
             v <= ver[k] /\ View[k] <= v /\ View' = [View EXCEPT ![k] = v]
  <2>1. PICK k \in Keys, v \in 1..MaxVer :
               v <= ver[k] /\ View[k] <= v /\ View' = [View EXCEPT ![k] = v]
    BY <1>2
  <2>2. v \in (IF View[k] = 0 THEN 1 ELSE View[k])..ver[k]
    BY <2>1, <1>0
  <2>3. Shown!Read(k)
    BY <2>1, <2>2 DEF Shown!Read
  <2>. QED BY <2>3 DEF Shown!Next
<1>3. CASE \E K \in SUBSET Keys : View' = [k \in Keys |-> IF k \in K THEN 0 ELSE View[k]]
  <2>1. PICK K \in SUBSET Keys : Shown!Forget(K)
    BY <1>3, <1>0 DEF Shown!Forget
  <2>. QED BY <2>1 DEF Shown!Next
<1>. QED BY <1>1, <1>2, <1>3 DEF ViewStep

\* The server changes k.
LEMMA KeyWritten ==
  ASSUME CacheInv, NEW k \in Keys, ver[k] < MaxVer, ver' = [ver EXCEPT ![k] = @ + 1],
         UNCHANGED <<query, wire, own>>
  PROVE  CacheInv' /\ View' = View /\ [Shown!Next]_Shown!vars
<1>. USE CacheAssumption
<1>1. ver' = [x \in Keys |-> IF x \in {k} THEN ver[x] + 1 ELSE ver[x]]
  BY DEF CacheInv, CacheTypeOK
<1>2. ver' \in [Keys -> 1..MaxVer] /\ \A x \in Keys : ver[x] <= ver'[x]
  BY <1>1 DEF CacheInv, CacheTypeOK
<1>3. CacheInv' /\ View' = View
  BY <1>2, VersionsAdvance
<1>4. Shown!Write({k})
  BY <1>1, <1>3 DEF Shown!Write, View
<1>. QED BY <1>3, <1>4 DEF Shown!Next

-----------------------------------------------------------------------------
\* The cache of a tab that is loaded, and of one that was logged out.
Loaded == Beginning("me") /\ own = Zeros
Cleared == Blank /\ own = Zeros
Anew == CacheInv /\ OwnInv /\ View = Zeros

LEMMA LoadedAnew == Loaded => Anew
BY KeyTypes, BeginningCache, BeginningOwn DEF Loaded, Anew, Zeros

LEMMA ClearedAnew == Cleared => Anew
BY BlankCache, BlankOwn DEF Cleared, Anew, Zeros

LEMMA AnewNext == (Loaded \/ Cleared)' => Anew'
BY LoadedAnew, ClearedAnew, PTL

LEMMA WriteTypes ==
  /\ NoWrite \in Write /\ NoWrite.ver = 0
  /\ \A a \in {"idle", "sent", "done", "failed"}, v \in 0..MaxVer : [at |-> a, ver |-> v] \in Write
BY CacheAssumption DEF NoWrite, Write

LEMMA PortalInit == Init => PortalInv /\ Anew /\ Shown!Init
<1>. SUFFICES ASSUME Init PROVE PortalInv /\ Anew /\ Shown!Init
  OBVIOUS
<1>. USE CacheAssumption, PortalAssumption
<1>1. Anew
  <2>1. Loaded
    BY DEF Init, Loaded, Beginning, VersionTypes, Zeros
  <2>. QED BY <2>1, LoadedAnew
<1>2. PortalTypeOK
  BY <1>1, WriteTypes DEF Init, Anew, CacheInv, PortalTypeOK, Pages, Guarded
<1>3. Guarding
  BY DEF Init, Guarding, Guarded
<1>4. Shown!Init
  BY <1>1 DEF Init, Shown!Init, Anew, View, Zeros
<1>. QED BY <1>1, <1>2, <1>3, <1>4 DEF PortalInv, Anew

-----------------------------------------------------------------------------
\* A step's parts.
PageTypes ==
  /\ page' \in Pages
  /\ going' \in [to : Guarded \cup {Nowhere}, wait : BOOLEAN]
  /\ write' \in [Ops -> Write]
  /\ auth' \in BOOLEAN
  /\ submits' \in 0..MaxSubmits /\ turns' \in 0..MaxTurns

StepOK == PortalInv' /\ [Shown!Next]_Shown!vars

LEMMA StepOfParts ==
  ASSUME CacheInv', [Shown!Next]_Shown!vars, PageTypes, Guarding'
  PROVE  StepOK
BY DEF StepOK, PortalInv, PortalTypeOK, CacheInv, PageTypes

LEMMA TurnTypes ==
  ASSUME PortalInv, Turn \/ UNCHANGED turns
  PROVE  turns' \in 0..MaxTurns
BY PortalAssumption DEF PortalInv, PortalTypeOK, Turn

\* The pages stay, or what is not guarded takes their place.
PageStays == (page' \in Guarded => page' = page) /\ (going' = going \/ going' = Stay)

LEMMA GuardStays ==
  ASSUME PortalInv, PageStays, View'["me"] = 0 => View["me"] = 0
  PROVE  Guarding'
BY DEF PortalInv, Guarding, PageStays, Stay

LEMMA RestStep ==
  ASSUME PortalInv, UNCHANGED cacheVars, PageTypes, PageStays
  PROVE  StepOK
<1>1. CacheInv' /\ View' = View /\ ver' = ver
  BY CacheRests DEF PortalInv, cacheVars, CacheInv, CacheTypeOK
<1>. QED BY <1>1, ViewSteps, GuardStays, StepOfParts DEF PortalInv, ViewStep

\* Only requests begin.
LEMMA FetchStep ==
  ASSUME PortalInv, NEW K \in SUBSET Keys, Fetching(K, query), UNCHANGED <<ver, own>>,
         PageTypes, View' = View => Guarding'
  PROVE  StepOK
<1>1. CacheInv' /\ View' = View
  BY FetchingKeeps DEF PortalInv, CacheInv, CacheTypeOK
<1>. QED BY <1>1, ViewSteps, StepOfParts DEF PortalInv, ViewStep

LEMMA SettleStep ==
  ASSUME PortalInv, NEW k \in Keys, NEW i \in 1..Slots, Settle(k, i), PageTypes,
         (View'["me"] = 0 => View["me"] = 0) => Guarding'
  PROVE  StepOK
<1>1. /\ CacheInv'
      /\ \/ View' = View
         \/ \E v \in 1..ver[k] : View[k] <= v /\ View' = [View EXCEPT ![k] = v]
  BY SettleKeeps DEF PortalInv
<1>2. ver[k] \in 1..MaxVer
  BY DEF PortalInv, CacheInv, CacheTypeOK
<1>3. CASE View' = View
  BY <1>1, <1>3, ViewSteps, StepOfParts DEF ViewStep, Settle, PortalInv
<1>4. CASE \E v \in 1..ver[k] : View[k] <= v /\ View' = [View EXCEPT ![k] = v]
  <2>1. PICK v \in 1..ver[k] : View[k] <= v /\ View' = [View EXCEPT ![k] = v]
    BY <1>4
  <2>2. v \in 1..MaxVer /\ v <= ver[k]
    BY <1>2, CacheAssumption
  <2>3. ViewStep
    BY <2>1, <2>2 DEF ViewStep
  <2>4. View'["me"] = 0 => View["me"] = 0
    <3>1. View = [x \in Keys |-> View[x]]
      BY DEF View
    <3>. QED BY <2>1, <2>2, <3>1, KeyTypes
  <2>. QED BY <1>1, <2>3, <2>4, ViewSteps, StepOfParts DEF Settle, PortalInv
<1>. QED BY <1>1, <1>3, <1>4

\* A navigation begins, with requests for K on entries as the cache has them.
LEMMA EnsureAuthedKeeps ==
  ASSUME PortalInv, NEW p \in Guarded, NEW K \in SUBSET Keys, NEW entries \in [Keys -> Entry],
         \A k \in Keys : entries[k].data = query[k].data /\ entries[k].cur = query[k].cur,
         EnsureAuthed(p, K, entries), ver' = ver, own' \in [Keys -> 0..MaxVer], page' = page
  PROVE  /\ CacheInv' /\ View' = View /\ Guarding'
         /\ going' \in [to : Guarded \cup {Nowhere}, wait : BOOLEAN]
<1>1. PICK asks \in BOOLEAN :
        /\ Invalid("me") => asks
        /\ Fetching(K \cup {k \in {"me"} : asks /\ Idle(k)}, entries)
        /\ going' = [to |-> p, wait |-> asks]
  BY DEF EnsureAuthed
<1>2. K \cup {k \in {"me"} : asks /\ Idle(k)} \in SUBSET Keys
  BY KeyTypes
<1>3. CacheInv' /\ View' = View
  BY <1>1, <1>2, FetchingKeeps DEF PortalInv
<1>4. ASSUME asks = FALSE PROVE View["me"] # 0
  <2>1. ~Invalid("me")
    BY <1>1, <1>4
  <2>. QED BY <2>1, KeyTypes DEF Invalid, View
<1>5. Guarding'
  <2>1. going'.to = p /\ going'.wait = asks
    BY <1>1
  <2>. QED BY <2>1, <1>3, <1>4 DEF PortalInv, Guarding
<1>. QED BY <1>1, <1>3, <1>5

\* A tab begins anew on a page that is not guarded.
LEMMA AnewStep ==
  ASSUME PortalInv, Anew', ver' = ver, PageTypes, Guarding'
  PROVE  StepOK
<1>1. View' = [k \in Keys |-> IF k \in Keys THEN 0 ELSE View[k]]
  BY DEF Anew, Zeros
<1>. QED BY <1>1, ViewSteps, StepOfParts DEF PortalInv, Anew, ViewStep

LEMMA LoadingAnew ==
  ASSUME PortalInv, NEW p \in Guarded, Loading(p)
  PROVE  /\ Anew' /\ ver' = ver /\ Guarding' /\ page' = "none"
         /\ going' \in [to : Guarded \cup {Nowhere}, wait : BOOLEAN]
         /\ write' = [op \in Ops |-> NoWrite]
<1>1. Loaded'
  BY CacheAssumption DEF Loading, Loaded, Beginning, VersionTypes, Zeros, PortalInv, CacheInv, CacheTypeOK
<1>. QED BY <1>1, AnewNext DEF Loading, Guarding, Guarded

-----------------------------------------------------------------------------
(* Every step keeps the invariant and is a step of the abstract lists.     *)
LEMMA NavigateStep ==
  ASSUME PortalInv, NEW p \in Guarded, Navigate(p)
  PROVE  StepOK
<1>1. query \in [Keys -> Entry] /\ own \in [Keys -> 0..MaxVer]
  BY DEF PortalInv, CacheInv, CacheTypeOK
<1>2. /\ CacheInv' /\ View' = View /\ Guarding'
      /\ going' \in [to : Guarded \cup {Nowhere}, wait : BOOLEAN]
  BY <1>1, EnsureAuthedKeeps DEF Navigate
<1>3. PageTypes
  BY <1>2, TurnTypes DEF Navigate, PageTypes, PortalInv, PortalTypeOK
<1>. QED BY <1>2, <1>3, ViewSteps, StepOfParts DEF Navigate, PortalInv, ViewStep

LEMMA EnterStep == ASSUME PortalInv, Enter PROVE StepOK
<1>1. PICK K \in SUBSET Keys : Fetching(K, query)
  <2>1. CASE going.to = page
    BY <2>1 DEF Enter
  <2>2. CASE going.to # page
    <3>1. PICK aged \in SUBSET Keys : Fetching(Unserved(Keys, aged), query)
      BY <2>2 DEF Enter
    <3>2. Unserved(Keys, aged) \in SUBSET Keys
      BY DEF Unserved
    <3>. QED BY <3>1, <3>2
  <2>. QED BY <2>1, <2>2
<1>2. going.to \in Guarded /\ View["me"] # 0
  <2>1. going.to \in Guarded \cup {Nowhere} /\ going.wait \in BOOLEAN
    BY DEF PortalInv, PortalTypeOK
  <2>. QED BY <2>1 DEF Enter, PortalInv, Guarding
<1>3. PageTypes
  BY <1>2 DEF Enter, PageTypes, PortalInv, PortalTypeOK, Pages, Stay
<1>4. View' = View => Guarding'
  BY <1>2 DEF Enter, Guarding, Stay
<1>. QED BY <1>1, <1>3, <1>4, FetchStep DEF Enter

LEMMA ArriveStep ==
  ASSUME PortalInv, NEW k \in Keys, NEW i \in 1..Slots, Arrive(k, i)
  PROVE  StepOK
<1>1. PageTypes
  BY DEF Arrive, PageTypes, PortalInv, PortalTypeOK
<1>2. UNCHANGED page
  BY DEF Arrive
<1>3. CASE Awaited(k, i)
  <2>1. query'["me"] = [NoEntry EXCEPT !.data = wire[k][i].ver, !.old = query[k].lap]
    BY <1>3, KeyTypes DEF Awaited, Arrive, Settle, Settled, PortalInv, CacheInv, CacheTypeOK
  <2>2. ASSUME NEW v, v = wire[k][i].ver, NEW n, n = query'["me"] PROVE n.data = v
    <3>1. n = [NoEntry EXCEPT !.data = v, !.old = query[k].lap]
      BY <2>1, <2>2, Zenon
    <3>. QED BY ONLY <3>1 DEF NoEntry
  <2>3. query'["me"].data = wire[k][i].ver
    BY <2>2, Zenon
  <2>4. wire[k][i].ver \in 1..ver[k]
    BY DEF Arrive, PortalInv, CacheInv, VersionsExist
  <2>5. View'["me"] # 0
    BY <2>3, <2>4, KeyTypes DEF View
  <2>6. Guarding'
    BY <2>5 DEF Guarding
  <2>. QED BY <1>1, <2>6, SettleStep DEF Arrive
<1>4. CASE ~Awaited(k, i)
  <2>1. PageStays
    BY <1>2, <1>4 DEF Arrive, PageStays
  <2>. QED BY <1>1, <2>1, GuardStays, SettleStep DEF Arrive
<1>. QED BY <1>3, <1>4

LEMMA FailStep ==
  ASSUME PortalInv, NEW k \in Keys, NEW i \in 1..Slots, Deny(k, i) \/ Break(k, i)
  PROVE  StepOK
<1>1. PICK refuge \in {"login", "error"} : Fail(k, i, refuge)
  BY DEF Deny, Break
<1>2. PageTypes
  <2>1. turns' \in 0..MaxTurns
    BY TurnTypes DEF Deny, Break
  <2>2. page' \in Pages /\ going' \in [to : Guarded \cup {Nowhere}, wait : BOOLEAN]
    <3>1. (page' = refuge /\ going' = Stay) \/ UNCHANGED <<page, going>>
      BY <1>1 DEF Fail
    <3>2. Stay \in [to : Guarded \cup {Nowhere}, wait : BOOLEAN] /\ refuge \in Pages
      BY DEF Stay, Pages
    <3>. QED BY <3>1, <3>2 DEF PortalInv, PortalTypeOK
  <2>3. UNCHANGED <<write, auth, submits>>
    BY <1>1 DEF Fail
  <2>. QED BY <2>1, <2>2, <2>3 DEF PageTypes, PortalInv, PortalTypeOK
<1>3. PageStays
  BY <1>1 DEF Fail, PageStays, Guarded
<1>. QED BY <1>1, <1>2, <1>3, GuardStays, SettleStep DEF Fail

\* The submission of a write, whichever it is.
LEMMA SubmitStep ==
  ASSUME PortalInv, NEW op \in Ops, Submit(op)
  PROVE  StepOK
<1>1. [write[op] EXCEPT !.at = "sent"] \in Write
  BY DEF PortalInv, PortalTypeOK, Write
<1>2. PageTypes
  BY <1>1, PortalAssumption DEF Submit, PageTypes, PortalInv, PortalTypeOK
<1>. QED BY <1>2, RestStep DEF Submit, PageStays

LEMMA ApplyStep ==
  ASSUME PortalInv, NEW op \in Ops, Apply(op)
  PROVE  StepOK
<1>1. PageStays /\ UNCHANGED <<query, wire, own>>
  BY DEF Apply, PageStays
<1>2. \A a \in {"done", "failed"} : [write[op] EXCEPT !.at = a] \in Write
  BY DEF PortalInv, PortalTypeOK, Write
<1>3. CASE UNCHANGED ver
  <2>1. write' \in [Ops -> Write]
    <3>1. CASE op = "logout" \/ write' = [write EXCEPT ![op].at = "failed"]
      <4>1. PICK a \in {"done", "failed"} : write' = [write EXCEPT ![op].at = a]
        BY <3>1 DEF Apply
      <4>. QED BY <1>2, <4>1 DEF PortalInv, PortalTypeOK
    <3>2. CASE op # "logout" /\ write' # [write EXCEPT ![op].at = "failed"]
      <4>1. KeyOf(op) \in Keys /\ ver' = [ver EXCEPT ![KeyOf(op)] = @ + 1]
        BY <3>2, KeyTypes DEF Apply
      <4>2. ver[KeyOf(op)] \in Nat /\ ver'[KeyOf(op)] = ver[KeyOf(op)] + 1
        BY <4>1 DEF PortalInv, CacheInv, CacheTypeOK
      <4>. QED BY <1>3, <4>2
    <3>. QED BY <3>1, <3>2
  <2>2. PageTypes
    BY <2>1, TurnTypes DEF Apply, PageTypes, PortalInv, PortalTypeOK
  <2>. QED BY <1>1, <1>3, <2>2, RestStep DEF cacheVars
<1>4. CASE ~UNCHANGED ver
  <2>1. /\ op # "logout" /\ ver[KeyOf(op)] < MaxVer
        /\ ver' = [ver EXCEPT ![KeyOf(op)] = @ + 1]
        /\ write' = [write EXCEPT ![op] = [at |-> "done", ver |-> ver[KeyOf(op)] + 1]]
        /\ UNCHANGED auth /\ UNCHANGED turns
    BY <1>4 DEF Apply
  <2>2. KeyOf(op) \in Keys
    BY <2>1, KeyTypes
  <2>3. CacheInv' /\ View' = View /\ [Shown!Next]_Shown!vars
    BY <1>1, <2>1, <2>2, KeyWritten DEF PortalInv
  <2>4. [at |-> "done", ver |-> ver[KeyOf(op)] + 1] \in Write
    BY <2>1, <2>2, WriteTypes, CacheAssumption DEF PortalInv, CacheInv, CacheTypeOK
  <2>5. PageTypes
    BY <2>1, <2>4 DEF Apply, PageTypes, PortalInv, PortalTypeOK
  <2>. QED BY <1>1, <2>3, <2>5, GuardStays, StepOfParts
<1>. QED BY <1>3, <1>4

LEMMA DoneStep ==
  ASSUME PortalInv, NEW op \in Ops \ {"logout"}, NEW to \in Guarded \cup {Nowhere}, Done(op, to)
  PROVE  StepOK
<1>. DEFINE entries == Invalidated({KeyOf(op)}, Mounted)
            K == {k \in {KeyOf(op)} : Replaced(k, k \in Mounted)}
<1>1. K \in SUBSET Keys
  BY KeyTypes
<1>2. /\ entries \in [Keys -> Entry]
      /\ \A k \in Keys : entries[k].data = query[k].data /\ entries[k].cur = query[k].cur
  BY InvalidatedEntries DEF PortalInv
<1>3. own' \in [Keys -> 0..MaxVer] /\ UNCHANGED <<ver, page, auth, submits, turns>>
  <2>1. write[op].ver \in 0..MaxVer /\ own \in [Keys -> 0..MaxVer]
    BY DEF PortalInv, PortalTypeOK, CacheTypeOK, Write
  <2>2. own[KeyOf(op)] \in 0..MaxVer
    BY <2>1, KeyTypes
  <2>. QED BY <2>1, <2>2 DEF Done, Told
<1>4. write' \in [Ops -> Write]
  BY WriteTypes DEF Done, Told, PortalInv, PortalTypeOK
<1>5. /\ CacheInv' /\ View' = View /\ Guarding'
      /\ going' \in [to : Guarded \cup {Nowhere}, wait : BOOLEAN]
  <2>1. CASE to = Nowhere
    <3>1. Fetching(K, entries) /\ UNCHANGED going
      BY <2>1 DEF Done
    <3>2. CacheInv' /\ View' = View
      <4>. HIDE DEF K, entries
      <4>. QED BY <1>1, <1>2, <1>3, <3>1, FetchingKeeps DEF PortalInv
    <3>. QED BY <1>3, <3>1, <3>2 DEF PortalInv, PortalTypeOK, Guarding
  <2>2. CASE to # Nowhere
    <3>1. EnsureAuthed(to, K, entries) /\ to \in Guarded
      BY <2>2 DEF Done
    <3>. HIDE DEF K, entries
    <3>. QED BY <1>1, <1>2, <1>3, <3>1, EnsureAuthedKeeps
  <2>. QED BY <2>1, <2>2
<1>6. PageTypes
  BY <1>3, <1>4, <1>5 DEF PageTypes, PortalInv, PortalTypeOK
<1>. QED BY <1>3, <1>5, <1>6, ViewSteps, StepOfParts DEF PortalInv, ViewStep

LEMMA LoadStep ==
  ASSUME PortalInv, NEW p \in Guarded, Reload(p) \/ (LogIn /\ p = "index")
  PROVE  StepOK
<1>1. Loading(p) /\ Turn /\ auth' \in BOOLEAN /\ UNCHANGED submits
  BY DEF Reload, LogIn, PortalInv, PortalTypeOK
<1>2. /\ Anew' /\ ver' = ver /\ Guarding' /\ page' = "none"
      /\ going' \in [to : Guarded \cup {Nowhere}, wait : BOOLEAN]
      /\ write' = [op \in Ops |-> NoWrite]
  BY <1>1, LoadingAnew
<1>3. PageTypes
  BY <1>1, <1>2, WriteTypes, TurnTypes DEF PageTypes, Pages, PortalInv, PortalTypeOK
<1>. QED BY <1>2, <1>3, AnewStep

LEMMA LoggedOutStep == ASSUME PortalInv, LoggedOut PROVE StepOK
<1>1. Cleared'
  BY CacheAssumption
  DEF LoggedOut, Cleared, Blank, VersionTypes, Zeros, PortalInv, CacheInv, CacheTypeOK
<1>2. PageTypes /\ Guarding'
  BY WriteTypes DEF LoggedOut, PageTypes, Pages, Guarded, Stay, Guarding, PortalInv, PortalTypeOK
<1>. QED BY <1>1, <1>2, AnewNext, AnewStep DEF LoggedOut

LEMMA PortalStep == PortalInv /\ [Next]_vars => StepOK
<1>. SUFFICES ASSUME PortalInv, [Next]_vars PROVE StepOK
  OBVIOUS
<1>1. CASE ToIndex \/ ToPair \/ ToSession \/ ToSettings \/ ToTranscripts
  BY <1>1, NavigateStep DEF ToIndex, ToPair, ToSession, ToSettings, ToTranscripts, Guarded
<1>2. CASE \/ CreateSession \/ DeleteWrapper \/ ResumeTranscript \/ CloseSession
           \/ RedeemPair \/ UpdateSettings \/ Logout
  BY <1>2, SubmitStep
  DEF CreateSession, DeleteWrapper, ResumeTranscript, CloseSession, RedeemPair, UpdateSettings,
      Logout, Ops
<1>3. CASE \/ SessionCreated \/ SessionResumed \/ SessionClosed
           \/ PairRedeemed \/ WrapperDeleted \/ SettingsUpdated
  BY <1>3, DoneStep
  DEF SessionCreated, SessionResumed, SessionClosed, PairRedeemed, WrapperDeleted,
      SettingsUpdated, Ops, Guarded
<1>4. ASSUME NEW op \in Ops, Failed(op) PROVE StepOK
  <2>1. PageTypes
    BY <1>4, WriteTypes DEF Failed, PageTypes, PortalInv, PortalTypeOK
  <2>. QED BY <1>4, <2>1, RestStep DEF Failed, PageStays
<1>5. ASSUME NEW k \in Keys, NEW i \in 1..Slots, Answer(k, i) PROVE StepOK
  <2>1. PageTypes /\ PageStays
    BY <1>5 DEF Answer, PageTypes, PageStays, PortalInv, PortalTypeOK
  <2>2. CacheInv' /\ View' = View /\ ver' = ver
    BY <1>5, ServeKeeps DEF Answer, Serve, PortalInv
  <2>. QED BY <2>1, <2>2, GuardStays, ViewSteps, StepOfParts DEF PortalInv, ViewStep
<1>6. ASSUME NEW k \in Keys, Poll(k) PROVE StepOK
  <2>1. PageTypes /\ PageStays
    BY <1>6 DEF Poll, PageTypes, PageStays, PortalInv, PortalTypeOK
  <2>. QED BY <1>6, <2>1, GuardStays, FetchStep DEF Poll, Refetch
<1>7. ASSUME NEW aged \in SUBSET Keys, Focus(aged) PROVE StepOK
  <2>1. PageTypes /\ PageStays
    BY <1>7, TurnTypes DEF Focus, PageTypes, PageStays, PortalInv, PortalTypeOK
  <2>2. Unserved(Mounted, aged) \in SUBSET Keys
    BY KeyTypes DEF Unserved
  <2>. QED BY <1>7, <2>1, <2>2, GuardStays, FetchStep DEF Focus
<1>8. ASSUME NEW k \in Keys, Forget(k) PROVE StepOK
  <2>1. PageTypes /\ UNCHANGED <<page, going, ver>>
    BY <1>8 DEF Forget, Collect, PageTypes, PortalInv, PortalTypeOK
  <2>2. CacheInv' /\ View' = [View EXCEPT ![k] = 0]
    BY <1>8, CollectKeeps DEF Forget, PortalInv
  <2>3. View' = [x \in Keys |-> IF x \in {k} THEN 0 ELSE View[x]]
    BY <2>2 DEF View
  <2>4. Guarding'
    <3>1. CASE k = "me"
      <4>1. page \notin Guarded
        BY <1>8, <3>1 DEF Forget, Mounted, TopBar
      <4>. QED BY <1>8, <2>1, <4>1 DEF Forget, Guarding, Stay
    <3>2. CASE k # "me"
      <4>1. View'["me"] = View["me"]
        BY <2>3, <3>2, KeyTypes
      <4>. QED BY <2>1, <4>1 DEF PortalInv, Guarding
    <3>. QED BY <3>1, <3>2
  <2>. QED BY <2>1, <2>2, <2>3, <2>4, ViewSteps, StepOfParts DEF PortalInv, ViewStep
<1>9. ASSUME NEW k \in Keys, Others(k) PROVE StepOK
  <2>1. PageTypes /\ PageStays
    BY <1>9, TurnTypes DEF Others, PageTypes, PageStays, PortalInv, PortalTypeOK
  <2>2. CacheInv' /\ View' = View /\ [Shown!Next]_Shown!vars
    BY <1>9, KeyWritten DEF Others, Change, PortalInv
  <2>. QED BY <2>1, <2>2, GuardStays, StepOfParts
<1>10. CASE Expire \/ Toasting \/ UNCHANGED vars
  <2>1. PageTypes /\ PageStays
    BY <1>10, TurnTypes DEF Expire, Toasting, vars, PageTypes, PageStays, PortalInv, PortalTypeOK
  <2>. QED BY <1>10, <2>1, RestStep DEF Expire, Toasting, vars
<1>11. CASE Enter BY <1>11, EnterStep
<1>12. CASE LoggedOut BY <1>12, LoggedOutStep
<1>13. CASE LogIn \/ \E p \in Guarded : Reload(p)
  BY <1>13, LoadStep DEF Guarded
<1>14. ASSUME NEW op \in Ops, Apply(op) PROVE StepOK
  BY <1>14, ApplyStep
<1>15. ASSUME NEW k \in Keys, NEW i \in 1..Slots, Arrive(k, i) \/ Deny(k, i) \/ Break(k, i)
       PROVE  StepOK
  BY <1>15, ArriveStep, FailStep
<1>. QED
  BY <1>1, <1>2, <1>3, <1>4, <1>5, <1>6, <1>7, <1>8, <1>9, <1>10, <1>11, <1>12, <1>13, <1>14, <1>15
  DEF Next

-----------------------------------------------------------------------------
(* The types of the pages, their writes and their cache.                   *)
THEOREM PortalTyped == Spec => []PortalTypeOK
<1>1. Init => PortalInv
  BY PortalInit
<1>2. PortalInv /\ [Next]_vars => PortalInv'
  BY PortalStep DEF StepOK
<1>3. PortalInv => PortalTypeOK
  BY DEF PortalInv
<1>. QED BY <1>1, <1>2, <1>3, PTL DEF Spec

(* No guarded page is rendered before the server has confirmed the user to *)
(* this tab, whichever navigations supersede each other (routes, their     *)
(* beforeLoad).                                                            *)
THEOREM PagesAreGuarded == Spec => []GuardHolds
<1>1. Init => PortalInv
  BY PortalInit
<1>2. PortalInv /\ [Next]_vars => PortalInv'
  BY PortalStep DEF StepOK
<1>3. PortalInv => GuardHolds
  BY KeyTypes DEF PortalInv, Guarding, GuardHolds, View
<1>. QED BY <1>1, <1>2, <1>3, PTL DEF Spec

(* The portal implements the abstract lists: what it shows is a version    *)
(* the server had, and never goes back to an earlier one.                  *)
THEOREM ReadsNeverGoBack == Spec => ReadsAdvance
<1>1. Init => PortalInv /\ Shown!Init
  BY PortalInit
<1>2. PortalInv /\ [Next]_vars => PortalInv' /\ [Shown!Next]_Shown!vars
  BY PortalStep DEF StepOK
<1>. QED BY <1>1, <1>2, PTL DEF Spec, ReadsAdvance, Shown!Spec

-----------------------------------------------------------------------------
\* No write is of a version that the server has not made, and a list that is
\* shown awaits an answer if it holds nothing valid.
WritesMade == \A op \in Ops \ {"logout"} : write[op].ver <= ver[KeyOf(op)]

ShowInv == OwnInv /\ WritesMade /\ \A k \in Mounted : Served(k)

LEMMA RestShows ==
  ASSUME ShowInv, UNCHANGED cacheVars, WritesMade', page' \in Guarded => page \in Guarded
  PROVE  ShowInv'
BY DEF ShowInv, OwnInv, HasOwn, AnswerHasOwn, Served, Mounted, cacheVars

LEMMA SameWrites == ASSUME WritesMade, UNCHANGED <<write, ver>> PROVE WritesMade'
BY DEF WritesMade

\* A write is replaced by w, which is of nothing, or of what it was of.
LEMMA WriteReplaced ==
  ASSUME PortalInv, WritesMade, UNCHANGED ver, NEW op \in Ops, NEW w,
         w.ver = 0 \/ w.ver = write[op].ver, write' = [write EXCEPT ![op] = w]
  PROVE  WritesMade'
<1>. SUFFICES ASSUME NEW x \in Ops \ {"logout"} PROVE write'[x].ver <= ver[KeyOf(x)]
  BY DEF WritesMade
<1>1. write'[x].ver \in {0, write[x].ver}
  BY DEF PortalInv, PortalTypeOK
<1>2. write[x].ver <= ver[KeyOf(x)]
  BY DEF WritesMade
<1>3. ver[KeyOf(x)] \in 1..MaxVer
  BY KeyTypes DEF PortalInv, CacheInv, CacheTypeOK
<1>. QED BY <1>1, <1>2, <1>3, CacheAssumption

\* The server's versions move on.
LEMMA WritesStand ==
  ASSUME PortalInv, WritesMade, UNCHANGED write, ver' \in [Keys -> 1..MaxVer],
         \A k \in Keys : ver[k] <= ver'[k]
  PROVE  WritesMade'
<1>. SUFFICES ASSUME NEW x \in Ops \ {"logout"} PROVE write[x].ver <= ver'[KeyOf(x)]
  BY DEF WritesMade
<1>1. KeyOf(x) \in Keys /\ write[x].ver \in 0..MaxVer
  BY KeyTypes DEF PortalInv, PortalTypeOK, Write
<1>2. write[x].ver <= ver[KeyOf(x)] /\ ver[KeyOf(x)] <= ver'[KeyOf(x)]
  BY <1>1 DEF WritesMade
<1>3. ver[KeyOf(x)] \in 1..MaxVer /\ ver'[KeyOf(x)] \in 1..MaxVer
  BY <1>1 DEF PortalInv, CacheInv, CacheTypeOK
<1>. QED BY <1>1, <1>2, <1>3

LEMMA ChangedOwn ==
  ASSUME PortalInv, OwnInv, UNCHANGED <<query, wire, own>>, ver' \in [Keys -> 1..MaxVer],
         \A k \in Keys : ver[k] <= ver'[k]
  PROVE  OwnInv'
<1>1. ASSUME NEW k \in Keys PROVE own[k] <= ver'[k]
  <2>1. own[k] \in 0..MaxVer /\ own[k] <= ver[k] /\ ver[k] \in 1..MaxVer
    BY DEF OwnInv, PortalInv, CacheInv, CacheTypeOK
  <2>2. ver'[k] \in 1..MaxVer /\ ver[k] <= ver'[k]
    OBVIOUS
  <2>. QED BY <2>1, <2>2
<1>. QED BY <1>1 DEF OwnInv

LEMMA SettleShows ==
  ASSUME PortalInv, ShowInv, NEW k \in Keys, NEW i \in 1..Slots, Settle(k, i), UNCHANGED write,
         page' \in Guarded => page \in Guarded
  PROVE  ShowInv'
<1>1. OwnInv' /\ \A x \in Keys : Served(x) => Served(x)'
  BY SettleOwn DEF PortalInv, ShowInv
<1>2. WritesMade'
  BY SameWrites DEF Settle, ShowInv
<1>3. Mounted' \subseteq Mounted
  BY DEF Mounted
<1>. QED BY <1>1, <1>2, <1>3, KeyTypes DEF ShowInv

\* A fetch begins for K and, with a navigation, for the user; what is mounted
\* and not valid is among them.
LEMMA EnsureAuthedShows ==
  ASSUME PortalInv, NEW p, NEW K \in SUBSET Keys, NEW entries \in [Keys -> Entry],
         Fetching(K, entries) \/ EnsureAuthed(p, K, entries), UNCHANGED <<ver, page>>, WritesMade',
         \A k \in Keys :
           /\ own'[k] <= ver[k]
           /\ HasOwn(entries[k], own'[k])
           /\ k \notin K =>
                /\ AnswerHasOwn(entries[k], wire[k][entries[k].cur], own'[k])
                /\ k \in Mounted => entries[k].cur # 0 \/ (entries[k] = query[k] /\ Served(k))
  PROVE  ShowInv'
<1>1. PICK F \in SUBSET Keys : K \subseteq F /\ Fetching(F, entries)
  <2>1. CASE Fetching(K, entries)
    BY <2>1
  <2>2. CASE EnsureAuthed(p, K, entries)
    <3>1. PICK asks \in BOOLEAN : Fetching(K \cup {k \in {"me"} : asks /\ Idle(k)}, entries)
      BY <2>2 DEF EnsureAuthed
    <3>. QED BY <3>1, KeyTypes
  <2>. QED BY <2>1, <2>2
<1>2. /\ OwnInv'
      /\ \A k \in Keys : k \notin F => query'[k] = entries[k]
      /\ \A k \in F : query'[k].cur # 0
  BY <1>1, FetchingOwn DEF PortalInv
<1>3. Mounted' = Mounted
  BY DEF Mounted
<1>4. ASSUME NEW k \in Mounted PROVE Served(k)'
  <2>1. CASE k \in F
    BY <2>1, <1>2 DEF Served
  <2>2. CASE k \notin F
    <3>1. query'[k] = entries[k] /\ k \notin K /\ k \in Keys
      BY <2>2, <1>1, <1>2, KeyTypes
    <3>. QED BY <3>1 DEF Served
  <2>. QED BY <2>1, <2>2
<1>. QED BY <1>2, <1>3, <1>4 DEF ShowInv

\* What is mounted, or sees the focus.
LEMMA MountShows ==
  ASSUME PortalInv, ShowInv, NEW aged, Fetching(Unserved(Keys, aged), query),
         UNCHANGED <<ver, own, write>>
  PROVE  ShowInv'
<1>1. OwnInv' /\ \A k \in Keys : Served(k)'
  BY MountedServed DEF PortalInv, ShowInv
<1>2. WritesMade' /\ Mounted' \subseteq Keys
  BY SameWrites, PortalAssumption DEF ShowInv, Mounted, TopBar, Sidebar
<1>. QED BY <1>1, <1>2 DEF ShowInv

LEMMA AnewShows ==
  ASSUME Anew', page' \notin Guarded, write' = [op \in Ops |-> NoWrite]
  PROVE  ShowInv'
<1>1. \A op \in Ops \ {"logout"} : write'[op].ver = 0 /\ ver'[KeyOf(op)] \in 1..MaxVer
  BY WriteTypes, KeyTypes DEF Anew, CacheInv, CacheTypeOK
<1>2. WritesMade' /\ Mounted' = {}
  BY <1>1, CacheAssumption DEF WritesMade, Mounted
<1>. QED BY <1>2 DEF ShowInv, Anew

LEMMA ApplyShows ==
  ASSUME PortalInv, ShowInv, NEW op \in Ops, Apply(op)
  PROVE  ShowInv'
<1>1. UNCHANGED <<query, wire, own, page>>
  BY DEF Apply
<1>2. CASE UNCHANGED ver /\ \E a \in {"done", "failed"} : write' = [write EXCEPT ![op].at = a]
  <2>1. PICK a \in {"done", "failed"} : write' = [write EXCEPT ![op].at = a]
    BY <1>2
  <2>2. [write[op] EXCEPT !.at = a].ver = write[op].ver
    BY DEF PortalInv, PortalTypeOK, Write
  <2>3. WritesMade'
    BY <1>2, <2>1, <2>2, WriteReplaced DEF ShowInv
  <2>. QED BY <1>1, <1>2, <2>3, RestShows DEF cacheVars
<1>3. CASE /\ op # "logout" /\ ver[KeyOf(op)] < MaxVer
           /\ ver' = [ver EXCEPT ![KeyOf(op)] = @ + 1]
           /\ write' = [write EXCEPT ![op] = [at |-> "done", ver |-> ver[KeyOf(op)] + 1]]
  <2>0. KeyOf(op) \in Keys
    BY <1>3, KeyTypes
  <2>1. ver' \in [Keys -> 1..MaxVer] /\ \A k \in Keys : ver[k] <= ver'[k]
    BY <1>3, <2>0, CacheAssumption DEF PortalInv, CacheInv, CacheTypeOK
  <2>2. OwnInv'
    BY <1>1, <2>1, ChangedOwn DEF ShowInv
  <2>3. ASSUME NEW x \in Ops \ {"logout"} PROVE write'[x].ver <= ver'[KeyOf(x)]
    <3>1. CASE x = op
      <4>1. write'[x].ver = ver[KeyOf(op)] + 1
        BY <1>3, <3>1 DEF PortalInv, PortalTypeOK
      <4>2. ver'[KeyOf(x)] = ver[KeyOf(op)] + 1 /\ ver[KeyOf(op)] \in 1..MaxVer
        BY <1>3, <2>0, <3>1 DEF PortalInv, CacheInv, CacheTypeOK
      <4>. QED BY <4>1, <4>2
    <3>2. CASE x # op
      <4>1. write'[x] = write[x] /\ write[x].ver \in 0..MaxVer
        BY <1>3, <3>2 DEF PortalInv, PortalTypeOK, Write
      <4>2. write[x].ver <= ver[KeyOf(x)] /\ ver[KeyOf(x)] <= ver'[KeyOf(x)]
        BY <2>1, KeyTypes DEF ShowInv, WritesMade
      <4>3. ver[KeyOf(x)] \in 1..MaxVer /\ ver'[KeyOf(x)] \in 1..MaxVer
        BY <2>1, KeyTypes DEF PortalInv, CacheInv, CacheTypeOK
      <4>. QED BY <4>1, <4>2, <4>3
    <3>. QED BY <3>1, <3>2
  <2>4. WritesMade'
    BY <2>3 DEF WritesMade
  <2>. QED BY <1>1, <2>2, <2>4 DEF ShowInv, Mounted, Served
<1>. QED BY <1>2, <1>3 DEF Apply

LEMMA DoneShows ==
  ASSUME PortalInv, ShowInv, NEW op \in Ops \ {"logout"}, NEW to, Done(op, to)
  PROVE  ShowInv'
<1>. DEFINE entries == Invalidated({KeyOf(op)}, Mounted)
            K == {k \in {KeyOf(op)} : Replaced(k, k \in Mounted)}
<1>1. K \in SUBSET Keys /\ entries \in [Keys -> Entry]
  BY KeyTypes, InvalidatedEntries DEF PortalInv
<1>2. UNCHANGED <<ver, page>>
  BY DEF Done, Told
<1>3. WritesMade'
  BY WriteTypes, WriteReplaced DEF Done, Told, ShowInv
<1>4. \A k \in Keys : own'[k] <= ver[k] /\ (k # KeyOf(op) => own'[k] = own[k])
  <2>1. write[op].ver <= ver[KeyOf(op)] /\ \A k \in Keys : own[k] <= ver[k]
    BY DEF ShowInv, WritesMade, OwnInv
  <2>2. own' = [own EXCEPT ![KeyOf(op)] = IF @ < write[op].ver THEN write[op].ver ELSE @]
    BY DEF Done, Told
  <2>3. own \in [Keys -> 0..MaxVer]
    BY DEF PortalInv, CacheInv, CacheTypeOK
  <2>. QED BY <2>1, <2>2, <2>3
<1>5. ASSUME NEW k \in Keys
      PROVE  /\ HasOwn(entries[k], own'[k])
             /\ k \notin K =>
                  /\ AnswerHasOwn(entries[k], wire[k][entries[k].cur], own'[k])
                  /\ k \in Mounted => entries[k].cur # 0 \/ (entries[k] = query[k] /\ Served(k))
  <2>1. /\ HasOwn(entries[k], own'[k])
        /\ ~(k \in {KeyOf(op)} /\ Replaced(k, k \in Mounted)) =>
             /\ AnswerHasOwn(entries[k], wire[k][entries[k].cur], own'[k])
             /\ k \in {KeyOf(op)} /\ k \in Mounted => entries[k].cur # 0
             /\ k \notin {KeyOf(op)} => entries[k] = query[k]
    BY <1>4, InvalidatedOwn DEF PortalInv, ShowInv
  <2>2. k \notin K => ~(k \in {KeyOf(op)} /\ Replaced(k, k \in Mounted))
    OBVIOUS
  <2>3. k \in Mounted => Served(k)
    BY DEF ShowInv
  <2>. HIDE DEF entries, K
  <2>. QED BY <2>1, <2>2, <2>3
<1>6. Fetching(K, entries) \/ EnsureAuthed(to, K, entries)
  BY DEF Done
<1>. HIDE DEF entries, K
<1>. QED BY <1>1, <1>2, <1>3, <1>4, <1>5, <1>6, EnsureAuthedShows

\* Requests begin on the entries as they are.
LEMMA FetchShows ==
  ASSUME PortalInv, ShowInv, NEW p, NEW K \in SUBSET Keys,
         Fetching(K, query) \/ EnsureAuthed(p, K, query), UNCHANGED <<ver, own, page, write>>
  PROVE  ShowInv'
<1>1. query \in [Keys -> Entry]
  BY DEF PortalInv, CacheInv, CacheTypeOK
<1>2. WritesMade'
  BY SameWrites DEF ShowInv
<1>3. \A k \in Keys :
        /\ own'[k] <= ver[k]
        /\ HasOwn(query[k], own'[k])
        /\ AnswerHasOwn(query[k], wire[k][query[k].cur], own'[k])
  BY AsBeforeOwn DEF ShowInv
<1>4. \A k \in Mounted : Served(k)
  BY DEF ShowInv
<1>. QED BY <1>1, <1>2, <1>3, <1>4, EnsureAuthedShows

LEMMA ShowStep == PortalInv /\ ShowInv /\ [Next]_vars => ShowInv'
<1>. SUFFICES ASSUME PortalInv, ShowInv, [Next]_vars PROVE ShowInv'
  OBVIOUS
<1>0. CacheInv /\ OwnInv /\ WritesMade
  BY DEF PortalInv, ShowInv
<1>1. CASE ToIndex \/ ToPair \/ ToSession \/ ToSettings \/ ToTranscripts
  <2>1. PICK p \in Guarded : Navigate(p)
    BY <1>1 DEF ToIndex, ToPair, ToSession, ToSettings, ToTranscripts, Guarded
  <2>. QED BY <2>1, FetchShows DEF Navigate
<1>2. CASE \/ CreateSession \/ DeleteWrapper \/ ResumeTranscript \/ CloseSession
           \/ RedeemPair \/ UpdateSettings \/ Logout
  <2>1. PICK op \in Ops : Submit(op)
    BY <1>2
    DEF CreateSession, DeleteWrapper, ResumeTranscript, CloseSession, RedeemPair, UpdateSettings,
        Logout, Ops
  <2>2. [write[op] EXCEPT !.at = "sent"].ver = write[op].ver
    BY DEF PortalInv, PortalTypeOK, Write
  <2>3. WritesMade'
    BY <1>0, <2>1, <2>2, WriteReplaced DEF Submit, cacheVars
  <2>. QED BY <2>1, <2>3, RestShows DEF Submit
<1>3. CASE \/ SessionCreated \/ SessionResumed \/ SessionClosed
           \/ PairRedeemed \/ WrapperDeleted \/ SettingsUpdated
  BY <1>3, DoneShows
  DEF SessionCreated, SessionResumed, SessionClosed, PairRedeemed, WrapperDeleted,
      SettingsUpdated, Ops
<1>4. ASSUME NEW op \in Ops, Failed(op) PROVE ShowInv'
  <2>1. WritesMade'
    BY <1>0, <1>4, WriteTypes, WriteReplaced DEF Failed, cacheVars
  <2>. QED BY <1>4, <2>1, RestShows DEF Failed
<1>5. ASSUME NEW k \in Keys, NEW i \in 1..Slots, Answer(k, i) PROVE ShowInv'
  <2>1. OwnInv' /\ WritesMade'
    BY <1>0, <1>5, ServeOwn, SameWrites DEF Answer, Serve
  <2>. QED BY <1>5, <2>1 DEF Answer, Serve, ShowInv, Served, Mounted
<1>6. ASSUME NEW k \in Keys, Poll(k) PROVE ShowInv'
  BY <1>6, FetchShows DEF Poll, Refetch
<1>7. ASSUME NEW aged \in SUBSET Keys, Focus(aged) PROVE ShowInv'
  <2>1. Unserved(Mounted, aged) \in SUBSET Keys
    BY KeyTypes DEF Unserved
  <2>. QED BY <1>7, <2>1, FetchShows DEF Focus
<1>8. ASSUME NEW k \in Keys, Forget(k) PROVE ShowInv'
  <2>1. OwnInv' /\ \A x \in Keys \ {k} : Served(x) => Served(x)'
    BY <1>0, <1>8, CollectOwn DEF Forget
  <2>2. WritesMade' /\ Mounted' = Mounted
    BY <1>0, <1>8, SameWrites DEF Forget, Collect, Mounted
  <2>. QED BY <1>8, <2>1, <2>2, KeyTypes DEF Forget, ShowInv
<1>9. ASSUME NEW k \in Keys, Others(k) PROVE ShowInv'
  <2>1. ver' \in [Keys -> 1..MaxVer] /\ \A x \in Keys : ver[x] <= ver'[x]
    BY <1>9, CacheAssumption DEF Others, Change, PortalInv, CacheInv, CacheTypeOK
  <2>2. OwnInv' /\ WritesMade'
    BY <1>0, <1>9, <2>1, ChangedOwn, WritesStand DEF Others, Change
  <2>. QED BY <1>9, <2>2 DEF Others, Change, ShowInv, Served, Mounted
<1>10. CASE Expire \/ Toasting \/ UNCHANGED vars
  <2>1. WritesMade'
    BY <1>0, <1>10, SameWrites DEF Expire, Toasting, vars, cacheVars
  <2>. QED BY <1>10, <2>1, RestShows DEF Expire, Toasting, vars
<1>11. CASE Enter
  <2>1. CASE going.to = page
    <3>1. Fetching({}, query) /\ UNCHANGED <<ver, own, page, write>>
      BY <1>11, <2>1 DEF Enter
    <3>. QED BY <3>1, FetchShows
  <2>2. CASE going.to # page
    BY <1>11, <2>2, MountShows DEF Enter
  <2>. QED BY <2>1, <2>2
<1>12. CASE LoggedOut
  <2>1. Cleared'
    BY <1>0, <1>12, CacheAssumption
    DEF LoggedOut, Cleared, Blank, VersionTypes, Zeros, CacheInv, CacheTypeOK
  <2>. QED BY <1>12, <2>1, AnewNext, AnewShows DEF LoggedOut, Guarded
<1>13. CASE LogIn \/ \E p \in Guarded : Reload(p)
  <2>1. PICK p \in Guarded : Loading(p)
    BY <1>13 DEF LogIn, Reload, Guarded
  <2>2. Anew' /\ page' \notin Guarded /\ write' = [op \in Ops |-> NoWrite]
    BY <2>1, LoadingAnew DEF Guarded
  <2>. QED BY <2>2, AnewShows
<1>14. ASSUME NEW op \in Ops, Apply(op) PROVE ShowInv'
  BY <1>14, ApplyShows
<1>15. ASSUME NEW k \in Keys, NEW i \in 1..Slots, Arrive(k, i) \/ Deny(k, i) \/ Break(k, i)
       PROVE  ShowInv'
  <2>1. Settle(k, i) /\ UNCHANGED write /\ (page' \in Guarded => page \in Guarded)
    BY <1>15 DEF Arrive, Deny, Break, Fail, Guarded
  <2>. QED BY <2>1, SettleShows
<1>. QED
  BY <1>1, <1>2, <1>3, <1>4, <1>5, <1>6, <1>7, <1>8, <1>9, <1>10, <1>11, <1>12, <1>13, <1>14, <1>15
  DEF Next

(* What this tab was told that it has written is in every list that it     *)
(* shows at rest, but one that came of a fetch that invalidateQueries let  *)
(* go on (hooks.ts, onSuccess), whatever page the answer finds.            *)
THEOREM OwnWritesAreShown == Spec => []OwnWritesShow
<1>1. Init => PortalInv /\ ShowInv
  <2>1. Init => WritesMade /\ Mounted = {}
    BY WriteTypes, KeyTypes DEF Init, WritesMade, Mounted, Guarded
  <2>. QED BY <2>1, PortalInit DEF Anew, ShowInv
<1>2. PortalInv /\ ShowInv /\ [Next]_vars => PortalInv' /\ ShowInv'
  BY PortalStep, ShowStep DEF StepOK
<1>3. PortalInv /\ ShowInv => OwnWritesShow
  BY ServedShowsOwn, KeyTypes DEF PortalInv, ShowInv, OwnWritesShow
<1>. QED BY <1>1, <1>2, <1>3, PTL DEF Spec
=============================================================================
