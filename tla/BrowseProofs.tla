---------------------------- MODULE BrowseProofs ----------------------------
(***************************************************************************)
(* Proofs about Browse: the lists of the transcripts page implement a      *)
(* replica whose views never go back, for any number of deletions,         *)
(* requests and versions.                                                  *)
(***************************************************************************)
EXTENDS Browse, CacheProofs

BrowseInv == BrowseTypeOK /\ CacheInv

\* What a step that is not of the server's data may do to the lists.
ListStep == \/ View' = View
            \/ \E k \in Keys, v \in 1..MaxVer :
                 v <= ver[k] /\ View[k] <= v /\ View' = [View EXCEPT ![k] = v]
            \/ \E k \in Keys : View' = [View EXCEPT ![k] = 0]

\* The steps of the abstract lists.
LEMMA ListSteps ==
  ASSUME CacheInv, ver' = ver, ListStep
  PROVE  [Lists!Next]_Lists!vars
<1>. USE DEF View
<1>0. View \in [Keys -> 0..MaxVer] /\ \A k \in Keys : ver[k] \in 1..MaxVer /\ View[k] <= ver[k]
  BY EntryTypes DEF CacheInv, CacheTypeOK, VersionsExist
<1>1. CASE View' = View
  BY <1>1 DEF Lists!vars
<1>2. CASE \E k \in Keys, v \in 1..MaxVer :
             v <= ver[k] /\ View[k] <= v /\ View' = [View EXCEPT ![k] = v]
  <2>1. PICK k \in Keys, v \in 1..MaxVer :
               v <= ver[k] /\ View[k] <= v /\ View' = [View EXCEPT ![k] = v]
    BY <1>2
  <2>2. v \in (IF View[k] = 0 THEN 1 ELSE View[k])..ver[k]
    BY <2>1, <1>0
  <2>3. Lists!Read(k)
    BY <2>1, <2>2 DEF Lists!Read
  <2>. QED BY <2>3 DEF Lists!Next
<1>3. CASE \E k \in Keys : View' = [View EXCEPT ![k] = 0]
  <2>1. PICK k \in Keys : View' = [View EXCEPT ![k] = 0]
    BY <1>3
  <2>2. Lists!Forget({k})
    BY <2>1, <1>0 DEF Lists!Forget
  <2>. QED BY <2>2 DEF Lists!Next
<1>. QED BY <1>1, <1>2, <1>3 DEF ListStep

\* The server changes the lists of K.
LEMMA ListsWritten ==
  ASSUME CacheInv, View' = View, NEW K \in SUBSET Keys,
         ver' = [k \in Keys |-> IF k \in K THEN ver[k] + 1 ELSE ver[k]]
  PROVE  [Lists!Next]_Lists!vars
<1>1. Lists!Write(K)
  BY DEF Lists!Write, View
<1>. QED BY <1>1 DEF Lists!Next

-----------------------------------------------------------------------------
LEMMA BrowseInit == Init => BrowseInv /\ Lists!Init
<1>. SUFFICES ASSUME Init PROVE BrowseInv /\ Lists!Init
  OBVIOUS
<1>. USE CacheAssumption, BrowseAssumption
<1>1. "all" \in Keys
  OBVIOUS
<1>2. Beginning("all")
  BY DEF Init, Beginning, VersionTypes
<1>3. CacheInv /\ View = [k \in Keys |-> 0]
  BY <1>1, <1>2, BeginningCache
<1>4. NoDeletion \in Deletion
  BY DEF NoDeletion, Deletion, Rows
<1>5. BrowseTypeOK
  BY <1>3, <1>4 DEF Init, BrowseTypeOK, CacheInv, Search
<1>6. Lists!Init
  BY <1>3 DEF Init, Lists!Init, View
<1>. QED BY <1>3, <1>5, <1>6 DEF BrowseInv

\* Turns are spent, or not.
LEMMA TurnTypes ==
  ASSUME BrowseInv, Turn \/ UNCHANGED turns
  PROVE  turns' \in 0..MaxTurns
BY BrowseAssumption DEF BrowseInv, BrowseTypeOK, Turn

LEMMA DetachedType == ASSUME BrowseInv PROVE Detached \in [Deletes -> Deletion]
BY DEF BrowseInv, BrowseTypeOK, Detached, Deletion

\* A deletion that is replaced keeps its type.
LEMMA DeletionBegun ==
  ASSUME NEW row \in Rows,
         NEW e, e = [NoDeletion EXCEPT !.at = "sent", !.row = row, !.here = TRUE]
  PROVE  e \in Deletion
<1>. DEFINE none == [k \in Keys |-> 0]
<1>1. e = [at |-> "sent", row |-> row, here |-> TRUE, ver |-> none]
  BY DEF NoDeletion
<1>2. none \in [Keys -> 0..MaxVer]
  BY CacheAssumption
<1>. QED BY ONLY <1>1, <1>2, row \in Rows DEF Deletion

LEMMA DeletionMade ==
  ASSUME NEW o \in Deletion, NEW made \in [Keys -> 0..MaxVer],
         NEW e, e = [o EXCEPT !.at = "done", !.ver = made]
  PROVE  e \in Deletion
BY DEF Deletion

LEMMA DeletionTypes ==
  ASSUME BrowseInv, NEW d \in Deletes, NEW e \in Deletion
  PROVE  [del EXCEPT ![d] = e] \in [Deletes -> Deletion]
BY DEF BrowseInv, BrowseTypeOK

\* The cache's part of a step, and the rest.
PageTypes ==
  /\ shown' \in BOOLEAN /\ selected' \in Keys
  /\ search' \in Search /\ starting' \in SUBSET {"resume", "create"}
  /\ del' \in [Deletes -> Deletion]
  /\ deletes' \in 0..MaxDeletes /\ turns' \in 0..MaxTurns

StepOK == BrowseInv' /\ [Lists!Next]_Lists!vars

LEMMA StepOfParts ==
  ASSUME CacheInv', [Lists!Next]_Lists!vars, PageTypes
  PROVE  StepOK
BY DEF StepOK, BrowseInv, BrowseTypeOK, CacheInv, PageTypes

LEMMA RestStep ==
  ASSUME BrowseInv, UNCHANGED cacheVars, PageTypes
  PROVE  StepOK
<1>1. CacheInv' /\ View' = View /\ ver' = ver
  BY CacheRests DEF BrowseInv, cacheVars, CacheInv, CacheTypeOK
<1>. QED BY <1>1, ListSteps, StepOfParts DEF BrowseInv, ListStep

LEMMA MountStep ==
  ASSUME BrowseInv, NEW k \in Keys, Mount(k), PageTypes
  PROVE  StepOK
<1>1. PICK aged \in SUBSET {k} : Fetching(Unserved({k}, aged), query) /\ UNCHANGED <<ver, own>>
  BY DEF Mount
<1>2. Unserved({k}, aged) \in SUBSET Keys
  BY DEF Unserved
<1>3. CacheInv' /\ View' = View
  BY <1>1, <1>2, FetchingKeeps DEF BrowseInv, CacheInv, CacheTypeOK
<1>. QED BY <1>1, <1>3, ListSteps, StepOfParts DEF BrowseInv, ListStep

-----------------------------------------------------------------------------
(* Every step keeps the invariant and is a step of the abstract lists.     *)
LEMMA BrowseStep == BrowseInv /\ [Next]_vars => StepOK
<1>. SUFFICES ASSUME BrowseInv, [Next]_vars PROVE StepOK
  OBVIOUS
<1>. USE CacheAssumption, BrowseAssumption
<1>1. ASSUME NEW k \in Keys, Select(k) PROVE StepOK
  <2>1. PageTypes
    BY <1>1, TurnTypes DEF Select, PageTypes, BrowseInv, BrowseTypeOK
  <2>. QED BY <2>1, <1>1, MountStep DEF Select
<1>2. CASE Leave
  <2>1. PageTypes
    BY <1>2, TurnTypes, DetachedType DEF Leave, PageTypes, BrowseInv, BrowseTypeOK
  <2>. QED BY <2>1, <1>2, RestStep DEF Leave
<1>3. CASE Return
  <2>1. PageTypes
    BY <1>3, TurnTypes DEF Return, PageTypes, BrowseInv, BrowseTypeOK, Search
  <2>. QED BY <2>1, <1>3, MountStep DEF Return
<1>4. CASE Focus
  <2>1. PageTypes
    BY <1>4, TurnTypes DEF Focus, pageVars, PageTypes, BrowseInv, BrowseTypeOK
  <2>2. selected \in Keys
    BY DEF BrowseInv, BrowseTypeOK
  <2>. QED BY <2>1, <2>2, <1>4, MountStep DEF Focus
<1>5. CASE RunSearch \/ SearchAnswer \/ SearchReset
  <2>1. PageTypes
    BY <1>5, TurnTypes, DetachedType
    DEF RunSearch, SearchAnswer, SearchReset, PageTypes, BrowseInv, BrowseTypeOK, Search
  <2>. QED BY <2>1, <1>5, RestStep DEF RunSearch, SearchAnswer, SearchReset
<1>6. CASE Resume \/ StartNew \/ \E what \in {"resume", "create"} : Started(what)
  <2>1. PageTypes
    BY <1>6, TurnTypes, DetachedType
    DEF Resume, StartNew, Started, PageTypes, BrowseInv, BrowseTypeOK
  <2>. QED BY <2>1, <1>6, RestStep DEF Resume, StartNew, Started
<1>7. ASSUME NEW d \in Deletes, NEW row \in Rows, DeleteTranscript(d, row) PROVE StepOK
  <2>1. [NoDeletion EXCEPT !.at = "sent", !.row = row, !.here = TRUE] \in Deletion
    <3>1. ASSUME NEW e, e = [NoDeletion EXCEPT !.at = "sent", !.row = row, !.here = TRUE]
          PROVE  e \in Deletion
      BY <3>1, DeletionBegun
    <3>. QED BY <3>1, Zenon
  <2>2. del' \in [Deletes -> Deletion]
    BY <1>7, <2>1, DeletionTypes DEF DeleteTranscript
  <2>3. PageTypes
    BY <1>7, <2>2 DEF DeleteTranscript, pageVars, PageTypes, BrowseInv, BrowseTypeOK
  <2>. QED BY <2>3, <1>7, RestStep DEF DeleteTranscript
<1>8. ASSUME NEW d \in Deletes, ApplyDelete(d) PROVE StepOK
  <2>. DEFINE made == [k \in Keys |-> IF k \in del[d].row THEN ver[k] + 1 ELSE 0]
  <2>1. CASE UNCHANGED ver /\ Turn /\ del' = [del EXCEPT ![d].at = "failed"]
    <3>1. PageTypes
      BY <1>8, <2>1, TurnTypes DEF ApplyDelete, pageVars, PageTypes, BrowseInv, BrowseTypeOK, Deletion
    <3>. QED BY <3>1, <2>1, <1>8, RestStep DEF ApplyDelete, cacheVars
  <2>2. CASE /\ \A k \in del[d].row : ver[k] < MaxVer
             /\ ver' = [k \in Keys |-> IF k \in del[d].row THEN ver[k] + 1 ELSE ver[k]]
             /\ del' = [del EXCEPT ![d] = [@ EXCEPT !.at = "done", !.ver = made]]
             /\ UNCHANGED turns
    <3>1. del[d].row \in SUBSET Keys
      BY DEF BrowseInv, BrowseTypeOK, Deletion, Rows
    <3>2. ver' \in [Keys -> 1..MaxVer] /\ \A k \in Keys : ver[k] <= ver'[k]
      <4>1. ver \in [Keys -> 1..MaxVer] /\ MaxVer \in Nat
        BY DEF BrowseInv, CacheInv, CacheTypeOK
      <4>2. ver' = [k \in Keys |-> IF k \in del[d].row THEN ver[k] + 1 ELSE ver[k]]
        BY ONLY <2>2
      <4>3. \A k \in del[d].row : ver[k] < MaxVer
        BY ONLY <2>2
      <4>4. \A k \in Keys :
              (IF k \in del[d].row THEN ver[k] + 1 ELSE ver[k]) \in ver[k]..MaxVer
        BY ONLY <4>1, <4>3
      <4>5. \A k \in Keys : ver'[k] \in ver[k]..MaxVer
        BY ONLY <4>2, <4>4
      <4>. QED BY ONLY <4>1, <4>2, <4>5
    <3>3. made \in [Keys -> 0..MaxVer]
      <4>1. ver \in [Keys -> 1..MaxVer] /\ MaxVer \in Nat
        BY DEF BrowseInv, CacheInv, CacheTypeOK
      <4>2. \A k \in del[d].row : ver[k] < MaxVer
        BY ONLY <2>2
      <4>3. \A k \in Keys : (IF k \in del[d].row THEN ver[k] + 1 ELSE 0) \in 0..MaxVer
        BY ONLY <4>1, <4>2
      <4>. QED BY ONLY <4>3
    <3>4. del' \in [Deletes -> Deletion]
      <4>. HIDE DEF made
      <4>1. del \in [Deletes -> Deletion] /\ del[d] \in Deletion
        BY DEF BrowseInv, BrowseTypeOK
      <4>2. ASSUME NEW e, e = [del[d] EXCEPT !.at = "done", !.ver = made]
            PROVE  e \in Deletion
        BY <4>1, <4>2, <3>3, DeletionMade
      <4>3. [del[d] EXCEPT !.at = "done", !.ver = made] \in Deletion
        BY <4>2, Zenon
      <4>. QED BY <2>2, <4>1, <4>3, DeletionTypes, Zenon
    <3>5. PageTypes
      BY <1>8, <2>2, <3>4 DEF ApplyDelete, pageVars, PageTypes, BrowseInv, BrowseTypeOK
    <3>6. CacheInv' /\ View' = View
      BY <1>8, <3>2, VersionsAdvance DEF ApplyDelete, BrowseInv
    <3>7. [Lists!Next]_Lists!vars
      BY <2>2, <3>1, <3>6, ListsWritten DEF BrowseInv
    <3>. QED BY <3>5, <3>6, <3>7, StepOfParts
  <2>. QED BY <1>8, <2>1, <2>2 DEF ApplyDelete
<1>9. ASSUME NEW d \in Deletes, Deleted(d) PROVE StepOK
  <2>. DEFINE K == {k \in Keys : Replaced(k, k \in Mounted)}
  <2>1. Fetching(K, Invalidated(Keys, Mounted))
    BY <1>9 DEF Deleted, Told
  <2>2. own' \in [Keys -> 0..MaxVer]
    BY <1>9 DEF Deleted, Told, Larger, BrowseInv, BrowseTypeOK, Deletion, CacheTypeOK
  <2>3. CacheInv' /\ View' = View
    BY <1>9, <2>1, <2>2, InvalidatedEntries, FetchingKeeps DEF Deleted, Told, BrowseInv
  <2>4. NoDeletion \in Deletion
    BY DEF NoDeletion, Deletion, Rows
  <2>5. PageTypes
    BY <1>9, <2>4, DeletionTypes DEF Deleted, Told, pageVars, PageTypes, BrowseInv, BrowseTypeOK
  <2>. QED BY <1>9, <2>3, <2>5, ListSteps, StepOfParts DEF Deleted, Told, BrowseInv, ListStep
<1>10. ASSUME NEW d \in Deletes, DeleteFailed(d) PROVE StepOK
  <2>1. NoDeletion \in Deletion
    BY DEF NoDeletion, Deletion, Rows
  <2>2. PageTypes
    BY <1>10, <2>1, DeletionTypes DEF DeleteFailed, pageVars, PageTypes, BrowseInv, BrowseTypeOK
  <2>. QED BY <2>2, <1>10, RestStep DEF DeleteFailed
<1>11. ASSUME NEW k \in Keys, NEW i \in 1..Slots, Answer(k, i) \/ Break(k, i) PROVE StepOK
  <2>1. PageTypes
    BY <1>11, TurnTypes DEF Answer, Break, pageVars, PageTypes, BrowseInv, BrowseTypeOK
  <2>2. CASE Serve(k, i)
    BY <2>1, <2>2, ServeKeeps, ListSteps, StepOfParts DEF Serve, BrowseInv, ListStep
  <2>3. CASE Settle(k, i)
    <3>1. /\ CacheInv'
          /\ \/ View' = View
             \/ \E v \in 1..ver[k] : View[k] <= v /\ View' = [View EXCEPT ![k] = v]
      BY <2>3, SettleKeeps DEF BrowseInv
    <3>2. ver[k] \in 1..MaxVer
      BY DEF BrowseInv, CacheInv, CacheTypeOK
    <3>3. ListStep
      BY <3>1, <3>2 DEF ListStep
    <3>. QED BY <2>1, <2>3, <3>1, <3>3, ListSteps, StepOfParts DEF Settle, BrowseInv
  <2>. QED BY <1>11, <2>2, <2>3 DEF Answer, Break
<1>12. ASSUME NEW k \in Keys, Forget(k) PROVE StepOK
  <2>1. PageTypes
    BY <1>12 DEF Forget, pageVars, PageTypes, BrowseInv, BrowseTypeOK
  <2>2. CacheInv' /\ View' = [View EXCEPT ![k] = 0]
    BY <1>12, CollectKeeps DEF Forget, BrowseInv
  <2>. QED BY <1>12, <2>1, <2>2, ListSteps, StepOfParts DEF Forget, Collect, BrowseInv, ListStep
<1>13. ASSUME NEW k \in Keys, Others(k) PROVE StepOK
  <2>1. PageTypes
    BY <1>13, TurnTypes DEF Others, pageVars, PageTypes, BrowseInv, BrowseTypeOK
  <2>2. ver' = [x \in Keys |-> IF x \in {k} THEN ver[x] + 1 ELSE ver[x]]
    BY <1>13 DEF Others, Change, BrowseInv, CacheInv, CacheTypeOK
  <2>3. ver' \in [Keys -> 1..MaxVer] /\ \A x \in Keys : ver[x] <= ver'[x]
    BY <1>13, <2>2 DEF Others, Change, BrowseInv, CacheInv, CacheTypeOK
  <2>4. CacheInv' /\ View' = View
    BY <1>13, <2>3, VersionsAdvance DEF Others, Change, BrowseInv
  <2>. QED BY <2>1, <2>2, <2>4, ListsWritten, StepOfParts DEF BrowseInv
<1>14. CASE UNCHANGED vars
  <2>1. PageTypes
    BY <1>14 DEF vars, pageVars, PageTypes, BrowseInv, BrowseTypeOK
  <2>. QED BY <1>14, <2>1, RestStep DEF vars
<1>. QED
  BY <1>1, <1>2, <1>3, <1>4, <1>5, <1>6, <1>7, <1>8, <1>9, <1>10, <1>11, <1>12, <1>13, <1>14
  DEF Next

-----------------------------------------------------------------------------
(* The types of the page and of its cache are kept by every step.          *)
THEOREM BrowseTyped == Spec => []BrowseTypeOK
<1>1. Init => BrowseInv
  BY BrowseInit
<1>2. BrowseInv /\ [Next]_vars => BrowseInv'
  BY BrowseStep DEF StepOK
<1>3. BrowseInv => BrowseTypeOK
  BY DEF BrowseInv
<1>. QED BY <1>1, <1>2, <1>3, PTL DEF Spec

(* The page implements the abstract lists: none that it shows goes back to *)
(* an earlier version, although answers to cancelled requests come late    *)
(* (hooks.ts, useDeleteTranscript; QueryCache, Settled).                   *)
THEOREM ListsNeverGoBack == Spec => ListsAdvance
<1>1. Init => BrowseInv /\ Lists!Init
  BY BrowseInit
<1>2. BrowseInv /\ [Next]_vars => BrowseInv' /\ [Lists!Next]_Lists!vars
  BY BrowseStep DEF StepOK
<1>. QED BY <1>1, <1>2, PTL DEF Spec, ListsAdvance, Lists!Spec

-----------------------------------------------------------------------------
\* No deletion is of a version that the server has not made, and a list that
\* is shown awaits an answer if it holds nothing valid.
DeletionsMade == \A d \in Deletes, k \in Keys : del[d].ver[k] <= ver[k]

ShowInv == OwnInv /\ DeletionsMade /\ \A k \in Mounted : Served(k)

LEMMA MountedKeys == ASSUME BrowseInv PROVE Mounted \subseteq Keys
BY DEF BrowseInv, BrowseTypeOK, Mounted

LEMMA RestShows ==
  ASSUME BrowseInv, ShowInv, UNCHANGED cacheVars, DeletionsMade', Mounted' \subseteq Mounted
  PROVE  ShowInv'
BY DEF ShowInv, OwnInv, HasOwn, AnswerHasOwn, Served, cacheVars

LEMMA MountShows ==
  ASSUME BrowseInv, ShowInv, NEW k \in Keys, Mount(k), DeletionsMade', Mounted' = {k}
  PROVE  ShowInv'
<1>1. PICK aged \in SUBSET {k} : Fetching(Unserved({k}, aged), query) /\ UNCHANGED <<ver, own>>
  BY DEF Mount
<1>2. OwnInv' /\ Served(k)'
  BY <1>1, MountedServed DEF BrowseInv, ShowInv
<1>. QED BY <1>2 DEF ShowInv

\* Deletions that change in nothing but where they stand.
LEMMA DeletionsStand ==
  ASSUME BrowseInv, DeletionsMade, \A k \in Keys : ver[k] <= ver'[k],
         ver' \in [Keys -> 1..MaxVer],
         \A d \in Deletes, k \in Keys : del'[d].ver[k] \in {0, del[d].ver[k]}
  PROVE  DeletionsMade'
<1>. SUFFICES ASSUME NEW d \in Deletes, NEW k \in Keys PROVE del'[d].ver[k] <= ver'[k]
  BY DEF DeletionsMade
<1>1. del[d].ver[k] \in 0..MaxVer /\ ver[k] \in 1..MaxVer /\ ver'[k] \in 1..MaxVer
  <2>1. del[d] \in Deletion
    BY DEF BrowseInv, BrowseTypeOK
  <2>2. del[d].ver \in [Keys -> 0..MaxVer]
    BY <2>1 DEF Deletion
  <2>. QED BY <2>2 DEF BrowseInv, CacheInv, CacheTypeOK
<1>2. del[d].ver[k] <= ver[k] /\ ver[k] <= ver'[k]
  BY DEF DeletionsMade
<1>3. CASE del'[d].ver[k] = 0
  BY <1>1, <1>3
<1>4. CASE del'[d].ver[k] = del[d].ver[k]
  BY <1>1, <1>2, <1>4
<1>. QED BY <1>3, <1>4

LEMMA SameDeletions == ASSUME DeletionsMade, UNCHANGED <<del, ver>> PROVE DeletionsMade'
BY DEF DeletionsMade

\* One deletion is replaced by e, which is of nothing, or of what d was of.
LEMMA DeletionReplaced ==
  ASSUME BrowseInv, DeletionsMade, UNCHANGED ver, NEW d \in Deletes, NEW e,
         e.ver = NoDeletion.ver \/ e.ver = del[d].ver, del' = [del EXCEPT ![d] = e]
  PROVE  DeletionsMade'
<1>1. ASSUME NEW x \in Deletes, NEW k \in Keys
      PROVE  del'[x].ver[k] \in {0, del[x].ver[k]}
  <2>1. NoDeletion.ver = [y \in Keys |-> 0]
    BY DEF NoDeletion
  <2>2. del'[x] = IF x = d THEN e ELSE del[x]
    BY DEF BrowseInv, BrowseTypeOK
  <2>. QED BY <2>1, <2>2
<1>2. ver' \in [Keys -> 1..MaxVer] /\ \A k \in Keys : ver[k] <= ver'[k]
  BY DEF BrowseInv, CacheInv, CacheTypeOK
<1>. QED BY <1>1, <1>2, DeletionsStand

LEMMA DetachedStand ==
  ASSUME BrowseInv, DeletionsMade, UNCHANGED ver, del' = Detached
  PROVE  DeletionsMade'
<1>1. \A d \in Deletes : del'[d].ver = del[d].ver
  BY DEF Detached, BrowseInv, BrowseTypeOK, Deletion
<1>. QED BY <1>1 DEF DeletionsMade

LEMMA ShowInit == Init => ShowInv
<1>. SUFFICES ASSUME Init PROVE ShowInv
  OBVIOUS
<1>. USE CacheAssumption, BrowseAssumption
<1>1. OwnInv /\ Served("all")
  <2>1. Beginning("all") /\ own = [k \in Keys |-> 0]
    BY DEF Init, Beginning, VersionTypes
  <2>. QED BY <2>1, BeginningOwn
<1>2. Mounted = {"all"}
  BY DEF Init, Mounted
<1>3. DeletionsMade
  BY DEF Init, DeletionsMade, NoDeletion
<1>. QED BY <1>1, <1>2, <1>3 DEF ShowInv

LEMMA ShowStep == BrowseInv /\ ShowInv /\ [Next]_vars => ShowInv'
<1>. SUFFICES ASSUME BrowseInv, ShowInv, [Next]_vars PROVE ShowInv'
  OBVIOUS
<1>. USE CacheAssumption, BrowseAssumption
<1>0. CacheInv /\ OwnInv /\ DeletionsMade
  BY DEF BrowseInv, ShowInv
<1>1. ASSUME NEW k \in Keys, Select(k) PROVE ShowInv'
  <2>1. Mounted' = {k} /\ Mount(k) /\ DeletionsMade'
    BY <1>0, <1>1, SameDeletions DEF Select, Mounted, Mount
  <2>. QED BY <2>1, MountShows
<1>2. CASE Leave
  <2>1. DeletionsMade' /\ Mounted' = {}
    BY <1>0, <1>2, DetachedStand DEF Leave, cacheVars, Mounted
  <2>. QED BY <2>1, <1>2, RestShows DEF Leave
<1>3. CASE Return
  <2>1. Mounted' = {"all"} /\ Mount("all") /\ DeletionsMade'
    BY <1>0, <1>3, SameDeletions DEF Return, Mounted, Mount
  <2>. QED BY <2>1, MountShows
<1>4. CASE Focus
  <2>1. Mounted' = {selected} /\ Mount(selected) /\ DeletionsMade' /\ selected \in Keys
    BY <1>0, <1>4, SameDeletions DEF Focus, pageVars, Mounted, Mount, BrowseInv, BrowseTypeOK
  <2>. QED BY <2>1, MountShows
<1>5. CASE RunSearch \/ SearchAnswer \/ SearchReset
  <2>1. DeletionsMade'
    BY <1>0, <1>5, DetachedStand, SameDeletions DEF RunSearch, SearchAnswer, SearchReset, cacheVars
  <2>2. Mounted' = Mounted
    BY <1>5 DEF RunSearch, SearchAnswer, SearchReset, Mounted
  <2>. QED BY <2>1, <2>2, <1>5, RestShows DEF RunSearch, SearchAnswer, SearchReset
<1>6. CASE Resume \/ StartNew \/ \E what \in {"resume", "create"} : Started(what)
  <2>1. DeletionsMade'
    BY <1>0, <1>6, DetachedStand, SameDeletions DEF Resume, StartNew, Started, cacheVars
  <2>2. Mounted' \subseteq Mounted
    BY <1>6 DEF Resume, StartNew, Started, Mounted
  <2>. QED BY <2>1, <2>2, <1>6, RestShows DEF Resume, StartNew, Started
<1>7. ASSUME NEW d \in Deletes, NEW row \in Rows, DeleteTranscript(d, row) PROVE ShowInv'
  <2>1. [NoDeletion EXCEPT !.at = "sent", !.row = row, !.here = TRUE].ver = NoDeletion.ver
    BY DEF NoDeletion
  <2>2. DeletionsMade'
    BY <1>0, <1>7, <2>1, DeletionReplaced DEF DeleteTranscript, cacheVars
  <2>3. Mounted' = Mounted
    BY <1>7 DEF DeleteTranscript, pageVars, Mounted
  <2>. QED BY <1>7, <2>2, <2>3, RestShows DEF DeleteTranscript
<1>8. ASSUME NEW d \in Deletes, ApplyDelete(d) PROVE ShowInv'
  <2>. DEFINE made == [k \in Keys |-> IF k \in del[d].row THEN ver[k] + 1 ELSE 0]
  <2>1. UNCHANGED <<query, wire, own>> /\ Mounted' = Mounted
    BY <1>8 DEF ApplyDelete, pageVars, Mounted
  <2>2. del[d] \in Deletion /\ del[d].row \in SUBSET Keys
    BY DEF BrowseInv, BrowseTypeOK, Deletion, Rows
  <2>3. CASE UNCHANGED ver /\ del' = [del EXCEPT ![d].at = "failed"]
    <3>1. \A x \in Deletes : del'[x].ver = del[x].ver
      BY <2>3 DEF BrowseInv, BrowseTypeOK, Deletion
    <3>2. DeletionsMade'
      BY <2>3, <3>1, <1>0 DEF DeletionsMade
    <3>. QED BY <2>1, <2>3, <3>2, RestShows DEF cacheVars
  <2>4. CASE /\ \A k \in del[d].row : ver[k] < MaxVer
             /\ ver' = [k \in Keys |-> IF k \in del[d].row THEN ver[k] + 1 ELSE ver[k]]
             /\ del' = [del EXCEPT ![d] = [@ EXCEPT !.at = "done", !.ver = made]]
    <3>1. \A k \in Keys : ver'[k] \in Nat /\ ver[k] <= ver'[k] /\ made[k] <= ver'[k]
      BY <2>2, <2>4 DEF BrowseInv, CacheInv, CacheTypeOK
    <3>2. ASSUME NEW e, e = [del[d] EXCEPT !.at = "done", !.ver = made] PROVE e.ver = made
      <4>. HIDE DEF made
      <4>. QED BY <2>2, <3>2 DEF Deletion
    <3>3. [del[d] EXCEPT !.at = "done", !.ver = made].ver = made
      BY <3>2, Zenon
    <3>4. \A x \in Deletes : del'[x].ver = IF x = d THEN made ELSE del[x].ver
      BY <2>4, <3>3 DEF BrowseInv, BrowseTypeOK
    <3>5. DeletionsMade'
      <4>. SUFFICES ASSUME NEW x \in Deletes, NEW k \in Keys PROVE del'[x].ver[k] <= ver'[k]
        BY DEF DeletionsMade
      <4>1. CASE x = d
        BY <3>1, <3>4, <4>1
      <4>2. CASE x # d
        <5>1. del[x].ver[k] \in 0..MaxVer
          <6>1. del[x] \in Deletion
            BY DEF BrowseInv, BrowseTypeOK
          <6>. QED BY <6>1 DEF Deletion
        <5>2. del[x].ver[k] <= ver[k] /\ ver[k] \in 1..MaxVer
          BY <1>0 DEF DeletionsMade, CacheInv, CacheTypeOK
        <5>3. del'[x].ver[k] = del[x].ver[k]
          BY <3>4, <4>2
        <5>4. ver'[k] \in Nat /\ ver[k] <= ver'[k]
          BY <3>1
        <5>. QED BY ONLY <5>1, <5>2, <5>3, <5>4, MaxVer \in Nat
      <4>. QED BY <4>1, <4>2
    <3>6. OwnInv'
      <4>1. ASSUME NEW k \in Keys PROVE own[k] <= ver'[k]
        <5>1. own[k] \in 0..MaxVer /\ own[k] <= ver[k] /\ ver[k] \in 1..MaxVer
          BY <1>0 DEF OwnInv, CacheInv, CacheTypeOK
        <5>2. ver'[k] \in Nat /\ ver[k] <= ver'[k]
          BY <3>1
        <5>. QED BY <5>1, <5>2
      <4>. QED BY <1>0, <2>1, <4>1 DEF OwnInv
    <3>. QED BY <2>1, <3>5, <3>6 DEF ShowInv, Served
  <2>. QED BY <1>8, <2>3, <2>4 DEF ApplyDelete
<1>9. ASSUME NEW d \in Deletes, Deleted(d) PROVE ShowInv'
  <2>. DEFINE K == {k \in Keys : Replaced(k, k \in Mounted)}
              entries == Invalidated(Keys, Mounted)
  <2>1. Fetching(K, entries) /\ UNCHANGED <<ver, shown, selected>>
    BY <1>9 DEF Deleted, Told, pageVars
  <2>2. \A k \in Keys : own'[k] <= ver[k]
    BY <1>0, <1>9 DEF Deleted, Told, Larger, OwnInv, DeletionsMade
  <2>3. entries \in [Keys -> Entry]
    BY <1>0, InvalidatedEntries
  <2>4. \A k \in Keys :
          /\ HasOwn(entries[k], own'[k])
          /\ k \notin K => AnswerHasOwn(entries[k], wire[k][entries[k].cur], own'[k])
          /\ k \notin K /\ k \in Mounted => entries[k].cur # 0
    BY <1>0, <2>2, InvalidatedOwn
  <2>5. /\ OwnInv'
        /\ \A k \in Keys : k \notin K => query'[k] = entries[k]
        /\ \A k \in K : query'[k].cur # 0
    <3>. HIDE DEF entries
    <3>. QED BY <1>0, <2>1, <2>2, <2>3, <2>4, FetchingOwn
  <2>6. Mounted' = Mounted
    BY <2>1 DEF Mounted
  <2>7. \A k \in Mounted : Served(k)'
    BY <2>4, <2>5, MountedKeys DEF Served
  <2>8. DeletionsMade'
    BY <1>0, <1>9, DeletionReplaced DEF Deleted, Told
  <2>. QED BY <2>5, <2>6, <2>7, <2>8 DEF ShowInv
<1>10. ASSUME NEW d \in Deletes, DeleteFailed(d) PROVE ShowInv'
  <2>1. DeletionsMade'
    BY <1>0, <1>10, DeletionReplaced DEF DeleteFailed, cacheVars
  <2>2. Mounted' = Mounted
    BY <1>10 DEF DeleteFailed, pageVars, Mounted
  <2>. QED BY <1>10, <2>1, <2>2, RestShows DEF DeleteFailed
<1>11. ASSUME NEW k \in Keys, NEW i \in 1..Slots, Answer(k, i) \/ Break(k, i) PROVE ShowInv'
  <2>1. Mounted' = Mounted /\ UNCHANGED del
    BY <1>11 DEF Answer, Break, pageVars, Mounted
  <2>2. CASE Serve(k, i)
    <3>1. OwnInv' /\ DeletionsMade'
      BY <1>0, <2>1, <2>2, ServeOwn, SameDeletions DEF Serve
    <3>. QED BY <2>1, <2>2, <3>1 DEF ShowInv, Served, Serve
  <2>3. CASE Settle(k, i)
    <3>1. OwnInv' /\ DeletionsMade' /\ \A x \in Keys : Served(x) => Served(x)'
      BY <1>0, <2>1, <2>3, SettleOwn, SameDeletions DEF Settle
    <3>. QED BY <2>1, <3>1, MountedKeys DEF ShowInv
  <2>. QED BY <1>11, <2>2, <2>3 DEF Answer, Break
<1>12. ASSUME NEW k \in Keys, Forget(k) PROVE ShowInv'
  <2>1. Mounted' = Mounted /\ DeletionsMade'
    BY <1>0, <1>12, SameDeletions DEF Forget, Collect, pageVars, Mounted
  <2>2. OwnInv' /\ \A x \in Keys \ {k} : Served(x) => Served(x)'
    BY <1>0, <1>12, CollectOwn DEF Forget
  <2>. QED BY <1>12, <2>1, <2>2, MountedKeys DEF Forget, ShowInv
<1>13. ASSUME NEW k \in Keys, Others(k) PROVE ShowInv'
  <2>1. UNCHANGED <<query, wire, own, del>> /\ Mounted' = Mounted
    BY <1>13 DEF Others, Change, pageVars, Mounted
  <2>2. ver' \in [Keys -> 1..MaxVer] /\ \A x \in Keys : ver[x] <= ver'[x]
    BY <1>13 DEF Others, Change, BrowseInv, CacheInv, CacheTypeOK
  <2>3. DeletionsMade'
    BY <1>0, <2>1, <2>2, DeletionsStand
  <2>4. ASSUME NEW x \in Keys PROVE own[x] <= ver'[x]
    <3>1. ver \in [Keys -> 1..MaxVer] /\ own \in [Keys -> 0..MaxVer] /\ MaxVer \in Nat
      BY <1>0 DEF CacheInv, CacheTypeOK
    <3>2. own[x] <= ver[x]
      BY <1>0 DEF OwnInv
    <3>. QED BY ONLY <2>2, <3>1, <3>2, x \in Keys
  <2>. QED BY <1>0, <2>1, <2>3, <2>4 DEF ShowInv, OwnInv, Served
<1>14. CASE UNCHANGED vars
  <2>1. Mounted' = Mounted /\ DeletionsMade'
    BY <1>0, <1>14, SameDeletions DEF vars, pageVars, cacheVars, Mounted
  <2>. QED BY <1>14, <2>1, RestShows DEF vars
<1>. QED
  BY <1>1, <1>2, <1>3, <1>4, <1>5, <1>6, <1>7, <1>8, <1>9, <1>10, <1>11, <1>12, <1>13, <1>14
  DEF Next

(* What this tab has deleted is in no list that it shows at rest, but one  *)
(* that came of a fetch that invalidateQueries let go on (hooks.ts,        *)
(* useDeleteTranscript), however many deletions and fetches overlap.       *)
THEOREM DeletedStayAway == Spec => []DeletedGoAway
<1>1. Init => BrowseInv /\ ShowInv
  BY BrowseInit, ShowInit
<1>2. BrowseInv /\ ShowInv /\ [Next]_vars => BrowseInv' /\ ShowInv'
  BY BrowseStep, ShowStep DEF StepOK
<1>3. BrowseInv /\ ShowInv => DeletedGoAway
  BY ServedShowsOwn, MountedKeys DEF BrowseInv, ShowInv, DeletedGoAway
<1>. QED BY <1>1, <1>2, <1>3, PTL DEF Spec
=============================================================================
