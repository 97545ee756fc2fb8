------------------------------- MODULE Browse -------------------------------
(***************************************************************************)
(* The transcripts page (web/src/components/TranscriptsBrowser.tsx): a     *)
(* scope is selected, its list is a query of its own in the cache, rows    *)
(* are deleted and resumed, and a search shows its results in the place of *)
(* the list. The scopes are nested: everything, a wrapper, a project of    *)
(* it. SearchHub models the search itself, Portal the rest of the portal.  *)
(***************************************************************************)
EXTENDS QueryCache

CONSTANTS
  Deletes,     \* bound: deletions on their way at a time; recycled
  MaxDeletes,  \* bound: deletions
  MaxTurns     \* bound: selections, searches, resumptions, visits, focus
               \* events, writes of others and failures

ASSUME BrowseAssumption ==
  /\ Keys = {"all", "wrapper", "project"} /\ Polled = {}
  /\ {MaxDeletes, MaxTurns} \subseteq Nat

VARIABLES
  shown,     \* the page is mounted
  selected,  \* the scope that is selected
  search,    \* the state of useSearch, see Search
  del,       \* del[d]: a deletion, see Deletion
  starting,  \* what awaits a new session: "resume", "create"
  deletes, turns

pageVars == <<shown, selected, search, starting>>
vars == <<cacheVars, pageVars, del, deletes, turns>>

\* The scopes that have a row of the first, of the second, ... in them.
Rows == {{"all"}, {"all", "wrapper"}, {"all", "wrapper", "project"}}

Search == {"none", "pending", "results"}
\* here: the list that began it is still mounted.
Deletion == [at : {"none", "sent", "done", "failed"}, row : Rows, here : BOOLEAN,
             ver : [Keys -> 0..MaxVer]]
NoDeletion == [at |-> "none", row |-> {"all"}, here |-> FALSE, ver |-> [k \in Keys |-> 0]]

BrowseTypeOK ==
  /\ CacheTypeOK
  /\ shown \in BOOLEAN /\ selected \in Keys
  /\ search \in Search /\ starting \in SUBSET {"resume", "create"}
  /\ del \in [Deletes -> Deletion]
  /\ deletes \in 0..MaxDeletes /\ turns \in 0..MaxTurns

Mounted == IF shown THEN {selected} ELSE {}

Init ==
  /\ query = [NoEntries EXCEPT !["all"].cur = 1]
  /\ wire = [NoRequests EXCEPT !["all"][1] = Sent]
  /\ ver = [k \in Keys |-> 1] /\ own = [k \in Keys |-> 0]
  /\ shown = TRUE /\ selected = "all"
  /\ search = "none" /\ starting = {}
  /\ del = [d \in Deletes |-> NoDeletion]
  /\ deletes = 0 /\ turns = 0

Turn == turns < MaxTurns /\ turns' = turns + 1

-----------------------------------------------------------------------------
\* The hooks of scope k are mounted, or see the focus.
Mount(k) ==
  \E aged \in SUBSET {k} : Fetching(Unserved({k}, aged), query) /\ UNCHANGED <<ver, own>>

\* A click on a wrapper or a project, or on "All wrappers".
Select(k) ==
  /\ Turn
  /\ shown /\ k # selected
  /\ selected' = k
  /\ Mount(k)
  /\ UNCHANGED <<shown, search, starting, del, deletes>>

\* The list is unmounted: its deletions go on, but a list that is mounted
\* later does not know of them.
Detached == [d \in Deletes |-> [del[d] EXCEPT !.here = FALSE]]

Leave ==
  /\ Turn
  /\ shown /\ shown' = FALSE
  /\ del' = Detached
  /\ UNCHANGED <<cacheVars, selected, search, starting, deletes>>

\* The page is mounted anew, with nothing but the cache.
Return ==
  /\ Turn
  /\ ~shown /\ shown' = TRUE
  /\ selected' = "all" /\ search' = "none" /\ starting' = {}
  /\ Mount("all")
  /\ UNCHANGED <<del, deletes>>

Focus ==
  /\ Turn
  /\ shown /\ Mount(selected)
  /\ UNCHANGED <<pageVars, del, deletes>>

-----------------------------------------------------------------------------
\* Searching unmounts the list once there are results.
RunSearch ==
  /\ Turn
  /\ shown /\ search # "pending"
  /\ search' = "pending"
  /\ UNCHANGED <<cacheVars, shown, selected, starting, del, deletes>>

SearchAnswer ==
  /\ search = "pending"
  /\ \/ search' = "results" /\ del' = Detached /\ UNCHANGED turns
     \/ Turn /\ search' = "none" /\ UNCHANGED del
  /\ UNCHANGED <<cacheVars, shown, selected, starting, deletes>>

SearchReset ==
  /\ shown /\ search = "results"
  /\ search' = "none"
  /\ UNCHANGED <<cacheVars, shown, selected, starting, del, deletes, turns>>

-----------------------------------------------------------------------------
\* The rows of the list, which has data and is not displaced by results.
ListShown == shown /\ search # "results" /\ query[selected].data # 0

\* A row's button is disabled while a deletion of this list is pending.
DeleteTranscript(d, row) ==
  /\ ListShown /\ selected \in row
  /\ \A x \in Deletes : ~del[x].here
  /\ del[d] = NoDeletion
  /\ deletes < MaxDeletes /\ deletes' = deletes + 1
  /\ del' = [del EXCEPT ![d] = [NoDeletion EXCEPT !.at = "sent", !.row = row, !.here = TRUE]]
  /\ UNCHANGED <<cacheVars, pageVars, turns>>

\* The server deletes the row from every list that has it, or the request
\* fails.
ApplyDelete(d) ==
  /\ del[d].at = "sent"
  /\ \/ /\ \A k \in del[d].row : ver[k] < MaxVer
        /\ ver' = [k \in Keys |-> IF k \in del[d].row THEN ver[k] + 1 ELSE ver[k]]
        /\ LET made == [k \in Keys |-> IF k \in del[d].row THEN ver[k] + 1 ELSE 0]
           IN  del' = [del EXCEPT ![d] = [@ EXCEPT !.at = "done", !.ver = made]]
        /\ UNCHANGED turns
     \/ /\ Turn
        /\ del' = [del EXCEPT ![d].at = "failed"]
        /\ UNCHANGED ver
  /\ UNCHANGED <<query, wire, own, pageVars, deletes>>

Larger(i, j) == IF i < j THEN j ELSE i

\* The tab learns that deletion d is done; its onSuccess concerns scopes K.
Told(d, K) ==
  /\ del[d].at = "done"
  /\ own' = [k \in Keys |-> Larger(own[k], del[d].ver[k])]
  /\ del' = [del EXCEPT ![d] = NoDeletion]
  /\ Fetching({k \in K : Replaced(k, k \in Mounted)}, Invalidated(K, Mounted))
  /\ UNCHANGED <<ver, pageVars, deletes, turns>>

\* Mutant of Deleted: the key of the list that is shown, not the prefix.
DeletedHere(d) == Told(d, {selected})

\* invalidateQueries(['transcripts']) is a prefix of the keys of all scopes.
Deleted(d) == Told(d, Keys)

DeleteFailed(d) ==
  /\ del[d].at = "failed"
  /\ del' = [del EXCEPT ![d] = NoDeletion]
  /\ UNCHANGED <<cacheVars, pageVars, deletes, turns>>

-----------------------------------------------------------------------------
\* Resume, of a row or of a result, and a new session in the project whose
\* header is shown. Each button is disabled while its mutation is pending.
Resume ==
  /\ Turn
  /\ ListShown \/ (shown /\ search = "results")
  /\ "resume" \notin starting
  /\ starting' = starting \cup {"resume"}
  /\ UNCHANGED <<cacheVars, shown, selected, search, del, deletes>>

StartNew ==
  /\ Turn
  /\ shown /\ selected = "project"
  /\ "create" \notin starting
  /\ starting' = starting \cup {"create"}
  /\ UNCHANGED <<cacheVars, shown, selected, search, del, deletes>>

\* The new session's page takes the place of this one; or an alert is shown.
Started(what) ==
  /\ what \in starting
  /\ starting' = starting \ {what}
  /\ \/ UNCHANGED <<shown, del>>
     \/ shown' = FALSE /\ del' = Detached
  /\ UNCHANGED <<cacheVars, selected, search, deletes, turns>>

-----------------------------------------------------------------------------
Answer(k, i) ==
  /\ \/ Serve(k, i)
     \/ wire[k][i].at = "answered" /\ Settle(k, i)
  /\ UNCHANGED <<pageVars, del, deletes, turns>>

Break(k, i) ==
  /\ Turn
  /\ wire[k][i] = Sent /\ Settle(k, i)
  /\ UNCHANGED <<pageVars, del, deletes>>

Forget(k) ==
  /\ k \notin Mounted /\ Collect(k)
  /\ UNCHANGED <<pageVars, del, deletes, turns>>

Others(k) ==
  /\ Turn
  /\ Change(k)
  /\ UNCHANGED <<pageVars, del, deletes>>

Next ==
  \/ \E k \in Keys : Select(k) \/ Forget(k) \/ Others(k)
  \/ \E k \in Keys, i \in 1..Slots : Answer(k, i) \/ Break(k, i)
  \/ Leave \/ Return \/ Focus \/ RunSearch \/ SearchAnswer \/ SearchReset
  \/ \E d \in Deletes : \/ \E row \in Rows : DeleteTranscript(d, row)
                        \/ ApplyDelete(d) \/ Deleted(d) \/ DeleteFailed(d)
  \/ Resume \/ StartNew
  \/ \E what \in {"resume", "create"} : Started(what)

Spec == Init /\ [][Next]_vars

-----------------------------------------------------------------------------
(* A transcript that this tab has deleted is not in the list it shows when *)
(* nothing is on its way: not in another scope's, not after two deletions  *)
(* that overlapped, not if a list was fetched while the deletion was made  *)
(* (hooks.ts, useDeleteTranscript). The exception is a fetch that          *)
(* invalidateQueries let go on (QueryCache, old).                          *)
DeletedGoAway == \A k \in Mounted : ShowsOwn(k)

(* The lists implement a view that never goes back: what a deletion took   *)
(* away does not come again with an answer that is late.                   *)
Lists == INSTANCE Replica WITH master <- ver, view <- [k \in Keys |-> query[k].data]
ListsAdvance == Lists!Spec
=============================================================================
