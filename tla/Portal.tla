------------------------------- MODULE Portal -------------------------------
(***************************************************************************)
(* The pages of the portal in one tab: the routes and their guard          *)
(* (web/src/routes), the shell with top bar and side bar that every        *)
(* guarded page mounts anew, the writes its components make, and the       *)
(* cache that they share. Other tabs, wrappers and the server act beside.  *)
(***************************************************************************)
EXTENDS QueryCache, Toasts

CONSTANTS
  MaxSubmits,  \* bound: writes submitted
  MaxTurns     \* bound: navigations, page loads, logins, expiries, broken
               \* requests, writes of others and focus events

ASSUME PortalAssumption ==
  /\ Keys = {"me", "wrappers", "sessions"}
  /\ Polled = {"wrappers"}
  /\ {MaxSubmits, MaxTurns} \subseteq Nat

VARIABLES
  page,     \* the route that is rendered; "none" while the first one loads
  going,    \* the navigation that awaits its guard
  write,    \* write[op]: the mutation op, see Write
  auth,     \* the server knows the tab's cookie
  submits, turns

vars == <<cacheVars, toastVars, page, going, write, auth, submits, turns>>

Guarded == {"index", "pair", "session", "settings", "transcripts"}
Pages == Guarded \cup {"login", "error", "none"}
Nowhere == "nowhere"
Ops == {"create", "resume", "close", "redeem", "deleteWrapper", "settings", "logout"}
Write == [at : {"idle", "sent", "done", "failed"}, ver : 0..MaxVer]
NoWrite == [at |-> "idle", ver |-> 0]

PortalTypeOK ==
  /\ CacheTypeOK
  /\ page \in Pages
  /\ going \in [to : Guarded \cup {Nowhere}, wait : BOOLEAN]
  /\ write \in [Ops -> Write]
  /\ auth \in BOOLEAN
  /\ submits \in 0..MaxSubmits /\ turns \in 0..MaxTurns

Stay == [to |-> Nowhere, wait |-> FALSE]

\* What every guarded page shows: its shell has a top bar, with the user, and
\* a side bar.
TopBar == {"me"}
Sidebar == {"wrappers", "sessions"}
Mounted == IF page \in Guarded THEN TopBar \cup Sidebar ELSE {}

Turn == turns < MaxTurns /\ turns' = turns + 1

\* A full load of guarded page p: nothing of the tab is left, and the guard
\* asks for me.
Loading(p) ==
  /\ query' = [NoEntries EXCEPT !["me"].cur = 1]
  /\ wire' = [NoRequests EXCEPT !["me"][1] = Sent]
  /\ own' = [k \in Keys |-> 0]
  /\ page' = "none" /\ going' = [to |-> p, wait |-> TRUE]
  /\ write' = [op \in Ops |-> NoWrite]
  /\ toasts' = <<>> /\ toastTimeouts' = {} /\ count' = 0
  /\ UNCHANGED ver

Init ==
  /\ query = [NoEntries EXCEPT !["me"].cur = 1]
  /\ wire = [NoRequests EXCEPT !["me"][1] = Sent]
  /\ ver = [k \in Keys |-> 1] /\ own = [k \in Keys |-> 0]
  /\ page = "none" /\ going = [to |-> "index", wait |-> TRUE]
  /\ write = [op \in Ops |-> NoWrite]
  /\ auth = TRUE /\ submits = 0 /\ turns = 0
  /\ ToastInit

-----------------------------------------------------------------------------
\* beforeLoad: fetchQuery(['me']) awaits an answer unless the cache has one
\* younger than 30 s, which is nearer than the staleTime of useMe. A new
\* navigation supersedes the one that waits.
EnsureAuthed(p, K, entries) ==
  \E asks \in BOOLEAN :
    /\ Invalid("me") => asks
    /\ Fetching(K \cup {k \in {"me"} : asks /\ Idle(k)}, entries)
    /\ going' = [to |-> p, wait |-> asks]

\* A link to route p, or the tab's history.
Navigate(p) ==
  /\ Turn
  /\ page # "none"
  /\ EnsureAuthed(p, {}, query)
  /\ UNCHANGED <<ver, own, toastVars, page, write, auth, submits>>

ToIndex == Navigate("index")
ToPair == Navigate("pair")
ToSession == Navigate("session")
ToSettings == Navigate("settings")
ToTranscripts == Navigate("transcripts")

\* The route is rendered, its shell mounted anew. A link to the page that is
\* rendered changes nothing but the id of the session, if it has one.
Enter ==
  /\ going.to # Nowhere /\ ~going.wait
  /\ page' = going.to /\ going' = Stay
  /\ IF going.to = page
     THEN Fetching({}, query)
     ELSE \E aged \in SUBSET Keys : Fetching(Unserved(Keys, aged), query)
  /\ UNCHANGED <<ver, own, toastVars, write, auth, submits, turns>>

\* The guard awaits the fetch that request i serves.
Awaited(k, i) == k = "me" /\ going.wait /\ i = query[k].cur

Arrive(k, i) ==
  /\ wire[k][i].at = "answered"
  /\ Settle(k, i)
  /\ going' = IF Awaited(k, i) THEN [going EXCEPT !.wait = FALSE] ELSE going
  /\ UNCHANGED <<toastVars, page, write, auth, submits, turns>>

\* Mutant of Fail: the guard catches what it does not handle.
FailSwallowed(k, i, refuge) ==
  /\ wire[k][i] = Sent
  /\ Settle(k, i)
  /\ going' = IF Awaited(k, i) THEN [going EXCEPT !.wait = FALSE] ELSE going
  /\ UNCHANGED <<toastVars, page, write, auth, submits>>

\* A request fails. If the guard awaits it, the tab goes to page refuge.
Fail(k, i, refuge) ==
  /\ wire[k][i] = Sent
  /\ Settle(k, i)
  /\ IF Awaited(k, i) THEN page' = refuge /\ going' = Stay ELSE UNCHANGED <<page, going>>
  /\ UNCHANGED <<toastVars, write, auth, submits>>

\* 401: the guard redirects to the login page, which mounts none of the keys.
Deny(k, i) == ~auth /\ Fail(k, i, "login") /\ UNCHANGED turns

\* Anything else is thrown to the router, which shows an error.
Break(k, i) == Turn /\ Fail(k, i, "error")

-----------------------------------------------------------------------------
\* The side bar shows its lists, and with them the buttons, once both are
\* loaded and neither failed.
SidebarShows ==
  /\ page \in Guarded
  /\ \A k \in Sidebar : query[k].data # 0 /\ ~query[k].err

\* mutate(). The button is disabled while the mutation is pending, but for
\* those of close and logout: one write of each kind at a time is a bound.
Submit(op) ==
  /\ write[op] = NoWrite
  /\ submits < MaxSubmits /\ submits' = submits + 1
  /\ write' = [write EXCEPT ![op].at = "sent"]
  /\ UNCHANGED <<cacheVars, toastVars, page, going, auth, turns>>

CreateSession == SidebarShows /\ Submit("create")
DeleteWrapper == SidebarShows /\ Submit("deleteWrapper")
ResumeTranscript == page = "transcripts" /\ Submit("resume")
CloseSession == page = "session" /\ Submit("close")
RedeemPair == page = "pair" /\ Submit("redeem")
UpdateSettings == page = "settings" /\ Submit("settings")
Logout == page \in Guarded /\ Submit("logout")

KeyOf(op) ==
  CASE op \in {"create", "resume", "close"} -> "sessions"
    [] op \in {"redeem", "deleteWrapper"} -> "wrappers"
    [] op = "settings" -> "me"

\* The server makes the write, or refuses it, or it fails without effect.
Apply(op) ==
  /\ write[op].at = "sent"
  /\ \/ /\ auth
        /\ IF op = "logout"
           THEN /\ auth' = FALSE /\ UNCHANGED ver
                /\ write' = [write EXCEPT ![op].at = "done"]
           ELSE /\ ver[KeyOf(op)] < MaxVer
                /\ ver' = [ver EXCEPT ![KeyOf(op)] = @ + 1]
                /\ write' = [write EXCEPT ![op] = [at |-> "done", ver |-> ver[KeyOf(op)] + 1]]
                /\ UNCHANGED auth
        /\ UNCHANGED turns
     \/ /\ IF auth THEN Turn ELSE UNCHANGED turns
        /\ write' = [write EXCEPT ![op].at = "failed"]
        /\ UNCHANGED <<ver, auth>>
  /\ UNCHANGED <<query, wire, own, toastVars, page, going, submits>>

\* The mutation op has succeeded, and this tab knows.
Told(op) ==
  /\ write[op].at = "done"
  /\ write' = [write EXCEPT ![op] = NoWrite]
  /\ own' = [own EXCEPT ![KeyOf(op)] = IF @ < write[op].ver THEN write[op].ver ELSE @]
  /\ IF op = "settings" THEN AddToast ELSE UNCHANGED toastVars
  /\ UNCHANGED <<ver, page, auth, submits, turns>>

\* Mutant of Done: the list is not invalidated.
DoneQuietly(op, to) ==
  /\ Told(op)
  /\ IF to = Nowhere THEN UNCHANGED <<query, wire, going>> ELSE EnsureAuthed(to, {}, query)

\* onSuccess of the mutation, whatever page is rendered by now: the list that
\* it changed is invalidated, and the component goes on to its next page.
Done(op, to) ==
  /\ Told(op)
  /\ LET entries == Invalidated({KeyOf(op)}, Mounted)
         K == {k \in {KeyOf(op)} : Replaced(k, k \in Mounted)}
     IN  IF to = Nowhere
         THEN Fetching(K, entries) /\ UNCHANGED going
         ELSE EnsureAuthed(to, K, entries)

SessionCreated == Done("create", "session")
SessionResumed == Done("resume", "session")
SessionClosed == Done("close", "index")
PairRedeemed == Done("redeem", Nowhere)
WrapperDeleted == Done("deleteWrapper", Nowhere)
SettingsUpdated == Done("settings", Nowhere)

\* The three forms show a toast; the others alert, or say nothing.
Failed(op) ==
  /\ write[op].at = "failed"
  /\ write' = [write EXCEPT ![op] = NoWrite]
  /\ IF op \in {"create", "redeem", "settings"} THEN AddToast ELSE UNCHANGED toastVars
  /\ UNCHANGED <<cacheVars, page, going, auth, submits, turns>>

\* qc.clear() and a full load of the login page.
LoggedOut ==
  /\ write["logout"].at = "done"
  /\ query' = NoEntries /\ wire' = NoRequests /\ own' = [k \in Keys |-> 0]
  /\ page' = "login" /\ going' = Stay
  /\ write' = [op \in Ops |-> NoWrite]
  /\ toasts' = <<>> /\ toastTimeouts' = {} /\ count' = 0
  /\ UNCHANGED <<ver, auth, submits, turns>>

-----------------------------------------------------------------------------
\* The user loads a page, or comes back from the provider's login.
Reload(p) == Turn /\ Loading(p) /\ UNCHANGED <<auth, submits>>
LogIn == page = "login" /\ Turn /\ auth' = TRUE /\ Loading("index") /\ UNCHANGED submits

\* The cookie's session expires or ends in another tab.
Expire ==
  /\ Turn /\ auth /\ auth' = FALSE
  /\ UNCHANGED <<cacheVars, toastVars, page, going, write, submits>>

Answer(k, i) ==
  /\ auth /\ Serve(k, i)
  /\ UNCHANGED <<toastVars, page, going, write, auth, submits, turns>>

Poll(k) ==
  /\ k \in Mounted /\ Refetch(k)
  /\ UNCHANGED <<toastVars, page, going, write, auth, submits, turns>>

Focus(aged) ==
  /\ Turn
  /\ Fetching(Unserved(Mounted, aged), query)
  /\ UNCHANGED <<ver, own, toastVars, page, going, write, auth, submits>>

Forget(k) ==
  /\ k \notin Mounted /\ going = Stay
  /\ Collect(k)
  /\ UNCHANGED <<toastVars, page, going, write, auth, submits, turns>>

Others(k) ==
  /\ Turn
  /\ Change(k)
  /\ UNCHANGED <<toastVars, page, going, write, auth, submits>>

Toasting == ToastStep /\ UNCHANGED <<cacheVars, page, going, write, auth, submits, turns>>

Next ==
  \/ ToIndex \/ ToPair \/ ToSession \/ ToSettings \/ ToTranscripts
  \/ \E p \in Guarded : Reload(p)
  \/ \E k \in Keys : Poll(k) \/ Forget(k) \/ Others(k)
  \/ \E k \in Keys, i \in 1..Slots : Arrive(k, i) \/ Answer(k, i) \/ Deny(k, i) \/ Break(k, i)
  \/ CreateSession \/ DeleteWrapper \/ ResumeTranscript \/ CloseSession
  \/ RedeemPair \/ UpdateSettings \/ Logout
  \/ SessionCreated \/ SessionResumed \/ SessionClosed
  \/ PairRedeemed \/ WrapperDeleted \/ SettingsUpdated
  \/ \E op \in Ops : Apply(op) \/ Failed(op)
  \/ \E aged \in SUBSET Keys : Focus(aged)
  \/ Enter \/ LoggedOut \/ LogIn \/ Expire \/ Toasting

\* Answers come and are taken; the interval of a polled list goes on.
Fairness ==
  /\ \A k \in Keys, i \in 1..Slots : WF_vars(Arrive(k, i)) /\ WF_vars(Answer(k, i) \/ Deny(k, i))
  /\ \A k \in Polled : WF_vars(Poll(k))

Spec == Init /\ [][Next]_vars /\ Fairness

-----------------------------------------------------------------------------
(* A list that is shown and awaits nothing has in it every write this tab  *)
(* was told of, whatever was on its way when the write was made            *)
(* (api/hooks.ts, invalidateQueries in onSuccess). The exception is a      *)
(* fetch that invalidateQueries let go on (QueryCache, old).               *)
OwnWritesShow == \A k \in Mounted : ShowsOwn(k)

(* The lists a tab shows are versions the server had, and never go back to *)
(* an earlier one, although answers to cancelled fetches come late.        *)
Shown == INSTANCE Replica WITH master <- ver, view <- [k \in Keys |-> query[k].data]
ReadsAdvance == Shown!Spec

(* The list of wrappers, which is polled, catches up with the server on    *)
(* every page, for as long as the user is logged in.                       *)
WrappersCatchUp ==
  []<>(page \notin Guarded \/ ~auth \/ query["wrappers"].data = ver["wrappers"])

(* A guarded page is shown only with a user that the server has confirmed  *)
(* since the tab was loaded, whichever navigation, answer or logout came   *)
(* in between (routes/*.tsx, beforeLoad).                                  *)
GuardHolds == page \in Guarded => query["me"].data # 0
=============================================================================
