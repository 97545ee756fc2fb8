# Verification of claude-switch

TLA+ models of [claude-switch](../src/README.md), the TLC runs that check them on
small instances, and TLAPS proofs of what matters most for every instance.

claude-switch runs Claude sessions on a user's machines and shows them in a
browser. A *wrapper* (`cmd/claude-switch`) on each machine owns the PTY processes
and keeps one WebSocket to the *server* (`cmd/claude-switch-server`), which keeps
rows in MongoDB and passes terminal bytes to and from the *web portal* (`web/`).

## 1. Inventory

| Component | State | Operations | Correct when |
|---|---|---|---|
| Session rows, `internal/store/sessions.go` | status, exit reason | Create, MarkRunning, MarkExited, MarkWrapperOffline, MarkRunningFromOffline, ListLiveByWrapper | a row says of a process only what is true of it |
| Hub, `internal/hub/hub.go` | `wrappers`, `sessionWrap`, `subscribers`, `rings`, under one lock that is released before every send | Register/UnregisterWrapper, Open/CloseSession, AssignSession, Subscribe, Fanout, SendSearchRequest | it routes to connections that are served, and every live session of a wrapper is routed |
| Wrapper connection handler, `internal/wswrapper` | one goroutine per connection | hello and reconcile, started, exited, catalog.diff, search.results, deferred cleanup | handlers of one wrapper that overlap do no harm |
| Sessions API, `internal/api/sessions.go` | none of its own | Create, Resume, Delete | a request leaves row, route and process in agreement |
| Supervisor, `internal/session` | session table, processes, the bounded events channel | Open, Close, reader, discoverAndTail, emit | an id is spawned once; an end is announced |
| Client, `internal/ws` | the current connection, what readLoop is handling | Run (redial), runOnce, event loop, readLoop | it gets back to the server after any outage |
| Search fan-out, `internal/searchhub` | awaiters | Dispatch, Deliver | an answer agrees with the statuses it reports, and comes |
| Terminal stream, hub + `internal/wsbrowser` + `useSessionStream.ts` | subscribers, ring, the tab's socket | Subscribe, replay, FanoutPTYData, Unsubscribe, reconnect | nothing is lost between replay and live output; no tab is stranded |
| Catalog, `internal/transcripts`, `main.go`, `store/transcripts.go`, `store/projects.go` | snapshot, channel of diffs, rows | scan, diff, push, full and incremental frames, ReplaceForWrapper, soft delete | the rows mirror the disk and keep what the user hid |
| Pairing and tokens, `internal/auth`, `api/device.go`, `api/pair.go`, `api/wrappers.go` | code, wrapper rows, tokens, `credentials.json`, the refresher | pair, redeem, deny, refresh, revoke, start | a code makes one wrapper, for the user whose approval took effect; a daemon keeps its token; a revoked wrapper loses its own |
| Protocol encoding, ring arithmetic, coalescer, tailing, searcher | small | pure or sequential | see "Not modelled" |
| Session page, `useSessionStream.ts`, `SessionView.tsx`, `Terminal.tsx`, `proto/ptydata.ts` | a socket in a ref, a retry timer, the terminal of the first render | mount, change of session, unmount, open, message, close, retry, write | one connection or one timer at a time; input reaches the session that is shown |
| Portal, `routes/`, `api/hooks.ts`, `api/client.ts`, `queryClient.ts`, the shell's components | the page, the guard that waits, TanStack Query's cache, mutations on their way | navigate, load, poll, focus, invalidate, cancel, seven mutations, login, logout | a guarded page has a user; what the user wrote is shown; what is shown never goes back |
| Transcripts browser, `TranscriptsBrowser.tsx` | the selected scope, one cached list per scope, a search | select, delete, resume, start, search, leave, return | what was deleted does not come back |
| Settings form and toasts, `SettingsForm.tsx`, `use-toast.ts`, with `internal/api/me.go` | the form, the cached user, the stored row; the list of toasts and their timers | edit, save in two writes, refetch; add, dismiss, remove | what is said to be saved is in the row as it was asked for; a timer takes away its own toast |
| OAuth, browser sessions, CSRF, messages, users, router, configuration, static files, UI primitives | single rows, cookies | request/response | see "Not modelled" |

The components interact through: the WebSockets between wrapper, server and tabs
(ordered frames, lost with the connection), the portal's GETs and POSTs (answered
in any order), the query cache that all pages of a tab share, direct calls under the hub's lock, Go channels (events 256,
catalog updates 32, one result per search target), the store's rows, and the
goroutines that outlive the connection they were started for.

What is hard: (1) two handlers of one wrapper overlap, because a wrapper redials
before the server has noticed that its old connection is gone; (2) the hub looks
up under its lock and sends after it; (3) reconcile, the API and events update one
row from three goroutines; (4) a goroutine of a dropped connection finishes what it
had read; (5) a full channel drops events; (6) retries and late answers in pairing,
refresh and search; (7) restarts of either side, which lose maps but not rows;
(8) effects of the portal that are cleaned up while their sockets, timers and
fetches go on, and answers that come after the write they should have in them.
`PROJECT.json` lists these as hazards, each with its line.

## 2. Modules

| Module | Models | Correspondence |
|---|---|---|
| `Deployment` | wrappers, sessions, who owns which | constants only |
| `Links` | WebSockets between wrapper and server | `link`, `peer`, frames in flight in each direction, connections the server has not accepted yet; a write on a connection that is down loses the frame |
| `SessionStore`, `Hub` | rows; routes | one operator per repository or hub method, one step each as MongoDB's single-document updates and the lock make it |
| `Supervisor` | `Supervisor`, `Session`, `emit` | `Open` is two steps (`OpenInsert`, `OpenAnnounce`): between the unlock and the first event, the process may end |
| `WsClient` | `ws.Client` | `Dial` (with hello), event loop (`SendEvent`), `readLoop` (`TakeFrame` and the steps of `handleControl`), per connection: that of a dropped one goes on |
| `WsWrapper` | `wswrapper.Handler` | the handler's goroutine as a program counter; `reconcile` row by row; the deferred cleanup in its two steps |
| `SessionsAPI` | Create/Resume/Delete | Create is four steps: insert, route, send, answer or fail |
| `Lifecycle` | the composition, faults, fairness, properties | every step is one step of one component |
| `LifecycleProofs` | TLAPS proofs about `Lifecycle` | |
| `SearchHub` | Dispatch and Deliver | look-up and send of Deliver are two steps |
| `Stream` | one session's stream from handler to tab | fan-out in its three critical sections, replay in its three sends |
| `Catalog` | files, watcher, client, handlers, rows | ReplaceForWrapper is four steps, as it is four groups of updates; a scan at a start, and the watcher's first, may fail (`InitialScan`, `FirstScanFails`) |
| `Pairing` | pair command, server handlers, refresher, credentials file, revocation | time in steps of the refresher's interval; a redeem is its update (`Approve`) and its 200 (`AnswerRedeem`), which may never come |
| `PairingProofs` | TLAPS proofs about `Pairing` | |
| `PtyFrame` | the binary `pty.data` frame | encoder and decoder byte by byte, over a ULID of any length |
| `Toasts` | the toast store | the reducer's actions and the removal timers; pages compose it by `AddToast` |
| `Tab` | a session page in one tab | the hook's effect and its clean-up are one step each, as React runs them; the browser delivers open, message and close one at a time; the server's end is external |
| `QueryCache` | TanStack Query as the portal sets it up (external), and the requests for it | of a GET only the version it returns is kept; `Fetching`, `Invalidated`, `Settle` are what the pages build their steps from |
| `Replica` | the promise of a cache: versions the server had, never going back | abstract specification; `Portal` and `Browse` implement it |
| `Portal` | routes, guard, shell, mutations, cache | `beforeLoad` is two steps (`EnsureAuthed` and `Enter`) with the fetch in between; a mutation is submit, the server's write, `onSuccess` |
| `Browse` | the transcripts page | one key per scope, nested; a deletion is like a mutation of `Portal` |
| `Settings` | the form and the handler of its Save | `UpdateSettings` is two steps, as it is two writes; a form that is left leaves its POST behind (`Left`), and the next one has a mutation of its own |
| `CacheProofs` | lemmas about `QueryCache` that both page proofs cite | |
| `TabProofs` | TLAPS proofs about `Tab` and `Settings`, the pages that make toasts, and about `PtyFrame` | |
| `TranscriptProofs` | TLAPS proofs about `SearchHub` and `Catalog`, the two parts of the transcript subsystem | |
| `PortalProofs`, `BrowseProofs`, `StreamProofs` | TLAPS proofs about the module of that name | |
| `MC*` | constants for TLC that are functions, symmetry sets | |

An operator that a comment calls *mutant of X* is a plausible bug of X. No
specification uses it; it is what a property is tried against.

## 3. Runs

| Run | Question | Bounds |
|---|---|---|
| `lifecycle` | do rows, routes and processes agree, through every crossing of requests, reconnects and restarts? | 1 wrapper, 1 session, 2 connections, events channel 2, 2 frames per direction, 1 fault of any kind |
| `lifecycle_live` | do wrapper and hub find each other again, and do lost opens expire? | same, capacities 1, 1 restart of the server |
| `search` | does an answer agree with what arrived, and does it come? | 2 searches (one naming a wrapper twice), 2 wrappers, 1 lost connection |
| `stream` | is nothing lost between replay and live output; are tabs released and reattached? | 1 tab, 2 browser connections, 2 fan-out handlers, ring of 1 of 2 chunks, 1 loss, DELETE or departure |
| `catalog` | do the rows mirror the disk, do projects exist, do hidden rows stay hidden? | 2 transcripts of 1 project, 2 edits, 1 fault, 2 connections, 1 lingering goroutine, channel 1, 1 soft delete; the watcher's first scan may fail |
| `catalog_live` | does what is scanned, and the disk, end up on the server? | 1 transcript, 2 edits, 1 fault, no soft delete, no lingering goroutine; main's scan at the start and the watcher's first may fail |
| `pairing` | who gets a wrapper of a code, does the daemon keep its token, does revocation bite? | 1 code, 2 users, 2 overlapping polls, 2 wrapper rows, token life 3, margin 2, 2 faults |
| `tab` | does a page keep one connection, and does input go where it should, while sessions are switched and connections come and go? | 2 sessions, 3 sockets that are not yet closed, 1 frame in flight per direction, 3 navigations, refusals or losses, ULIDs of 2 digits for 1 byte |
| `portal` | does the guard hold, are own writes shown, does anything shown go back? | 3 keys, 2 requests of a key at a time, 3 versions, 1 write, 2 navigations, loads, failures, expiries or writes of others |
| `browse` | does a deleted transcript stay away? | 3 nested scopes, 2 requests of a key at a time, 3 versions, 2 deletions that may overlap, 2 selections, searches, visits, failures or writes of others |
| `settings` | is what is said to be saved stored and shown, and do toasts stay? | 3 saves, 1 POST of a form that was left and 1 whose answer is not heard beside the form's own, 4 edits, returns, failures, lost answers, refetches or saves of another tab, entries below, in and above the limits 1..2 |
| `death_recorded` | a statement of the repository that the code does not keep (section 5) | no fault at all |

Why the bounds are enough to be worth running: two connections are what one
reconnection needs, and every connection identity is reused once both ends have
forgotten it, so that many reconnections happen; one fault is added to those that
the code makes itself (an error of `handleControl` takes a connection down, a
register closes the one it displaces), which are not bounded. A channel of
capacity 1 or 2 is full often. Two chunks and a ring of one make the ring forget.
Sessions of a wrapper share only its channel and connection; a second session adds
traffic, which `Output` stands for. In `tab` three sockets are the one in use and
two that close late; their identities are reused. In `portal` and `browse` two
requests of a key are a cancelled one and its successor, and version 3 is a write
on top of one of somebody else; `browse` was also run once with `MaxTurns = 3`
(5.7 million states, no error), which takes longer than a run should. What one
bound leaves out of these two, the theorems of section 4 cover. In `settings` three
POSTs at a time are the form's own, one of a form that was left and one that nobody
waits for. In `pairing` two rows are one more than a code should make. In
`catalog_live` a lingering goroutine would only add what `hole` excepts; `catalog`
has one. That main's scan fails at a restart makes both runs too long: each was run so
once (8.7 and 1.3 million states, no error), and the theorems cover it. Every property is
violated by at least one mutant of the code in its own run, so no bound makes it vacuous.

`CHECK_DEADLOCK FALSE` is given where the system may stop: all searches answered
(`search`), chunks and turns used up (`stream`), edits used up and everything
delivered (`catalog*`), turns used up while no page is mounted or nothing is on
its way (`tab`, `portal`, `browse`, `settings`).

### Properties

*Lifecycle.* `RegisteredIsServing`: the hub never routes to a connection whose
handler is gone. `NoPhantomRunning`: no row runs whose process never started.
`ExitReasonIsTrue`: the reason of an exited row is true of the process.
`SettledRoutes`: when nothing is in flight, the hub routes every session of the
wrapper's table. `NeverRespawned`: an ended process stays ended, so no id is
spawned twice. `Reconnects`, `LostOpenExpires`: as named.

*SearchHub.* `StatusMatchesResults`, `ResultsFit`, `NoSurplusResults`,
`SearchAnswered`. *Stream.* `SubscribersAreRouted`, `NoBrowserStranded`,
`NothingMissed`, `Reattaches`. *Catalog.* `SettledMirrors`, `VisibleHasProject`,
`SoftDeleteSurvivesFull`, `EventuallyMirrors`; their exceptions are a history
variable, `hole`, that records which known gap was met (a diff lost on a dead
connection, two handlers at a time, the unannounced first scan, a diff that stops at a
transcript of an unknown project before others that it could write). So they say that
there is no other gap and that the next full snapshot mends these, and do not catch the
gaps themselves, which `MissedIsRecovered` and `GroundTruth` state. `EventuallyMirrors`
promises the disk only while the watcher polls: if its first scan has failed, the
server ends up with what main's scan found, and no more. *Pairing.* `OwnerIsApprover`: the wrapper belongs to the one
user whose redeem took effect, and no other user is told that the code is approved;
the owner need not be told, as the answer may be lost (section 5). `OneWrapperPerCode`: a second wrapper
comes of a code only if polls overlapped or a poll failed after the first.
`TokenOutlivesOutage`: a running daemon holds an expired token only after a
suspension or when every refresh of the margin failed. `RevokedRunsOut`: a revoked
wrapper is let in no later than a token's life after. `PairEnds`, `BackOnline`.

*Tab.* `OneLiveSocket`: at most one connection is up or coming up, that of the
session shown, and then no timer runs. `NeverStuck`: a page that is shown has a
connection or a timer, and its header says which. `InputReachesShown`: what is
typed reaches the process of the session shown when it was typed, whole, although
the frame may name another (the terminal keeps its first callbacks). `ComesBack`:
once user and network rest, the page is connected or left.

*Portal.* `GuardHolds`: a guarded page has a user the server has confirmed since
the tab was loaded. `OwnWritesShow`: a mounted list that awaits nothing has every
write this tab was told of. `ReadsAdvance`: `Portal` implements `Replica`.
`WrappersCatchUp`: the polled list catches up. *Browse.* `DeletedGoAway` and
`ListsAdvance` say the same of deletions and the lists of all scopes.
`OwnWritesShow` and `DeletedGoAway` have one exception, kept as a history bit
(`QueryCache`, `old`): `invalidateQueries` does not cancel the fetch of a key that
has no data yet or is not mounted, and what that fetch brings may be from before
the write. That is a divergence (section 5), and the properties say that there is
no other way to miss one's own write.

*Settings.* `SavedIsShown`: from "Settings saved" until somebody edits or saves
again, or a POST writes that the shown form does not wait for (another tab's, that of
a form that was left, one whose answer was lost), the row has both settings as they
were asked for; the form shows keep once me has been fetched, and the days of the row
if they are within the limits. If they are not, the row has the nearer limit and the
field what was entered. *Toasts.* `OpenToastStays`: an open toast goes only when it is closed or
newer ones fill the list.

### Fairness

Weak fairness only, of steps that a goroutine, a ticker or the redial loop takes by
itself when it can: Run's `for` loop, the event loop, readLoop, handlers, requests
that have begun, the searcher's timer, the hook's timer, the watcher's ticker, the
refresher's ticker, MongoDB's TTL monitor and, in `Pairing`, time; in a tab, its
event loop (open, message and close events, the retry timer), the answer to a GET or
its refusal, and the interval of a polled query. Users, Claude processes, edits,
faults, sleep and answers of wrappers to a search are never fair. `ComesBack` may
call the opening of a socket fair because a refusal is a step of its own (`Lose`)
and bounded; `WrappersCatchUp` likewise with a request that breaks.

`Reconnects`, `LostOpenExpires` and `EventuallyMirrors` assume `Calm`: two handlers
of one wrapper do not overlap for ever. The code does not guarantee it, and without
it the property is false: the deferred `UnregisterWrapper` of each connection, which
acts by wrapper id, may close the next one, for ever. In practice the redial's
backoff (up to 30 s) outlasts a handler's cleanup.

## 4. Proofs

`LifecycleProofs` proves, for all wrappers, sessions, connections, capacities and
faults, under the named assumptions of `Deployment`, `Supervisor` and `Lifecycle`
(identities are distinct from the null values; the channel has room for one event):

- `TypeCorrect`: `Spec => []TypeOK`, one lemma per component operation and one per
  action of `Next`.
- `RoutesAreServed`: `Spec => []RegisteredIsServing`. The property is not inductive:
  `Register` takes a connection of the backlog, so one must know that such a
  connection has a wrapper (`PeerKnown`) and that dialling reuses only a connection
  nobody holds. `Inv == TypeOK /\ PeerKnown /\ RegisteredIsServing` is inductive:
  `Register` installs a connection in the same step in which its handler becomes
  serving; `Unregister` removes whatever is registered for the wrapper, and that is
  why the property holds although the handler may remove its successor's entry.
- `NoPhantoms`: `Spec => []NoPhantomRunning`, `ReasonsAreTrue`: `Spec =>
  []ExitReasonIsTrue` and `SpawnedAtMostOnce`: `Spec => NeverRespawned`. `OpensInv`
  follows each open_session through the queues and hands: it is in one place at a
  time, and only while its process has not begun. So what is known of a process (it
  has begun, has ended, will never begin) lasts (`Lasts`). `TruthInv` says that
  everything that passes it on is true: events, frames, a hello being reconciled, the
  session table, the rows. `LifeInv` is their conjunction with `Inv`.
- `SettledAreRouted`: `Spec => []SettledRoutes`. While a wrapper holds a connection
  that works, every session of its table is routed or on its way to be (`Reaches`):
  in a started event, in a hello or the handler that reconciles it, in a hand that
  has still to announce it, or with a close_session on its way, which is what Delete
  leaves behind when it takes a route away. `ReachInv` needs that a working
  connection is the registered one or waits for its handler (`ServingInv`: a handler
  of an earlier connection that unregisters its successor closes it too), and that a
  wrapper's connections concern its own sessions (`OwnersInv`). In a wrapper that has
  settled every case but the route is empty.

`PairingProofs` proves, for any codes, users, handlers, wrappers and faults, under
`PairingAssumption`:

- `WrappersHaveApprovers`: `Spec => []OwnerIsApprover`, where the approver is the user
  whose redeem updated the row, answered or not. A handler inserts the wrapper
  for a user it read some steps before, so the property needs two facts more:
  `ToldIsApprover` (no redeem of a pending code has taken effect, only its approver's
  of one that is approved, by the filter on the status in `Redeem`; and nobody is told
  whose redeem has not) and `PollHasApprover` (what a handler holds is still the one
  user whose redeem took effect, though the code may be denied or expired meanwhile,
  and the answer may still be on its way). `OwnerInv` is their conjunction with the
  types.
- `CodesAreUsedOnce`: `Spec => []OneWrapperPerCode`. What counts is which handlers can
  still make a wrapper: `OverlapIsNoted` (two handlers with one code have
  overlapped), `UsedCodeGoes` (a code that made a wrapper is deleted, or a handler is
  about to delete it, or a call failed) and `ApprovedIsFirst` (a handler about to
  insert makes the first). Their conjunction with the property, `OnceInv`, is
  inductive given `OwnerInv`.
- `PairingTyped`: `Spec => []PairingTypeOK`, from `MachineInv`, the types of tokens,
  file and daemon.
- `TokensOutliveOutages`: `Spec => []TokenOutlivesOutage`. `OutageInv` counts: while the
  machine does not sleep, the token's remaining life and the refreshes that failed in
  the margin add up to no less than the margin.
- `RevokedAreOut`: `Spec => RevokedRunsOut`, an action property. `RunOutInv` bounds the
  life of every token of a revoked wrapper, in memory, in the file and in the answer of
  a refresh that was verified before the revocation, by what is left of a token's life
  since then.

`TabProofs`, for any sessions, sockets, ULID lengths and losses:

- `OneConnection`: `Spec => []OneLiveSocket`, and `AlwaysConnecting`: `Spec =>
  []NeverStuck`. Each needs the other, and two facts that are not visible in them:
  `StoppedOrMine` (the sockets in use are exactly those whose effect has not been
  cleaned up, so that a late close event of another finds `stopped` set) and
  `TimerOfPage` (the clean-up clears the timer). `TabTyped` rests on `TabInv`.
- `FrameDecodes`: what `EncodePTYData` makes of a ULID that fits its bytes and a
  payload decodes to both, for all of them and any lengths. `AccumulatedSteps` and
  `RemainingSteps` show that the two recursive functions of `PtyFrame` compute what
  their definitions say, `NumberOfBytes` and `CharsOfNumber` that taking the digits off
  undoes putting them on. The induction is over a set of numbers (`SetInduction`, from
  the well-foundedness of the naturals), as a theorem that takes a predicate cannot be
  used.
- `InputArrives`: `Spec => []InputReachesShown`, from `InputInv`: what is in flight on a
  socket was typed while its session was shown (here `OneLiveSocket` is needed), a
  socket that is closed has nothing in flight, so that one that is used again starts
  empty, and a page that is shown has a first session. `FrameDecodes` gives the rest.
- `OpenToastsStay`: `SettingsSpec => OpenToastStays`, and `OpenNoticesStay`, the same for
  `Spec`. `ToastInv`: no timer runs for a toast that is open, and none for an id above
  the counter, so that a new toast finds no timer of an earlier one.

`CacheProofs` has the lemmas about `QueryCache`, one per operator: each keeps
`CacheInv` and says what becomes of the data shown. `CacheInv` is the types with
`VersionsExist` (nothing is held or answered that the server has not had) and
`AwaitedIsNewer` (the answer that is awaited is no older than what is held), which is
why taking the awaited answer, and no other, never goes back. `OwnInv` adds that what
is held and valid, and the answer that is awaited, have this tab's writes in them.

- `PortalProofs`: `PortalTyped`, `PagesAreGuarded` (`Spec => []GuardHolds`;
  `Guarding` adds that once the guard has let through, the user is known until the
  page is entered), `ReadsNeverGoBack` (`Spec => ReadsAdvance`, the refinement: every
  step is a `Write`, a `Read`, a `Forget` or a stutter of `Replica`) and
  `OwnWritesAreShown` (`Spec => []OwnWritesShow`; the strengthening is `OwnInv` with
  `WritesMade`, a write that was answered is one the server has made, and `Served`,
  a mounted key that awaits nothing is valid or shows an error).
- `BrowseProofs`: `BrowseTyped`, `ListsNeverGoBack` (the refinement, with a `Write`
  of several keys at once for a deletion that concerns nested scopes) and
  `DeletedStayAway` (`Spec => []DeletedGoAway`).

`StreamProofs`, for any tabs, browsers, handlers, chunks and ring: `StreamTyped`,
`OnlyRoutedSubscribed`, `NoneStranded` and `NoGap`. `NothingMissed` speaks of
browsers that are live; the inductive form, `Covered`, speaks of every subscriber
from the moment it is one: a chunk of the ring that it has not got is in the replay
still to be written or with a fan-out that will read, or has read, the subscribers
(`OnItsWay`). It holds because Subscribe takes the ring and joins the set under one
lock, and a fan-out writes the ring before it reads the set.

`TranscriptProofs`, for any wrappers, requests and targets of `SearchHub`:

- `SearchTyped` and `StatusesAreTrue`. What makes it inductive is `Gathered` (who is
  waited for has no status; who is not has one; the matches are of those that are
  "ok") and `OnlyAsked` (an answer on its way is of a wrapper the search named).
- `ResultsFindRoom` (`Spec => []ResultsFit`) and `NoResultIsSurplus`
  (`Spec => []NoSurplusResults`). Both count: `FitInv` sums what is in the channel,
  in searches under way and in read loops, against the requests that were sent, and
  `SurplusInv` does so wrapper by wrapper, over the places at which the search names it.

and for any transcripts, projects, connections, capacities and faults of `Catalog`,
with `CatalogInv` the conjunction of the parts below:

- `CatalogTyped`; `SnapshotsKeepDeletions` (`CatalogSpec => SoftDeleteSurvivesFull`).
- `SettledIsMirrored`: `CatalogSpec => []SettledMirrors`. `ChainInv` says that what the
  rows lack of the wrapper's snapshot is on its way: for each transcript, the last of
  the frames, queued diffs and the one being pushed that speaks of it, or the row if
  none does, has the version of the snapshot (`SaidInPipe`, `SaidInRows`); and the
  project of a transcript is stored by the time that last frame is applied
  (`ProjectsReached`, `MentionsReached`, `MentionsKnown`), because otherwise the upsert
  would stop there. It holds while no gap was met, and rests on `LinkInv` (the
  connection that is up is the client's, and its handler the only one that applies
  frames), `FramesInv` (a full frame is the first of its connection and lists every
  project it mentions) and `BacklogInv` (the diffs not yet sent end at the snapshot).
- `ShownHaveProjects`: `CatalogSpec => []VisibleHasProject`, from `HousedInv`: a visible row
  has its project, also between the steps of a replacement.

`TabProofs` has the settings page, too: `SavedSettingsShow` (`SettingsSpec =>
[]SavedIsShown`), for any limits, entries, failures and numbers of POSTs that overlap.
`FormInv` follows what was asked: as long as nobody edits or saves over it and no other
POST writes, it is in the form's own POST (`AskedInPost`, with each write that was made
in the row), then in the row and in every answer to a fetch (`AskedInRow`), and the form
shows it or what the cache brought over it (`FormOfAsked`: of the days, the ones that
the clamping sends, which within the limits are those in the field).

TLC has checked each of these invariants, too, on the instance of its run; those of
`Catalog` also with two projects, where a diff can stop half-way.

Model-checked only: liveness and the steps under fairness, which are out of the
prover's reach.

## 5. Where the code and its documents disagree

Shown by a run: `death_recorded`, the row of an ended process goes back to running
and stays so (wrapper-pty-design.md:207; supervisor.go:121-129,
store/sessions.go:108).

Stated in the modules, and violated when checked so (each takes a cfg like the one
named, with these changes and the property as its only one):

| Property | cfg | What fails |
|---|---|---|
| `Lifecycle.SettledNotOffline` (invariant) | `lifecycle`, EventCap 1, FrameCap 1 | a live session of a settled wrapper is shown offline (server-design.md:330; wswrapper.go:87-91) |
| `Catalog.MissedIsRecovered` (invariant) | `catalog`, MaxEdits 1, MaxHidden 0 | a goroutine of an earlier connection takes a diff and loses it (ws/client.go:39-43 and 104-122) |
| `Catalog.GroundTruth` (invariant) | `catalog`, `Slug <- TwoProjects`, Conns {c1}, QueueCap 2, MaxEdits 4, no fault, no soft delete | diffs queued while offline are sent after the full snapshot; one of them stops at a transcript whose project the snapshot no longer had, and the row of another stays older than the file, although "a fresh full=true snapshot" is to cover "any deltas accumulated while the wrapper was disconnected" (ws/client.go:34-37 and 102-123; store/transcripts.go:107-110) |
| `Catalog.HiddenStays` (invariant) | `catalog`, MaxEdits 1 | an incremental removal deletes a soft-deleted row (store/transcripts.go:61-63 and 150) |
| `Catalog.KeepsPolling` (property) | `catalog_live` | an error of the watcher's first scan ends it, and what changes later is never scanned, although Run is to drive "the poll loop until ctx is cancelled" (watcher.go:35 and 45-48; main.go:295 drops the error) |
| `Pairing.OwnerIsTold` (invariant) | `pairing` | a wrapper is made for a user whose redeem took effect but was answered 500 or not at all, or not yet; a retry is told 409 (api/pair.go:35-43, store/pairing.go:105) |
| `Pairing.KeptUnlessRevoked` (property) | `pairing`, MaxFaults 1 | a failing store makes the daemon delete good credentials (wrapper-pty-design.md:168; api/device.go:113-120) |
| `Settings.FormShowsStored` (invariant) | `settings` | after "Settings saved" the field shows 200 and the row has 90 (SettingsForm.tsx:26, 59) |
| `Settings.LastSaveWins` (property) | `settings` | after "Settings saved" of a form, the POST of a form that was left before it writes the row (SettingsForm.tsx:9, 69: `isPending` is of the mounted form's own mutation) |

Read, not run. Server and wrapper: a DELETE is answered 204 although close_session may be lost
(server-design.md:244, hub.go:138); an offline wrapper is reported as "error" in a
search, since searchhub compares with an error value of its own (searchhub.go:17-19,
79-82, 110; hub.go:13); live output may precede `replay.end` (server-design.md:268);
`Snapshot` lists sessions that ended (supervisor.go:170); a revoked wrapper's next
connection is not rejected while its token lives (server-design.md:333,
api/wrappers.go:85-89); a denied code is answered 404, not 403 (server-design.md:324);
the refresher ignores `ErrRevoked` (refresher.go:80) and saves over the file of a
machine that was paired anew (refresher.go:118); two handlers can write one wrapper's
catalog (store/transcripts.go:162-164); `sess.JSONLUUID` is written without the lock
that its readers hold (supervisor.go:224); a slow browser holds its wrapper's read
loop for up to 10 s a write (hub.go:183); resize is ignored (wsbrowser.go:92-93).

Portal: `session.exited` makes a toast but neither refetches the sessions nor closes
the socket, so the hook redials (frontend-design.md:98, 120; SessionView.tsx:33-37);
the list of sessions is not polled; a page is not left when useMe gets a 401 later
(frontend-design.md:85, 240-241), and login does not return to the page that was asked
for; without a CSRF cookie the request is sent all the same (frontend-design.md:245,
client.ts:36-37); a terminal keeps the output of the session it showed before
(frontend-design.md:83); the wrappers are invalidated when a code is redeemed, before
the poll makes the row; a fetch that has no data yet, or whose key is not mounted, is
kept over an invalidation (`QueryCache`, `Kept`); a mutation that succeeds navigates,
whatever page is shown by then; the form always shows 30 days, as GET /api/me does not
return them, and a save stores what it shows (SettingsForm.tsx:14, hooks.ts:4-13,
me.go:18-39); the two writes of two saves, of two tabs or of two visits to the page,
may alternate; one toast at a time, so
that an unread message is displaced; the answers of a user whose cookie was exchanged
in another tab mix with those of the next in one cache; the login page offers GitHub
only; a search widens to the wrapper while the selected project is not in the list
(TranscriptsBrowser.tsx:92-94).

## 6. Not modelled, and why

JSON encodings, the scanner's parsing, the searcher's scan, OAuth redirects, CSRF,
configuration, routing, static files, UI primitives and rendering: sequential code over
data, with no interleaving, which unit tests reach. The ring's index arithmetic and the
coalescer: a bounded sequence stands for the one, and the other only regroups bytes.
Terminal resize has no effect at the server. Time appears only as races (a timer may
fire whenever it is set, data may be older than its staleTime whenever it is asked),
except in `Pairing`. The form's Discard reloads the whole tab. MongoDB calls fail only where a module says so
(`SessionsAPI.FailCreate`, `Pairing`, `Settings`, a broken request of the portal).
`useSessionMessages` has no caller and `useProjects` is a query that nothing
invalidates.

## 7. What remains

In this order: the wrapper's ring and its replay after a reconnect joined to `Stream`
(`PtyReplay`); discovery and tailing; expiry of browser sessions; re-pairing beside a
running daemon. An abstract session (starting, running, ended) that `Lifecycle`
implements but for `death_recorded`, and an abstract replicated map for `Catalog`.

To re-run: `tlc -workers 2 -config <run>.cfg <module>` with the module that
`PROJECT.json` names, and `tlapm <module>.tla` for each `*Proofs` module. No proof takes
more than a few minutes.
