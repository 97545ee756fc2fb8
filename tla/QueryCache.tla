----------------------------- MODULE QueryCache -----------------------------
(***************************************************************************)
(* The portal's cache of the server's answers: TanStack Query (external)   *)
(* as web/src/api/queryClient.ts and hooks.ts set it up, and the requests  *)
(* that client.ts makes for it. Of what a GET returns only its version is  *)
(* kept. A page composes this module: it says which keys have a mounted    *)
(* hook, and combines Fetching and Invalidated with what it does itself.   *)
(***************************************************************************)
EXTENDS Naturals

CONSTANTS
  Keys,      \* query keys
  Polled,    \* those with a refetchInterval
  Slots,     \* bound: requests of one key on the way
  MaxVer     \* bound: versions the server has of a key

ASSUME CacheAssumption ==
  /\ Polled \subseteq Keys
  /\ Slots \in Nat \ {0} /\ MaxVer \in Nat \ {0}

VARIABLES
  query,  \* query[k]: the entry of the cache, see Entry
  wire,   \* wire[k][i]: request i for k
  ver,    \* ver[k]: the server's version of what a GET of k returns
  own     \* history: the version after the last write this tab was told of

cacheVars == <<query, wire, ver, own>>

\* data: the version held, 0 for none. inv: isInvalidated. cur: the request
\* whose answer is awaited. lap, old (history): the fetch, or the data it
\* brought, was asked for before an invalidation that let it go on. Whether
\* staleTime has passed since the data came is not kept but chosen.
Entry == [data : 0..MaxVer, inv : BOOLEAN, err : BOOLEAN,
          cur : 0..Slots, lap : BOOLEAN, old : BOOLEAN]
NoEntry == [data |-> 0, inv |-> FALSE, err |-> FALSE, cur |-> 0, lap |-> FALSE, old |-> FALSE]

Request == [at : {"free", "sent", "answered"}, ver : 0..MaxVer]
Free == [at |-> "free", ver |-> 0]
Sent == [at |-> "sent", ver |-> 0]

CacheTypeOK ==
  /\ query \in [Keys -> Entry]
  /\ wire \in [Keys -> [1..Slots -> Request]]
  /\ ver \in [Keys -> 1..MaxVer]
  /\ own \in [Keys -> 0..MaxVer]

NoEntries == [k \in Keys |-> NoEntry]
NoRequests == [k \in Keys |-> [i \in 1..Slots |-> Free]]

CacheInit ==
  /\ query = NoEntries /\ wire = NoRequests
  /\ ver = [k \in Keys |-> 1] /\ own = [k \in Keys |-> 0]

Idle(k) == query[k].cur = 0
Invalid(k) == query[k].data = 0 \/ query[k].inv

-----------------------------------------------------------------------------
CanSend(k) == \E i \in 1..Slots : wire[k][i] = Free
Slot(k) == CHOOSE i \in 1..Slots : wire[k][i] = Free

\* A fetch begins for each key of K, on entries that are as given.
Fetching(K, entries) ==
  /\ \A k \in K : CanSend(k)
  /\ query' = [k \in Keys |->
                 IF k \in K THEN [entries[k] EXCEPT !.cur = Slot(k), !.lap = FALSE,
                                                    !.err = @ /\ entries[k].data # 0]
                            ELSE entries[k]]
  /\ wire' = [k \in Keys |-> IF k \in K THEN [wire[k] EXCEPT ![Slot(k)] = Sent] ELSE wire[k]]

\* Hooks of the keys K are mounted, or their window gets the focus; the data of
\* those in aged is older than their staleTime. What is not valid or aged is
\* fetched, unless it already is.
Unserved(K, aged) == {k \in K : Idle(k) /\ (Invalid(k) \/ k \in aged)}

\* Mutant of Replaced: a fetch on its way is good enough, as for a mount.
ReplacedIfIdle(k, mounted) == mounted /\ Idle(k)

\* invalidateQueries refetches what is mounted (refetchType "active"). A fetch
\* on its way is cancelled for that if the key has data (cancelRefetch), and
\* kept if it has none; that of a key that is not mounted goes on as well.
Replaced(k, mounted) == mounted /\ (Idle(k) \/ query[k].data # 0)

Kept(k, mounted) == ~Idle(k) /\ (~mounted \/ query[k].data = 0)

\* The entries once those of K are invalidated; M are the mounted.
Invalidated(K, M) ==
  [k \in Keys |-> IF k \in K THEN [query[k] EXCEPT !.inv = TRUE, !.lap = Kept(k, k \in M)]
                             ELSE query[k]]

\* Mutant of Refetch: the interval has an eye on the invalid only.
RefetchInvalid(k) ==
  /\ k \in Polled /\ Idle(k) /\ Invalid(k)
  /\ Fetching({k}, query)
  /\ UNCHANGED <<ver, own>>

\* refetchInterval.
Refetch(k) ==
  /\ k \in Polled /\ Idle(k)
  /\ Fetching({k}, query)
  /\ UNCHANGED <<ver, own>>

-----------------------------------------------------------------------------
\* The server answers a GET.
Serve(k, i) ==
  /\ wire[k][i] = Sent
  /\ wire' = [wire EXCEPT ![k][i] = [at |-> "answered", ver |-> ver[k]]]
  /\ UNCHANGED <<query, ver, own>>

\* Mutant of Settled: the answer of a cancelled fetch is taken, too.
SettledByAny(k, i) ==
  IF wire[k][i].at = "answered" THEN [NoEntry EXCEPT !.data = wire[k][i].ver, !.old = query[k].lap]
  ELSE [query[k] EXCEPT !.err = TRUE, !.inv = TRUE, !.cur = 0, !.lap = FALSE]

\* The entry after request i: nothing if it was cancelled; data, which is
\* valid; or an error, which marks the data invalid.
Settled(k, i) ==
  IF i # query[k].cur THEN query[k]
  ELSE IF wire[k][i].at = "answered" THEN [NoEntry EXCEPT !.data = wire[k][i].ver, !.old = query[k].lap]
  ELSE [query[k] EXCEPT !.err = TRUE, !.inv = TRUE, !.cur = 0, !.lap = FALSE]

\* The answer is there, or the request has failed: refused with a 4xx, which
\* is final, or broken in each of the tries that queryClient.ts allows.
Settle(k, i) ==
  /\ wire[k][i] # Free
  /\ query' = [query EXCEPT ![k] = Settled(k, i)]
  /\ wire' = [wire EXCEPT ![k][i] = Free]
  /\ UNCHANGED <<ver, own>>

\* gcTime passes for an entry without hooks.
Collect(k) ==
  /\ Idle(k) /\ query[k] # NoEntry
  /\ query' = [query EXCEPT ![k] = NoEntry]
  /\ UNCHANGED <<wire, ver, own>>

\* Somebody else changes what k shows: another tab, a wrapper.
Change(k) ==
  /\ ver[k] < MaxVer
  /\ ver' = [ver EXCEPT ![k] = @ + 1]
  /\ UNCHANGED <<query, wire, own>>

-----------------------------------------------------------------------------
\* What the hook of k shows when nothing is on the way has this tab's own
\* writes in it, or came of a fetch that was kept over their invalidation.
ShowsOwn(k) ==
  Idle(k) /\ ~query[k].err =>
    ~query[k].inv /\ query[k].data # 0 /\ (query[k].data >= own[k] \/ query[k].old)
=============================================================================
