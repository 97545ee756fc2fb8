------------------------------ MODULE Catalog ------------------------------
(***************************************************************************)
(* The transcripts catalog of one wrapper, from the .jsonl files on its    *)
(* disk to the rows of the server: the polling watcher                     *)
(* (internal/transcripts/watcher.go, catalog.go, runCatalogWatcher in      *)
(* cmd/claude-switch/main.go), the full snapshot and the incremental diffs *)
(* of the client (internal/ws/client.go), the frames' application by the   *)
(* connection handlers (internal/wswrapper/wswrapper.go) and the rows      *)
(* (internal/store/transcripts.go, projects.go). MongoDB calls succeed.    *)
(***************************************************************************)
EXTENDS Naturals, Sequences, FiniteSets

CONSTANTS
  Transcripts,  \* JSONL uuids
  Slug,         \* Slug[t]: the project directory t is in
  Conns,        \* connection identities; recycled once both ends are done
  NoConn,
  QueueCap,     \* capacity of catalogUpdates (32 in main.go)
  FrameCap,     \* bound: catalog frames in flight on a connection
  MaxEdits,     \* bound: changes of files on disk
  MaxFaults,    \* bound: connections lost and restarts of the wrapper
  FailingScans, \* bound: of main's scan at the first "start", at a "restart"
                \* and the watcher's "first" scan, those that may fail
  MaxLurking,   \* bound: fan-in goroutines of past connections
  MaxHidden     \* bound: transcripts that the user deletes

ASSUME CatalogAssumption ==
  /\ IsFiniteSet(Transcripts)
  /\ NoConn \notin Conns
  /\ QueueCap \in Nat \ {0} /\ FrameCap \in Nat \ {0}
  /\ FailingScans \subseteq {"start", "restart", "first"}
  /\ MaxEdits \in Nat /\ MaxFaults \in Nat /\ MaxLurking \in Nat /\ MaxHidden \in Nat

Slugs == {Slug[t] : t \in Transcripts}

VARIABLES
  disk,      \* disk[t]: the version of t's file, 0 when there is none
  edits,     \* changes of files so far
  watcher,   \* Watcher.Run: before its "first" scan, "polling", or "over"
  snap,      \* currentSnap, which is also the watcher's prev
  pushing,   \* the diff that runCatalogWatcher is sending on the channel
  queue,     \* catalogUpdates
  client,    \* the connection that runOnce holds, or NoConn
  draining,  \* its fan-in goroutine runs
  lurking,   \* fan-in goroutines of past connections, still in the select
  link,      \* link[c]: "up" or "down"
  frames,    \* frames[c]: catalog frames in flight to the server
  handler,   \* handler[c]: where the server's handler of c is
  reg,       \* the connection registered in the hub
  frame,     \* frame[c]: the frame that the handler of c is applying
  ids,       \* ids[c]: its slug -> project id map
  projects,  \* projects[p]: the _id of the row of p, 0 when there is none
  lastId,    \* lastId[p]: the last _id a row of p had
  rows,      \* rows[t]: version, project id and deleted_at of t's row
  hidden,    \* history: transcripts whose DELETE was answered 204
  hole,      \* history: what broke the chain of diffs since the last full one
  faults

diskVars == <<disk, edits>>
watchVars == <<watcher, snap, pushing>>
clientVars == <<client, draining, lurking>>
connVars == <<link, frames>>
handlerVars == <<handler, reg, frame, ids>>
storeVars == <<projects, lastId, rows>>
catalogVars == <<diskVars, watchVars, queue, clientVars, connVars, handlerVars, storeVars,
          hidden, hole, faults>>

Versions == [Transcripts -> 0..MaxEdits + 1]
Frame == [full : BOOLEAN, projects : SUBSET Slugs, new : Versions, removed : SUBSET Transcripts]
NoFrame == [full |-> FALSE, projects |-> {}, new |-> [t \in Transcripts |-> 0], removed |-> {}]
Row == [version : 0..MaxEdits + 1, project : Nat, gone : BOOLEAN]
NoFiles == [t \in Transcripts |-> 0]
NoRow == [version |-> 0, project |-> 0, gone |-> FALSE]
HandlerStates == {"none", "dialled", "serving", "upsert", "prune", "transcripts", "remove"}

CatalogTypeOK ==
  /\ disk \in Versions /\ edits \in 0..MaxEdits
  /\ watcher \in {"first", "polling", "over"} /\ snap \in Versions /\ pushing \in Frame
  /\ queue \in Seq(Frame) /\ Len(queue) <= QueueCap
  /\ client \in Conns \cup {NoConn} /\ draining \in BOOLEAN /\ lurking \in 0..MaxLurking
  /\ link \in [Conns -> {"up", "down"}]
  /\ frames \in [Conns -> Seq(Frame)] /\ frame \in [Conns -> Frame]
  /\ handler \in [Conns -> HandlerStates] /\ reg \in Conns \cup {NoConn}
  /\ ids \in [Conns -> [Slugs -> Nat]]
  /\ projects \in [Slugs -> Nat] /\ lastId \in [Slugs -> Nat]
  /\ \A p \in Slugs : projects[p] \in {0, lastId[p]}
  /\ rows \in [Transcripts -> Row]
  /\ hidden \subseteq Transcripts
  /\ hole \subseteq {"skipped", "lost", "raced", "stopped"}
  /\ faults \in 0..MaxFaults

Present(v, p) == {t \in Transcripts : Slug[t] = p /\ v[t] # 0}
Full(v) == [full |-> TRUE, projects |-> {p \in Slugs : Present(v, p) # {}},
            new |-> v, removed |-> {}]

\* main: a scan before anything else; one that fails leaves no files to tell of.
InitialScan(which) == {disk} \cup (IF which \in FailingScans THEN {NoFiles} ELSE {})

CatalogInit ==
  /\ disk \in [Transcripts -> {0, 1}] /\ edits = 0
  /\ watcher = "first" /\ snap \in InitialScan("start") /\ pushing = NoFrame /\ queue = <<>>
  /\ client = NoConn /\ draining = FALSE /\ lurking = 0
  /\ link = [c \in Conns |-> "down"] /\ frames = [c \in Conns |-> <<>>]
  /\ handler = [c \in Conns |-> "none"] /\ reg = NoConn
  /\ frame = [c \in Conns |-> NoFrame] /\ ids = [c \in Conns |-> [p \in Slugs |-> 0]]
  /\ projects = [p \in Slugs |-> 0] /\ lastId = [p \in Slugs |-> 0]
  /\ rows = [t \in Transcripts |-> NoRow]
  /\ hidden = {} /\ hole = {} /\ faults = 0

Fault == faults < MaxFaults /\ faults' = faults + 1

-----------------------------------------------------------------------------
\* Claude, or the user, writes or removes a .jsonl file.
Edit(t) ==
  /\ edits < MaxEdits
  /\ edits' = edits + 1
  /\ \/ disk' = [disk EXCEPT ![t] = edits + 2]
     \/ disk[t] # 0 /\ disk' = [disk EXCEPT ![t] = 0]
  /\ UNCHANGED <<watchVars, queue, clientVars, connVars, handlerVars, storeVars,
                 hidden, hole, faults>>

\* The watcher's first scan updates currentSnap and announces nothing; what
\* it finds new is missing from a connection that has sent its snapshot.
FirstScan ==
  /\ watcher = "first"
  /\ watcher' = "polling"
  /\ snap' = disk
  /\ hole' = IF disk # snap /\ client # NoConn THEN hole \cup {"skipped"} ELSE hole
  /\ UNCHANGED <<diskVars, pushing, queue, clientVars, connVars, handlerVars, storeVars,
                 hidden, faults>>

\* It fails: Run returns the error, which nobody looks at, and nothing scans
\* again while the process runs.
FirstScanFails ==
  /\ watcher = "first" /\ "first" \in FailingScans
  /\ watcher' = "over"
  /\ UNCHANGED <<diskVars, snap, pushing, queue, clientVars, connVars, handlerVars, storeVars,
                 hidden, hole, faults>>

\* Catalog.Diff: projects are compared by session count, activity and cwd, so
\* a transcript that changes may leave its project out of the diff, and so may
\* one that takes another's place.
Diff(old, new, ps) ==
  [full |-> FALSE, projects |-> ps,
   new |-> [t \in Transcripts |-> IF new[t] # old[t] THEN new[t] ELSE 0],
   removed |-> {t \in Transcripts : old[t] # 0 /\ new[t] = 0}]

Recounted(old, new) ==
  {p \in Slugs : Present(new, p) # {} /\ Cardinality(Present(new, p)) # Cardinality(Present(old, p))}
Touched(old, new) ==
  {p \in Slugs : Present(new, p) # {} /\ \E t \in Transcripts : Slug[t] = p /\ new[t] # old[t]}

\* A tick. onUpdate is synchronous: no tick while a diff waits for room. A tick
\* whose scan fails changes nothing.
Scan ==
  /\ watcher = "polling"
  /\ pushing = NoFrame
  /\ disk # snap
  /\ snap' = disk
  /\ \E ps \in SUBSET Touched(snap, disk) :
       /\ Recounted(snap, disk) \subseteq ps
       /\ pushing' = Diff(snap, disk, ps)
  /\ UNCHANGED <<diskVars, watcher, queue, clientVars, connVars, handlerVars, storeVars,
                 hidden, hole, faults>>

\* Mutant of Push: the channel is treated as unbounded.
PushUnbounded ==
  /\ pushing # NoFrame
  /\ queue' = Append(queue, pushing)
  /\ pushing' = NoFrame
  /\ UNCHANGED <<diskVars, watcher, snap, clientVars, connVars, handlerVars, storeVars,
                 hidden, hole, faults>>

\* Mutant of Push: a diff that finds the channel full is dropped.
PushOrDrop ==
  /\ pushing # NoFrame
  /\ queue' = IF Len(queue) < QueueCap THEN Append(queue, pushing) ELSE queue
  /\ pushing' = NoFrame
  /\ UNCHANGED <<diskVars, watcher, snap, clientVars, connVars, handlerVars, storeVars,
                 hidden, hole, faults>>

Push ==
  /\ pushing # NoFrame
  /\ Len(queue) < QueueCap
  /\ queue' = Append(queue, pushing)
  /\ pushing' = NoFrame
  /\ UNCHANGED <<diskVars, watcher, snap, clientVars, connVars, handlerVars, storeVars,
                 hidden, hole, faults>>

-----------------------------------------------------------------------------
\* runOnce: dial, hello, the full snapshot, and the fan-in goroutine starts.
\* What is still queued from before is sent after the snapshot.
Connect(c) ==
  /\ client = NoConn
  /\ handler[c] = "none" /\ link[c] = "down"
  /\ client' = c
  /\ draining' = TRUE
  /\ link' = [link EXCEPT ![c] = "up"]
  /\ frames' = [frames EXCEPT ![c] = <<Full(snap)>>]
  /\ handler' = [handler EXCEPT ![c] = "dialled"]
  /\ hole' = {}
  /\ UNCHANGED <<diskVars, watchVars, queue, lurking, reg, frame, ids, storeVars,
                 hidden, faults>>

\* Mutant of SendDiff: the goroutine returns after one diff.
SendOneDiff ==
  /\ draining /\ queue # <<>>
  /\ link[client] = "up" /\ Len(frames[client]) < FrameCap
  /\ queue' = Tail(queue)
  /\ frames' = [frames EXCEPT ![client] = Append(@, Head(queue))]
  /\ draining' = FALSE
  /\ UNCHANGED <<diskVars, watchVars, client, lurking, link, handlerVars, storeVars,
                 hidden, hole, faults>>

\* The fan-in goroutine of the connection takes a diff, and writes it. On a
\* connection that is down it is lost, and the goroutine returns if the
\* write reports it.
SendDiff ==
  /\ draining /\ queue # <<>>
  /\ queue' = Tail(queue)
  /\ \/ /\ link[client] = "up" /\ Len(frames[client]) < FrameCap
        /\ frames' = [frames EXCEPT ![client] = Append(@, Head(queue))]
        /\ UNCHANGED <<draining, hole>>
     \/ /\ link[client] = "down"
        /\ hole' = hole \cup {"lost"}
        /\ draining' \in BOOLEAN
        /\ UNCHANGED frames
  /\ UNCHANGED <<diskVars, watchVars, client, lurking, link, handlerVars, storeVars,
                 hidden, faults>>

\* The goroutine of a past connection is still in the select, under the
\* context of the process: it takes a diff, fails to write it, and returns.
StealDiff ==
  /\ lurking > 0 /\ queue # <<>>
  /\ lurking' = lurking - 1
  /\ queue' = Tail(queue)
  /\ hole' = hole \cup {"lost"}
  /\ UNCHANGED <<diskVars, watchVars, client, draining, connVars, handlerVars, storeVars,
                 hidden, faults>>

\* runOnce notices that the connection is down; its goroutine may stay.
RunOnceReturns ==
  /\ client # NoConn /\ link[client] = "down"
  /\ client' = NoConn
  /\ draining' = FALSE
  /\ lurking' = IF draining /\ lurking < MaxLurking THEN lurking + 1 ELSE lurking
  /\ UNCHANGED <<diskVars, watchVars, queue, connVars, handlerVars, storeVars,
                 hidden, hole, faults>>

NetworkDrop ==
  /\ Fault
  /\ \E c \in Conns : link[c] = "up" /\ link' = [link EXCEPT ![c] = "down"]
  /\ UNCHANGED <<diskVars, watchVars, queue, clientVars, frames, handlerVars, storeVars,
                 hidden, hole>>

\* The wrapper's process ends and starts again, with its initial scan.
WrapperRestart ==
  /\ Fault
  /\ watcher' = "first" /\ snap' \in InitialScan("restart") /\ pushing' = NoFrame /\ queue' = <<>>
  /\ client' = NoConn /\ draining' = FALSE /\ lurking' = 0
  /\ link' = [c \in Conns |-> IF c = client THEN "down" ELSE link[c]]
  /\ UNCHANGED <<diskVars, frames, handlerVars, storeVars, hidden, hole>>

-----------------------------------------------------------------------------
\* RegisterWrapper closes the connection it displaces, of which at most the
\* frame already read is still handled.
ClosedByServer(c) ==
  /\ link' = IF c = NoConn THEN link ELSE [link EXCEPT ![c] = "down"]
  /\ frames' = IF c = NoConn \/ Len(frames[c]) <= 1 THEN frames
               ELSE [frames EXCEPT ![c] = <<Head(@)>>]

Register(c) ==
  /\ handler[c] = "dialled"
  /\ handler' = [handler EXCEPT ![c] = "serving"]
  /\ reg' = c
  /\ ClosedByServer(reg)
  /\ UNCHANGED <<diskVars, watchVars, queue, clientVars, frame, ids, storeVars,
                 hidden, hole, faults>>

Applying(c) == handler[c] \in {"upsert", "prune", "transcripts", "remove"}

\* Nothing keeps the handlers of two connections from applying at a time.
TakeFrame(c) ==
  /\ handler[c] = "serving"
  /\ frames[c] # <<>>
  /\ frames' = [frames EXCEPT ![c] = Tail(@)]
  /\ frame' = [frame EXCEPT ![c] = Head(frames[c])]
  /\ handler' = [handler EXCEPT ![c] = "upsert"]
  /\ hole' = IF reg # c \/ \E d \in Conns : Applying(d) THEN hole \cup {"raced"} ELSE hole
  /\ UNCHANGED <<diskVars, watchVars, queue, clientVars, link, reg, ids, storeVars,
                 hidden, faults>>

ApplyUnchanged ==
  UNCHANGED <<diskVars, watchVars, queue, clientVars, connVars, reg, hidden, faults>>

\* ProjectsRepo.UpsertMany, and for a diff the lookup of the slugs that only
\* its transcripts mention.
UpsertProjects(c) ==
  LET ps == frame[c].projects
      fresh == {p \in ps : projects[p] = 0}
      mentioned == IF frame[c].full THEN {} ELSE {Slug[t] : t \in {u \in Transcripts : frame[c].new[u] # 0}}
  IN
  /\ handler[c] = "upsert"
  /\ lastId' = [p \in Slugs |-> IF p \in fresh THEN lastId[p] + 1 ELSE lastId[p]]
  /\ projects' = [p \in Slugs |-> IF p \in fresh THEN lastId'[p] ELSE projects[p]]
  /\ ids' = [ids EXCEPT ![c] = [p \in Slugs |-> IF p \in ps \cup mentioned THEN projects'[p] ELSE 0]]
  /\ handler' = [handler EXCEPT ![c] = IF frame[c].full THEN "prune" ELSE "transcripts"]
  /\ UNCHANGED <<rows, frame, hole>>
  /\ ApplyUnchanged

\* DeleteForWrapperExcept.
PruneProjects(c) ==
  /\ handler[c] = "prune"
  /\ projects' = [p \in Slugs |-> IF p \in frame[c].projects THEN projects[p] ELSE 0]
  /\ handler' = [handler EXCEPT ![c] = "transcripts"]
  /\ UNCHANGED <<lastId, rows, frame, ids, hole>>
  /\ ApplyUnchanged

\* TranscriptsRepo.UpsertMany leaves deleted_at alone, and stops at the first
\* transcript whose project is unknown: which ones came before it depends on
\* the order of their uuids.
UpsertTranscripts(c) ==
  LET new == frame[c].new
      wanted == {t \in Transcripts : new[t] # 0}
      known == {t \in wanted : ids[c][Slug[t]] # 0}
  IN
  /\ handler[c] = "transcripts"
  /\ \E done \in SUBSET known :
       /\ known = wanted => done = wanted
       /\ rows' = [t \in Transcripts |->
                     IF t \in done
                     THEN [rows[t] EXCEPT !.version = new[t], !.project = ids[c][Slug[t]]]
                     ELSE rows[t]]
       /\ hole' = IF c = client /\ done # known THEN hole \cup {"stopped"} ELSE hole
  /\ handler' = [handler EXCEPT ![c] = "remove"]
  /\ UNCHANGED <<projects, lastId, frame, ids>>
  /\ ApplyUnchanged

RemoveRows(c, ts) ==
  /\ handler[c] = "remove"
  /\ rows' = [t \in Transcripts |-> IF t \in ts THEN NoRow ELSE rows[t]]
  /\ handler' = [handler EXCEPT ![c] = "serving"]
  /\ frame' = [frame EXCEPT ![c] = NoFrame]
  /\ ids' = [ids EXCEPT ![c] = [p \in Slugs |-> 0]]
  /\ UNCHANGED <<projects, lastId, hole>>
  /\ ApplyUnchanged

Missing(c) == {t \in Transcripts : frame[c].new[t] = 0}

\* Mutants of RemoveTranscripts: a full snapshot deletes only what it lists,
\* or also the rows the user has hidden.
RemoveListed(c) == RemoveRows(c, frame[c].removed)
RemoveMissing(c) == RemoveRows(c, IF frame[c].full THEN Missing(c) ELSE frame[c].removed)

\* The end of ReplaceForWrapper keeps hidden rows; DeleteByUUIDs does not.
RemoveTranscripts(c) ==
  RemoveRows(c, IF frame[c].full THEN {t \in Missing(c) : ~rows[t].gone} ELSE frame[c].removed)

\* c.Read fails; UnregisterWrapper closes whichever connection is registered.
Unregister(c) ==
  /\ handler[c] = "serving"
  /\ link[c] = "down"
  /\ handler' = [handler EXCEPT ![c] = "none"]
  /\ reg' = NoConn
  /\ link' = [d \in Conns |-> IF d = reg THEN "down" ELSE link[d]]
  /\ frames' = [d \in Conns |-> IF d = c THEN <<>>
                                ELSE IF d = reg /\ frames[d] # <<>> THEN <<Head(frames[d])>>
                                ELSE frames[d]]
  /\ UNCHANGED <<diskVars, watchVars, queue, clientVars, frame, ids, storeVars,
                 hidden, hole, faults>>

HandlerStep(c) ==
  \/ Register(c) \/ TakeFrame(c) \/ Unregister(c)
  \/ UpsertProjects(c) \/ PruneProjects(c) \/ UpsertTranscripts(c) \/ RemoveTranscripts(c)

\* DELETE /api/transcripts/{id}: the soft delete.
SoftDelete(t) ==
  /\ rows[t].version # 0 /\ ~rows[t].gone
  /\ Cardinality(hidden \cup {t}) <= MaxHidden
  /\ rows' = [rows EXCEPT ![t].gone = TRUE]
  /\ hidden' = hidden \cup {t}
  /\ UNCHANGED <<diskVars, watchVars, queue, clientVars, connVars, handlerVars,
                 projects, lastId, hole, faults>>

-----------------------------------------------------------------------------
CatalogNext ==
  \/ \E t \in Transcripts : Edit(t) \/ SoftDelete(t)
  \/ FirstScan \/ FirstScanFails \/ Scan \/ Push \/ SendDiff \/ StealDiff
  \/ RunOnceReturns \/ NetworkDrop \/ WrapperRestart
  \/ \E c \in Conns : Connect(c) \/ HandlerStep(c)

CatalogSpec == CatalogInit /\ [][CatalogNext]_catalogVars

\* The watcher ticks, the goroutines run, and Run redials for ever.
FairSpec ==
  /\ CatalogSpec
  /\ WF_catalogVars(FirstScan) /\ WF_catalogVars(Scan) /\ WF_catalogVars(Push) /\ WF_catalogVars(SendDiff)
  /\ WF_catalogVars(RunOnceReturns) /\ WF_catalogVars(\E c \in Conns : Connect(c))
  /\ \A c \in Conns : WF_catalogVars(HandlerStep(c))

-----------------------------------------------------------------------------
\* Wrapper and server have nothing left to tell each other.
Settled ==
  /\ client # NoConn /\ reg = client /\ link[client] = "up"
  /\ handler[client] = "serving" /\ \A c \in Conns \ {client} : handler[c] = "none"
  /\ frames[client] = <<>> /\ queue = <<>> /\ pushing = NoFrame

\* The rows are those of the wrapper's snapshot, but for hidden ones of files
\* that are gone, which may stay.
Mirrors ==
  \A t \in Transcripts : rows[t].version = snap[t] \/ (rows[t].gone /\ snap[t] = 0)

\* Once settled, the server shows what the wrapper last scanned: full
\* snapshots, and diffs that are older than them, newer or sent late, add up.
\* Only four things break it: a diff lost between channel and connection, two
\* handlers at a time, what the watcher's first scan finds new, and a diff
\* that stops at an unknown project before transcripts it could write.
SettledMirrors == Settled /\ hole = {} => Mirrors

\* A transcript that lists show belongs to a project row that exists: no
\* order of deletions and upserts over reconnects leaves one pointing at a
\* project that was deleted, unless two handlers applied frames at a time.
VisibleHasProject ==
  Settled /\ "raced" \notin hole =>
    \A t \in Transcripts : rows[t].version # 0 /\ ~rows[t].gone =>
      rows[t].project # 0 /\ rows[t].project = projects[Slug[t]]

\* No full snapshot undoes a DELETE, whatever steps of ReplaceForWrapper the
\* request falls between.
SoftDeleteSurvivesFull ==
  [][\A t \in Transcripts : rows[t].gone /\ ~rows'[t].gone =>
       \E c \in Conns : handler[c] = "remove" /\ ~frame[c].full]_catalogVars

\* What the wrapper scans ends up on the server, and unless the watcher's
\* first scan has failed that is what is on disk: nobody waits for ever on a
\* full channel, a stale goroutine or a connection that is gone. As in
\* Lifecycle, handlers of earlier connections must eventually finish first.
Calm == <>[](\A c, d \in Conns : c # d => handler[c] = "none" \/ handler[d] = "none")
EventuallyMirrors ==
  Calm => <>[](hole # {} \/ (Mirrors /\ (snap = disk \/ watcher = "over")))

(***************************************************************************)
(* Statements of the comments that the code does not keep.                 *)
(***************************************************************************)

\* The watcher polls until the process ends: what is on disk is scanned.
KeepsPolling == Calm => <>[](hole # {} \/ snap = disk)

\* A diff missed while disconnected is recovered on the next reconnect.
MissedIsRecovered == Settled /\ hole \subseteq {"lost"} => Mirrors

\* After a reconnect the snapshot is the ground truth: the diffs queued before
\* it, which are sent after it, change nothing.
GroundTruth == Settled /\ hole \subseteq {"stopped"} => Mirrors

\* A soft-deleted row stays, and survives reconciliation.
HiddenStays == \A t \in hidden : rows[t].gone
=============================================================================
