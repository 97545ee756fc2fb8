------------------------------ MODULE Pairing ------------------------------
(***************************************************************************)
(* How a machine gets and keeps the right to connect: the device-code      *)
(* dance of `claude-switch pair` (internal/auth/devicecode.go) with the    *)
(* handlers PairStart, PairPoll and Redeem, the access token that the      *)
(* daemon's refresher renews (internal/auth/refresher.go, TokenRefresh),   *)
(* the credentials file, and the revocation of a wrapper. One machine, and *)
(* time in steps of the refresher's interval.                              *)
(***************************************************************************)
EXTENDS Naturals, Sequences, FiniteSets

CONSTANTS
  Codes,      \* pairing codes: one per run of `claude-switch pair`
  NoCode,
  Users,      \* accounts of the portal
  Nobody,
  Polls,      \* handlers of PairPoll: one, and that of a repeated request
  MaxRows,    \* bound: rows of the wrappers collection, and polls that
              \* are about to make one
  TTL,        \* life of an access token, in intervals (60 in device.go)
  Margin,     \* remaining life at which it is renewed (10 in main.go)
  MaxFaults   \* bound: lost connections and failed calls of the store

ASSUME PairingAssumption ==
  /\ NoCode \notin Codes /\ Nobody \notin Users
  /\ MaxRows \in Nat \ {0}
  /\ TTL \in Nat /\ Margin \in 1..TTL
  /\ MaxFaults \in Nat

VARIABLES
  code,      \* code[k]: status of the row of k, "none" before and "gone" after
  approver,  \* approver[k]: user_id of the row
  redeemed,  \* history: the users whose redeem of k has updated the row
  told,      \* history: the users whose redeem of k was answered 200
  excuse,    \* history: why k may have been used twice
  pair,      \* the code that `claude-switch pair` polls for, or NoCode
  poll,      \* poll[p]: where handler p of PairPoll is
  rows,      \* the wrappers collection; a wrapper's id is its index
  deleting,  \* DELETE /api/wrappers/{id}: past the presence check
  revoked,   \* rows with revoked_at
  since,     \* since[w]: intervals since w was revoked, TTL at most
  file,      \* credentials.json: "absent", "torn" or "whole"
  disk,      \* what it holds when whole
  saving,    \* saving[x]: Save called by the pair command or by the daemon
  daemon,    \* "off", "starting" (RefreshNow) or "running"
  mem,       \* Refresher.current
  ref,       \* the daemon's refresh request: "none", "asked", "verified"
  checked,   \* the refresher has ticked in this interval
  misses,    \* refreshes that failed in a row
  asleep, slept, \* the machine is suspended; it was, since the last refresh
  online,    \* the wrapper the hub has a connection of, 0 when none
  faults

codeVars == <<code, approver, redeemed, told, excuse>>
pairVars == <<pair, poll>>
rowVars == <<rows, deleting, revoked, since>>
fileVars == <<file, disk, saving>>
daemonVars == <<daemon, mem, ref, checked, misses, asleep, slept, online>>
vars == <<codeVars, pairVars, rowVars, fileVars, daemonVars, faults>>

Ids == 1..MaxRows
Cred == [wrapper : 0..MaxRows, left : 0..TTL]
NoCred == [wrapper |-> 0, left |-> 0]
Writers == {"pair", "daemon"}
Idle == [at |-> "idle", code |-> NoCode, user |-> Nobody, wrapper |-> 0, heard |-> FALSE]
NotSaving == [at |-> "no", cred |-> NoCred]

PairingTypeOK ==
  /\ code \in [Codes -> {"none", "pending", "approved", "gone"}]
  /\ approver \in [Codes -> Users \cup {Nobody}]
  /\ redeemed \in [Codes -> SUBSET Users] /\ told \in [Codes -> SUBSET Users]
  /\ excuse \in [Codes -> SUBSET {"overlap", "failure"}]
  /\ pair \in Codes \cup {NoCode}
  /\ poll \in [Polls -> [at : {"idle", "approved", "created"}, code : Codes \cup {NoCode},
                         user : Users \cup {Nobody}, wrapper : 0..MaxRows, heard : BOOLEAN]]
  /\ \A p, q \in Polls : poll[p].heard /\ poll[q].heard => p = q
  /\ rows \in Seq([code : Codes, user : Users]) /\ Len(rows) <= MaxRows
  /\ deleting \subseteq DOMAIN rows /\ revoked \subseteq DOMAIN rows
  /\ since \in [Ids -> 0..TTL]
  /\ file \in {"absent", "torn", "whole"} /\ disk \in Cred
  /\ saving \in [Writers -> [at : {"no", "begin", "truncated"}, cred : Cred]]
  /\ daemon \in {"off", "starting", "running"} /\ mem \in Cred
  /\ ref \in {"none", "asked", "verified"}
  /\ checked \in BOOLEAN /\ misses \in 0..TTL /\ asleep \in BOOLEAN /\ slept \in BOOLEAN
  /\ online \in 0..Len(rows)
  /\ faults \in 0..MaxFaults

Init ==
  /\ code = [k \in Codes |-> "none"] /\ approver = [k \in Codes |-> Nobody]
  /\ redeemed = [k \in Codes |-> {}] /\ told = [k \in Codes |-> {}]
  /\ excuse = [k \in Codes |-> {}]
  /\ pair = NoCode /\ poll = [p \in Polls |-> Idle]
  /\ rows = <<>> /\ deleting = {} /\ revoked = {} /\ since = [w \in Ids |-> 0]
  /\ file = "absent" /\ disk = NoCred /\ saving = [x \in Writers |-> NotSaving]
  /\ daemon = "off" /\ mem = NoCred /\ ref = "none" /\ checked = TRUE /\ misses = 0
  /\ asleep = FALSE /\ slept = FALSE /\ online = 0
  /\ faults = 0

Fault == faults < MaxFaults /\ faults' = faults + 1

-----------------------------------------------------------------------------
\* PairStart; the command gives up when the answer is lost.
PairStart(k) ==
  /\ pair = NoCode /\ saving["pair"] = NotSaving
  /\ code[k] = "none"
  /\ code' = [code EXCEPT ![k] = "pending"]
  /\ pair' = k
  /\ UNCHANGED <<approver, redeemed, told, excuse, poll, rowVars, fileVars, daemonVars, faults>>

\* Mutant of Approve: the status is not in the filter of the update.
ApproveAny(u, k) ==
  /\ code[k] \in {"pending", "approved"}
  /\ code' = [code EXCEPT ![k] = "approved"]
  /\ approver' = [approver EXCEPT ![k] = u]
  /\ redeemed' = [redeemed EXCEPT ![k] = @ \cup {u}]
  /\ UNCHANGED <<told, excuse, pairVars, rowVars, fileVars, daemonVars, faults>>

\* Redeem: one update, of a row that is still pending. It does not look at
\* expires_at; any other row or none is an error and changes nothing. Polls,
\* denials and the TTL monitor may come between the update and its answer.
Approve(u, k) ==
  /\ code[k] = "pending"
  /\ code' = [code EXCEPT ![k] = "approved"]
  /\ approver' = [approver EXCEPT ![k] = u]
  /\ redeemed' = [redeemed EXCEPT ![k] = @ \cup {u}]
  /\ UNCHANGED <<told, excuse, pairVars, rowVars, fileVars, daemonVars, faults>>

\* The 200 of a redeem. It need not come: once the update is made, its call may
\* still fail on a context that is done (500), or the connection break.
AnswerRedeem(u, k) ==
  /\ u \in redeemed[k] \ told[k]
  /\ told' = [told EXCEPT ![k] = @ \cup {u}]
  /\ UNCHANGED <<code, approver, redeemed, excuse, pairVars, rowVars, fileVars, daemonVars,
                 faults>>

\* Redeem with deny deletes the row, approved or not.
Deny(k) ==
  /\ code[k] \in {"pending", "approved"}
  /\ code' = [code EXCEPT ![k] = "gone"]
  /\ UNCHANGED <<approver, redeemed, told, excuse, pairVars, rowVars, fileVars, daemonVars, faults>>

\* MongoDB's TTL monitor, some time after expires_at.
Expire(k) == Deny(k)

\* Mutant of Waiting: the ticker starts a poll while one is under way.
WaitingLoosely == pair # NoCode

\* The command waits for the answer of one poll before it sends the next.
Waiting == pair # NoCode /\ \A q \in Polls : ~poll[q].heard

\* PairPoll reads the row. A pending one is answered 202 and changes nothing;
\* for a missing one the command gets 404 and ends. (A read that fails is 404
\* too, and any other failure of a request ends the command: PairStops.)

\* Mutant of PollMissing: the 404 is taken for one more "pending".
PollMissingWaits ==
  /\ Waiting
  /\ code[pair] = "gone"
  /\ UNCHANGED vars

PollMissing ==
  /\ Waiting
  /\ code[pair] = "gone"
  /\ pair' = NoCode
  /\ UNCHANGED <<codeVars, poll, rowVars, fileVars, daemonVars, faults>>

PollApproved(p) ==
  /\ Waiting
  /\ poll[p] = Idle
  /\ code[pair] = "approved"
  /\ Len(rows) + Cardinality({q \in Polls : poll[q].at = "approved"}) < MaxRows
  /\ poll' = [poll EXCEPT ![p] = [at |-> "approved", code |-> pair, user |-> approver[pair],
                                  wrapper |-> 0, heard |-> TRUE]]
  /\ excuse' = IF \E q \in Polls : poll[q].code = pair
               THEN [excuse EXCEPT ![pair] = @ \cup {"overlap"}] ELSE excuse
  /\ UNCHANGED <<code, approver, redeemed, told, pair, rowVars, fileVars, daemonVars, faults>>

\* The connection of the request breaks. net/http sends a GET again by itself
\* on a connection that was reused, or the command ends with the error; the
\* handler goes on.
PollBreaks(p) ==
  /\ Fault
  /\ poll[p].heard
  /\ poll' = [poll EXCEPT ![p].heard = FALSE]
  /\ pair' \in {pair, NoCode}
  /\ UNCHANGED <<codeVars, rowVars, fileVars, daemonVars>>

\* A call to the store fails, or its request's context is done: 500.
PollFails(p) ==
  /\ poll[p].at # "idle"
  /\ IF poll[p].heard THEN Fault /\ pair' = NoCode ELSE UNCHANGED <<pair, faults>>
  /\ excuse' = IF poll[p].at = "created"
               THEN [excuse EXCEPT ![poll[p].code] = @ \cup {"failure"}] ELSE excuse
  /\ poll' = [poll EXCEPT ![p] = Idle]
  /\ UNCHANGED <<code, approver, redeemed, told, rowVars, fileVars, daemonVars>>

\* Wrappers().Create, for the user that was read with the code.
CreateWrapper(p) ==
  /\ poll[p].at = "approved"
  /\ Len(rows) < MaxRows
  /\ rows' = Append(rows, [code |-> poll[p].code, user |-> poll[p].user])
  /\ poll' = [poll EXCEPT ![p].at = "created", ![p].wrapper = Len(rows) + 1]
  /\ UNCHANGED <<codeVars, pair, deleting, revoked, since, fileVars, daemonVars, faults>>

\* What the command does with an answer that reaches it: save, and end.
Answered(p) ==
  IF poll[p].heard
  THEN /\ pair' = NoCode
       /\ saving' = [saving EXCEPT !["pair"] =
                       [at |-> "begin", cred |-> [wrapper |-> poll[p].wrapper, left |-> TTL]]]
  ELSE UNCHANGED <<pair, saving>>

\* Mutant of AnswerPoll: the code is left to expire.
AnswerKeepsCode(p) ==
  /\ poll[p].at = "created"
  /\ poll' = [poll EXCEPT ![p] = Idle]
  /\ Answered(p)
  /\ UNCHANGED <<codeVars, rowVars, file, disk, daemonVars, faults>>

\* WrapperTokens().Issue, Pairing().Delete and the answer.
AnswerPoll(p) ==
  /\ poll[p].at = "created"
  /\ code' = [code EXCEPT ![poll[p].code] = "gone"]
  /\ poll' = [poll EXCEPT ![p] = Idle]
  /\ Answered(p)
  /\ UNCHANGED <<approver, redeemed, told, excuse, rowVars, file, disk, daemonVars, faults>>

-----------------------------------------------------------------------------
\* Save: os.WriteFile truncates the file, and then writes it.
Truncate(x) ==
  /\ saving[x].at = "begin"
  /\ saving' = [saving EXCEPT ![x].at = "truncated"]
  /\ file' = "torn"
  /\ UNCHANGED <<codeVars, pairVars, rowVars, disk, daemonVars, faults>>

Write(x) ==
  /\ saving[x].at = "truncated"
  /\ saving' = [saving EXCEPT ![x] = NotSaving]
  /\ file' = "whole"
  /\ disk' = saving[x].cred
  /\ daemon' = IF x = "daemon" THEN "running" ELSE daemon
  /\ UNCHANGED <<codeVars, pairVars, rowVars, mem, ref, checked, misses, asleep, slept,
                 online, faults>>

\* The pair command is interrupted.
PairStops ==
  /\ pair # NoCode \/ saving["pair"] # NotSaving
  /\ pair' = NoCode
  /\ poll' = [p \in Polls |-> [poll[p] EXCEPT !.heard = FALSE]]
  /\ saving' = [saving EXCEPT !["pair"] = NotSaving]
  /\ UNCHANGED <<codeVars, rowVars, file, disk, daemonVars, faults>>

-----------------------------------------------------------------------------
\* The daemon starts: a token within the margin is refreshed before anything.
Start ==
  /\ daemon = "off"
  /\ file = "whole"
  /\ mem' = disk
  /\ IF disk.left < Margin
     THEN daemon' = "starting" /\ ref' = "asked"
     ELSE daemon' = "running" /\ ref' = "none"
  /\ checked' = TRUE /\ misses' = 0 /\ asleep' = FALSE /\ slept' = FALSE
  /\ UNCHANGED <<codeVars, pairVars, rowVars, fileVars, online, faults>>

Exit == daemon' = "off" /\ mem' = NoCred /\ ref' = "none" /\ online' = 0

Stop ==
  /\ daemon # "off"
  /\ Exit
  /\ saving' = [saving EXCEPT !["daemon"] = NotSaving]
  /\ UNCHANGED <<codeVars, pairVars, rowVars, file, disk, checked, misses, asleep, slept, faults>>

\* Mutant of RefreshIfNear: only an expired token is renewed.
RefreshIfExpired ==
  /\ daemon = "running" /\ ~asleep /\ ~checked /\ ref = "none" /\ saving["daemon"] = NotSaving
  /\ checked' = TRUE
  /\ ref' = IF mem.left = 0 THEN "asked" ELSE "none"
  /\ UNCHANGED <<codeVars, pairVars, rowVars, fileVars, daemon, mem, misses, asleep, slept,
                 online, faults>>

\* A tick of Refresher.Run.
RefreshIfNear ==
  /\ daemon = "running" /\ ~asleep /\ ~checked /\ ref = "none" /\ saving["daemon"] = NotSaving
  /\ checked' = TRUE
  /\ ref' = IF mem.left <= Margin THEN "asked" ELSE "none"
  /\ UNCHANGED <<codeVars, pairVars, rowVars, fileVars, daemon, mem, misses, asleep, slept,
                 online, faults>>

\* Mutant of VerifyRefreshToken: revoked_at is not looked at.
VerifyAnyRefreshToken ==
  /\ ref = "asked"
  /\ ref' = "verified"
  /\ UNCHANGED <<codeVars, pairVars, rowVars, fileVars, daemon, mem, checked, misses, asleep,
                 slept, online, faults>>

VerifyRefreshToken ==
  /\ ref = "asked"
  /\ mem.wrapper \notin revoked
  /\ ref' = "verified"
  /\ UNCHANGED <<codeVars, pairVars, rowVars, fileVars, daemon, mem, checked, misses, asleep,
                 slept, online, faults>>

\* Mutant of Refreshed: the daemon goes on with the old token until restarted.
RefreshedOnDisk ==
  /\ ref = "verified"
  /\ ref' = "none" /\ misses' = 0 /\ slept' = FALSE
  /\ saving' = [saving EXCEPT !["daemon"] = [at |-> "begin", cred |-> [mem EXCEPT !.left = TTL]]]
  /\ UNCHANGED <<codeVars, pairVars, rowVars, file, disk, daemon, mem, checked, asleep, online,
                 faults>>

\* Issue, and doRefresh with the answer: the same refresh token, a new access
\* token, saved over whatever the file holds by now. At startup the daemon runs
\* on when Save has returned.
Refreshed ==
  /\ ref = "verified"
  /\ mem' = [mem EXCEPT !.left = TTL]
  /\ ref' = "none" /\ misses' = 0 /\ slept' = FALSE
  /\ saving' = [saving EXCEPT !["daemon"] = [at |-> "begin", cred |-> mem']]
  /\ UNCHANGED <<codeVars, pairVars, rowVars, file, disk, daemon, checked, asleep, online, faults>>

Missed == misses' = IF misses < TTL THEN misses + 1 ELSE misses

\* 401: the wrapper is revoked, or the store failed. At startup the daemon
\* removes the file and exits; afterwards the error is ignored.
Refused ==
  /\ ref = "asked"
  /\ IF mem.wrapper \in revoked THEN UNCHANGED faults ELSE Fault
  /\ IF daemon = "starting"
     THEN Exit /\ file' = "absent" /\ disk' = NoCred /\ UNCHANGED misses
     ELSE ref' = "none" /\ Missed /\ UNCHANGED <<daemon, mem, online, file, disk>>
  /\ UNCHANGED <<codeVars, pairVars, rowVars, saving, checked, asleep, slept>>

\* Any other failure, of the network or of Issue; at startup the daemon exits.
RefreshFails ==
  /\ ref # "none"
  /\ Fault
  /\ IF daemon = "starting"
     THEN Exit /\ UNCHANGED misses
     ELSE ref' = "none" /\ Missed /\ UNCHANGED <<daemon, mem, online>>
  /\ UNCHANGED <<codeVars, pairVars, rowVars, fileVars, checked, asleep, slept>>

\* A dial, with Refresher.Token: the server looks the token up by its hash and
\* its expiry, and not at the wrapper's row.
Dial ==
  /\ daemon = "running" /\ ~asleep /\ online = 0
  /\ mem.left > 0
  /\ online' = mem.wrapper
  /\ UNCHANGED <<codeVars, pairVars, rowVars, fileVars, daemon, mem, ref, checked, misses,
                 asleep, slept, faults>>

Drop ==
  /\ online # 0
  /\ online' = 0
  /\ UNCHANGED <<codeVars, pairVars, rowVars, fileVars, daemon, mem, ref, checked, misses,
                 asleep, slept, faults>>

\* The machine is suspended, or resumes.
Suspend ==
  /\ daemon = "running" /\ ref = "none" /\ saving["daemon"] = NotSaving
  /\ asleep' = ~asleep
  /\ slept' = TRUE
  /\ UNCHANGED <<codeVars, pairVars, rowVars, fileVars, daemon, mem, ref, checked, misses,
                 online, faults>>

\* DELETE /api/wrappers/{id}: the wrapper is offline when it is looked at ...
DeleteWrapper(w) ==
  /\ w \in DOMAIN rows \ (deleting \cup revoked)
  /\ online # w
  /\ deleting' = deleting \cup {w}
  /\ UNCHANGED <<codeVars, pairVars, rows, revoked, since, fileVars, daemonVars, faults>>

\* ... and revoked after that.
Revoke(w) ==
  /\ w \in deleting
  /\ deleting' = deleting \ {w}
  /\ revoked' = revoked \cup {w}
  /\ UNCHANGED <<codeVars, pairVars, rows, since, fileVars, daemonVars, faults>>

\* An interval passes. A request is answered, or given up (15 s), within the
\* interval it was sent in, and the refresher of a machine that is awake has
\* had its tick.
Tick ==
  /\ ref = "none" /\ saving = [x \in Writers |-> NotSaving]
  /\ \A p \in Polls : ~poll[p].heard
  /\ daemon = "running" /\ ~asleep => checked
  /\ checked' = FALSE
  /\ mem' = [mem EXCEPT !.left = IF @ > 0 THEN @ - 1 ELSE 0]
  /\ disk' = [disk EXCEPT !.left = IF @ > 0 THEN @ - 1 ELSE 0]
  /\ since' = [w \in Ids |-> IF w \in revoked /\ since[w] < TTL THEN since[w] + 1 ELSE since[w]]
  /\ UNCHANGED <<codeVars, pairVars, rows, deleting, revoked, file, saving, daemon, ref, misses,
                 asleep, slept, online, faults>>

-----------------------------------------------------------------------------
PollStep(p) == PollApproved(p) \/ CreateWrapper(p) \/ AnswerPoll(p) \/ PollFails(p)
RefreshStep == VerifyRefreshToken \/ Refreshed \/ Refused
SaveStep(x) == Truncate(x) \/ Write(x)

Next ==
  \/ \E k \in Codes : \/ PairStart(k) \/ Deny(k) \/ Expire(k)
                     \/ \E u \in Users : Approve(u, k) \/ AnswerRedeem(u, k)
  \/ PollMissing \/ \E p \in Polls : PollStep(p) \/ PollBreaks(p)
  \/ \E x \in Writers : SaveStep(x)
  \/ PairStops \/ Start \/ Stop
  \/ RefreshIfNear \/ RefreshStep \/ RefreshFails
  \/ Dial \/ Drop \/ Suspend \/ Tick
  \/ \E w \in Ids : DeleteWrapper(w) \/ Revoke(w)

\* The command polls, handlers and Save go on, codes expire, the refresher
\* ticks, Run redials, and time passes. Nobody need approve, start or stop.
Spec ==
  /\ Init /\ [][Next]_vars
  /\ WF_vars(PollMissing) /\ \A p \in Polls : WF_vars(PollStep(p))
  /\ \A k \in Codes : WF_vars(Expire(k))
  /\ \A x \in Writers : WF_vars(SaveStep(x))
  /\ WF_vars(RefreshIfNear) /\ WF_vars(RefreshStep) /\ WF_vars(Dial) /\ WF_vars(Tick)

-----------------------------------------------------------------------------
\* A code makes a wrapper for the one user whose redeem has taken effect,
\* whoever else redeems it, before, meanwhile or between the poll's steps, and
\* nobody else is ever told that it is approved.
OwnerIsApprover ==
  \A w \in DOMAIN rows :
    /\ redeemed[rows[w].code] = {rows[w].user}
    /\ told[rows[w].code] \subseteq {rows[w].user}

\* Stated only: the code breaks it. The owner of a wrapper has been told that
\* the code is approved (pair.go:35-43: the answer of a redeem whose update is
\* made may be lost or be 500, and a poll may come before it).
OwnerIsTold == \A w \in DOMAIN rows : told[rows[w].code] = {rows[w].user}

\* A code is used up by the wrapper it makes: two wrappers come of one code
\* only from polls that overlap, or after a call of a poll failed.
OneWrapperPerCode ==
  \A v, w \in DOMAIN rows :
    v # w /\ rows[v].code = rows[w].code => excuse[rows[w].code] # {}

\* A daemon that runs on holds an expired token only if the machine slept or
\* all refreshes of the margin failed: ticks, margin and lifetime leave no gap.
TokenOutlivesOutage ==
  daemon = "running" /\ mem.left = 0 => slept \/ misses >= Margin - 1

\* A revoked wrapper is not let in once the lifetime of a token has passed,
\* though a refresh may have been verified before and issued after it.
RevokedRunsOut ==
  [][online' # online /\ online' \in revoked => since[online'] < TTL]_vars

\* `claude-switch pair` does not poll for ever, whatever becomes of its code.
PairEnds == \A k \in Codes : pair = k ~> pair # k

\* A daemon that stays up, on a machine that stays awake, gets online again
\* and again, unless it is revoked: no outage, restart or suspension leaves it
\* with a token that it neither can use nor renews.
BackOnline ==
  <>[](daemon = "running" /\ ~asleep /\ mem.wrapper \notin revoked) => []<>(online # 0)

\* The design: credentials are deleted if the refresh fails with "revoked".
KeptUnlessRevoked ==
  [][file = "whole" /\ file' = "absent" => mem.wrapper \in revoked]_vars
=============================================================================
