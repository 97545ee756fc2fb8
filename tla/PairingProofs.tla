--------------------------- MODULE PairingProofs ---------------------------
(***************************************************************************)
(* Proofs about Pairing, for every number of codes, users, handlers and    *)
(* wrappers: whose wrapper a code makes.                                   *)
(***************************************************************************)
EXTENDS Pairing, TLAPS

PollStates ==
  [at : {"idle", "approved", "created"}, code : Codes \cup {NoCode},
   user : Users \cup {Nobody}, wrapper : 0..MaxRows, heard : BOOLEAN]

\* The part of the types that the codes, the polls and the rows are about.
CodeTypes ==
  /\ code \in [Codes -> {"none", "pending", "approved", "gone"}]
  /\ approver \in [Codes -> Users \cup {Nobody}]
  /\ redeemed \in [Codes -> SUBSET Users]
  /\ told \in [Codes -> SUBSET Users]
  /\ pair \in Codes \cup {NoCode}
  /\ poll \in [Polls -> PollStates]
  /\ rows \in Seq([code : Codes, user : Users])

\* Nobody has redeemed a code that is not approved yet, and one user, the
\* approver, one that is; and who is told has redeemed it.
ToldIsApprover ==
  \A k \in Codes :
    /\ code[k] \in {"none", "pending"} => redeemed[k] = {}
    /\ code[k] = "approved" => approver[k] \in Users /\ redeemed[k] = {approver[k]}
    /\ told[k] \subseteq redeemed[k]

\* A handler that has read an approved code has read its approver.
PollHasApprover ==
  \A p \in Polls : poll[p].at # "idle" =>
    /\ poll[p].code \in Codes
    /\ poll[p].user \in Users
    /\ redeemed[poll[p].code] = {poll[p].user}

OwnerInv == CodeTypes /\ ToldIsApprover /\ PollHasApprover /\ OwnerIsApprover

LEMMA SeqElement == ASSUME NEW S, NEW s \in Seq(S), NEW i \in DOMAIN s PROVE s[i] \in S
OBVIOUS

LEMMA AppendElements ==
  ASSUME NEW S, NEW s \in Seq(S), NEW e \in S
  PROVE  /\ DOMAIN Append(s, e) = DOMAIN s \cup {Len(s) + 1}
         /\ Len(s) + 1 \notin DOMAIN s
         /\ Append(s, e)[Len(s) + 1] = e
         /\ \A i \in DOMAIN s : Append(s, e)[i] = s[i]
OBVIOUS

LEMMA RowTypes == ASSUME CodeTypes, NEW w \in DOMAIN rows PROVE rows[w].code \in Codes
<1>1. rows[w] \in [code : Codes, user : Users]
  BY SeqElement DEF CodeTypes
<1> QED
  BY <1>1

LEMMA IdleState == Idle \in PollStates
BY PairingAssumption DEF Idle, PollStates

LEMMA OwnerInit == ASSUME Init PROVE OwnerInv
BY IdleState
DEF Init, OwnerInv, CodeTypes, ToldIsApprover, PollHasApprover, OwnerIsApprover, Idle

\* What leaves code, approver, told, poll and rows alone keeps the invariant.
LEMMA OwnerUnchanged ==
  ASSUME OwnerInv, UNCHANGED <<code, approver, redeemed, told, poll, rows>>,
         pair' \in Codes \cup {NoCode}
  PROVE  OwnerInv'
BY DEF OwnerInv, CodeTypes, ToldIsApprover, PollHasApprover, OwnerIsApprover

\* A code that moves on to a status past "pending", with the same people.
LEMMA OwnerStatus ==
  ASSUME OwnerInv, NEW k \in Codes,
         \/ code[k] = "none" /\ code' = [code EXCEPT ![k] = "pending"]
         \/ code' = [code EXCEPT ![k] = "gone"],
         UNCHANGED <<approver, redeemed, told, poll, rows>>,
         pair' \in Codes \cup {NoCode}
  PROVE  OwnerInv'
BY DEF OwnerInv, CodeTypes, ToldIsApprover, PollHasApprover, OwnerIsApprover

LEMMA OwnerApprove ==
  ASSUME OwnerInv, NEW u \in Users, NEW k \in Codes, Approve(u, k)
  PROVE  OwnerInv'
<1>1. CodeTypes'
  BY DEF OwnerInv, CodeTypes, Approve, pairVars, rowVars
<1>2. redeemed[k] = {} /\ redeemed' = [redeemed EXCEPT ![k] = {u}] /\ told' = told
  BY DEF OwnerInv, CodeTypes, ToldIsApprover, Approve
<1>3. ToldIsApprover'
  BY <1>2 DEF OwnerInv, CodeTypes, ToldIsApprover, Approve
\* No row and no handler is of k yet, and the other codes are as they were.
<1>4. ASSUME NEW j \in Codes, NEW v, redeemed[j] = {v}
      PROVE  redeemed'[j] = {v} /\ told'[j] = told[j]
  <2>1. j # k
    BY <1>2, <1>4
  <2> QED
    BY <1>2, <1>4, <2>1 DEF OwnerInv, CodeTypes
<1>5. PollHasApprover'
  <2> SUFFICES ASSUME NEW p \in Polls, poll[p].at # "idle"
               PROVE  /\ poll[p].code \in Codes /\ poll[p].user \in Users
                      /\ redeemed'[poll[p].code] = {poll[p].user}
    BY DEF PollHasApprover, Approve, pairVars
  <2> QED
    BY <1>4 DEF OwnerInv, PollHasApprover
<1>6. OwnerIsApprover'
  <2> SUFFICES ASSUME NEW w \in DOMAIN rows
               PROVE  /\ redeemed'[rows[w].code] = {rows[w].user}
                      /\ told'[rows[w].code] \subseteq {rows[w].user}
    BY DEF OwnerIsApprover, Approve, rowVars
  <2>1. rows[w].code \in Codes
    BY RowTypes DEF OwnerInv
  <2> QED
    BY <1>4, <2>1 DEF OwnerInv, OwnerIsApprover
<1> QED
  BY <1>1, <1>3, <1>5, <1>6 DEF OwnerInv

\* The answer tells one who has redeemed the code.
LEMMA OwnerAnswer ==
  ASSUME OwnerInv, NEW u \in Users, NEW k \in Codes, AnswerRedeem(u, k)
  PROVE  OwnerInv'
<1>1. /\ UNCHANGED <<code, approver, redeemed, pair, poll, rows>>
      /\ u \in redeemed[k] /\ told' = [told EXCEPT ![k] = @ \cup {u}]
  BY DEF AnswerRedeem, pairVars, rowVars
<1>2. CodeTypes' /\ ToldIsApprover' /\ PollHasApprover'
  BY <1>1 DEF OwnerInv, CodeTypes, ToldIsApprover, PollHasApprover
<1>3. OwnerIsApprover'
  <2> SUFFICES ASSUME NEW w \in DOMAIN rows
               PROVE  /\ redeemed[rows[w].code] = {rows[w].user}
                      /\ told'[rows[w].code] \subseteq {rows[w].user}
    BY <1>1 DEF OwnerIsApprover
  <2>1. rows[w].code \in Codes
    BY RowTypes DEF OwnerInv
  <2>2. redeemed[rows[w].code] = {rows[w].user}
    BY DEF OwnerInv, OwnerIsApprover
  <2>3. told'[rows[w].code] \subseteq redeemed[rows[w].code]
    BY <1>1, <1>2, <2>1 DEF ToldIsApprover
  <2> QED
    BY <2>2, <2>3
<1> QED
  BY <1>2, <1>3 DEF OwnerInv

LEMMA OwnerPollApproved ==
  ASSUME OwnerInv, NEW p \in Polls, PollApproved(p)
  PROVE  OwnerInv'
<1>1. pair \in Codes /\ approver[pair] \in Users /\ redeemed[pair] = {approver[pair]}
  BY PairingAssumption
  DEF OwnerInv, CodeTypes, ToldIsApprover, PollApproved, Waiting
<1>2. CodeTypes'
  <2>1. [at |-> "approved", code |-> pair, user |-> approver[pair], wrapper |-> 0,
         heard |-> TRUE] \in PollStates
    BY <1>1, PairingAssumption DEF PollStates
  <2> QED
    BY <1>1, <2>1 DEF OwnerInv, CodeTypes, PollApproved, rowVars
<1>3. PollHasApprover'
  BY <1>1 DEF OwnerInv, CodeTypes, PollHasApprover, PollApproved
<1>4. ToldIsApprover' /\ OwnerIsApprover'
  BY DEF OwnerInv, ToldIsApprover, OwnerIsApprover, PollApproved, rowVars
<1> QED
  BY <1>2, <1>3, <1>4 DEF OwnerInv

LEMMA OwnerCreateWrapper ==
  ASSUME OwnerInv, NEW p \in Polls, CreateWrapper(p)
  PROVE  OwnerInv'
<1> DEFINE row == [code |-> poll[p].code, user |-> poll[p].user]
<1>1. /\ poll[p].code \in Codes /\ poll[p].user \in Users
      /\ redeemed[row.code] = {row.user} /\ told[row.code] \subseteq {row.user}
      /\ row \in [code : Codes, user : Users]
  BY DEF OwnerInv, PollHasApprover, ToldIsApprover, CreateWrapper
<1>2. rows' = Append(rows, row) /\ Len(rows) + 1 \in 0..MaxRows
  BY PairingAssumption DEF OwnerInv, CodeTypes, CreateWrapper
<1>3. CodeTypes'
  <2>1. rows' \in Seq([code : Codes, user : Users])
    BY <1>1, <1>2 DEF OwnerInv, CodeTypes
  <2>2. [poll[p] EXCEPT !.at = "created", !.wrapper = Len(rows) + 1] \in PollStates
    BY <1>2 DEF OwnerInv, CodeTypes, PollStates
  <2>3. poll' = [poll EXCEPT ![p] = [poll[p] EXCEPT !.at = "created",
                                                    !.wrapper = Len(rows) + 1]]
    BY DEF CreateWrapper, OwnerInv, CodeTypes
  <2>4. poll' \in [Polls -> PollStates]
    BY <2>2, <2>3 DEF OwnerInv, CodeTypes
  <2> QED
    BY <2>1, <2>4 DEF OwnerInv, CodeTypes, CreateWrapper, codeVars
<1>4. ToldIsApprover' /\ PollHasApprover'
  BY DEF OwnerInv, CodeTypes, ToldIsApprover, PollHasApprover, CreateWrapper, codeVars
<1>5. OwnerIsApprover'
  <2> SUFFICES ASSUME NEW w \in DOMAIN rows'
               PROVE  /\ redeemed[rows'[w].code] = {rows'[w].user}
                      /\ told[rows'[w].code] \subseteq {rows'[w].user}
    BY DEF OwnerIsApprover, CreateWrapper, codeVars
  <2>1. CASE w \in DOMAIN rows
    <3>1. rows'[w] = rows[w]
      BY <1>2, <2>1 DEF OwnerInv, CodeTypes
    <3>2. redeemed[rows[w].code] = {rows[w].user} /\ told[rows[w].code] \subseteq {rows[w].user}
      BY <2>1 DEF OwnerInv, OwnerIsApprover
    <3> QED
      BY <3>1, <3>2
  <2>2. CASE w = Len(rows) + 1
    BY <1>1, <1>2, <2>2 DEF OwnerInv, CodeTypes
  <2>3. DOMAIN rows' = 1..(Len(rows) + 1) /\ DOMAIN rows = 1..Len(rows) /\ Len(rows) \in Nat
    BY <1>2 DEF OwnerInv, CodeTypes
  <2>4. w \in DOMAIN rows \/ w = Len(rows) + 1
    BY <2>3
  <2> QED
    BY <2>1, <2>2, <2>4
<1> QED
  BY <1>3, <1>4, <1>5 DEF OwnerInv

\* A handler that becomes idle, or whose connection breaks, frees nobody's code.
LEMMA OwnerPollQuits ==
  ASSUME OwnerInv,
         UNCHANGED <<approver, redeemed, told, rows>>,
         pair' \in Codes \cup {NoCode},
         code' = code \/ \E k \in Codes : code' = [code EXCEPT ![k] = "gone"],
         poll' \in [Polls -> PollStates],
         \A p \in Polls : poll'[p].at # "idle" =>
           /\ poll[p].at # "idle"
           /\ poll'[p].code = poll[p].code /\ poll'[p].user = poll[p].user
  PROVE  OwnerInv'
<1>1. CodeTypes' /\ ToldIsApprover'
  BY DEF OwnerInv, CodeTypes, ToldIsApprover
<1>2. PollHasApprover' /\ OwnerIsApprover'
  BY DEF OwnerInv, CodeTypes, PollHasApprover, OwnerIsApprover
<1> QED
  BY <1>1, <1>2 DEF OwnerInv

LEMMA OwnerNext ==
  ASSUME OwnerInv, [Next]_vars
  PROVE  OwnerInv'
<1> USE DEF codeVars, pairVars, rowVars, fileVars, daemonVars
<1>0. pair \in Codes \cup {NoCode} /\ NoCode \in Codes \cup {NoCode}
  BY DEF OwnerInv, CodeTypes
<1>1. CASE UNCHANGED vars
  BY <1>0, <1>1, OwnerUnchanged DEF vars
<1>2. ASSUME NEW k \in Codes, PairStart(k)
      PROVE  OwnerInv'
  BY <1>0, <1>2, OwnerStatus DEF PairStart
<1>3. ASSUME NEW k \in Codes, Deny(k) \/ Expire(k)
      PROVE  OwnerInv'
  BY <1>0, <1>3, OwnerStatus DEF Deny, Expire
<1>4. ASSUME NEW k \in Codes, NEW u \in Users, Approve(u, k) \/ AnswerRedeem(u, k)
      PROVE  OwnerInv'
  BY <1>4, OwnerApprove, OwnerAnswer
<1>5. CASE PollMissing
  BY <1>0, <1>5, OwnerUnchanged DEF PollMissing
<1>6. ASSUME NEW p \in Polls, PollStep(p)
      PROVE  OwnerInv'
  <2>1. CASE PollApproved(p)
    BY <2>1, OwnerPollApproved
  <2>2. CASE CreateWrapper(p)
    BY <2>2, OwnerCreateWrapper
  <2>3. CASE AnswerPoll(p)
    <3>1. poll[p].code \in Codes /\ pair' \in Codes \cup {NoCode}
      BY <1>0, <2>3 DEF AnswerPoll, Answered, OwnerInv, PollHasApprover
    <3>2. poll' = [poll EXCEPT ![p] = Idle]
      BY <2>3 DEF AnswerPoll
    <3>3. poll' \in [Polls -> PollStates]
      BY <3>2, IdleState DEF OwnerInv, CodeTypes
    <3>4. ASSUME NEW q \in Polls, poll'[q].at # "idle"
          PROVE  poll'[q] = poll[q]
      BY <3>2, <3>4 DEF Idle, OwnerInv, CodeTypes
    <3>5. \E k \in Codes : code' = [code EXCEPT ![k] = "gone"]
      BY <2>3, <3>1 DEF AnswerPoll
    <3>6. UNCHANGED <<approver, redeemed, told, rows>>
      BY <2>3 DEF AnswerPoll
    <3> QED
      BY <3>1, <3>3, <3>4, <3>5, <3>6, OwnerPollQuits
  <2>4. CASE PollFails(p)
    <3>1. pair' \in Codes \cup {NoCode}
      BY <1>0, <2>4 DEF PollFails
    <3> QED
      BY <2>4, <3>1, IdleState, OwnerPollQuits DEF PollFails, Idle, OwnerInv, CodeTypes
  <2> QED
    BY <1>6, <2>1, <2>2, <2>3, <2>4 DEF PollStep
<1>7. ASSUME NEW p \in Polls, PollBreaks(p)
      PROVE  OwnerInv'
  BY <1>0, <1>7, OwnerPollQuits DEF PollBreaks, PollStates, OwnerInv, CodeTypes
<1>8. CASE PairStops
  <2>1. UNCHANGED <<code, approver, redeemed, told, rows>> /\ pair' = NoCode
    BY <1>8 DEF PairStops, codeVars, rowVars
  <2>2. poll \in [Polls -> PollStates] /\ poll' = [p \in Polls |-> [poll[p] EXCEPT !.heard = FALSE]]
    BY <1>0, <1>8 DEF PairStops, OwnerInv, CodeTypes
  <2>3. /\ poll' \in [Polls -> PollStates]
        /\ \A p \in Polls : /\ poll'[p].at = poll[p].at /\ poll'[p].code = poll[p].code
                            /\ poll'[p].user = poll[p].user
    BY ONLY <2>2 DEF PollStates
  <2> QED
    BY <1>0, <2>1, <2>3, OwnerPollQuits
<1>9. ASSUME NEW x \in Writers, SaveStep(x)
      PROVE  OwnerInv'
  BY <1>0, <1>9, OwnerUnchanged DEF SaveStep, Truncate, Write
<1>10. CASE Start \/ Stop \/ RefreshIfNear \/ RefreshStep \/ RefreshFails
  BY <1>0, <1>10, OwnerUnchanged
  DEF Start, Stop, Exit, RefreshIfNear, RefreshStep, VerifyRefreshToken, Refreshed, Refused,
      RefreshFails
<1>11. CASE Dial \/ Drop \/ Suspend \/ Tick
  BY <1>0, <1>11, OwnerUnchanged DEF Dial, Drop, Suspend, Tick
<1>12. ASSUME NEW w \in Ids, DeleteWrapper(w) \/ Revoke(w)
      PROVE  OwnerInv'
  BY <1>0, <1>12, OwnerUnchanged DEF DeleteWrapper, Revoke
<1> QED
  BY <1>1, <1>2, <1>3, <1>4, <1>5, <1>6, <1>7, <1>8, <1>9, <1>10, <1>11, <1>12 DEF Next

\* Whoever redeems a code, and whenever: every wrapper made of it belongs to
\* the one user whose redeem took effect, answered or not, and nobody else is
\* told that the code is approved (Redeem, Approve, PairPoll).
THEOREM WrappersHaveApprovers == Spec => []OwnerIsApprover
<1>1. Spec => []OwnerInv
  BY OwnerInit, OwnerNext, PTL DEF Spec
<1>2. OwnerInv => OwnerIsApprover
  BY DEF OwnerInv
<1> QED
  BY <1>1, <1>2, PTL

-----------------------------------------------------------------------------
(***************************************************************************)
(* How often a code is used. OneWrapperPerCode is not inductive: one has   *)
(* to know which handlers can still make a wrapper of a code.              *)
(***************************************************************************)
IdleHasNoCode == \A p \in Polls : poll[p].at = "idle" => poll[p].code = NoCode

\* Two handlers that hold one code have overlapped.
OverlapIsNoted ==
  \A p, q \in Polls :
    p # q /\ poll[p].code = poll[q].code /\ poll[p].code \in Codes
      => excuse[poll[p].code] # {}

\* A code that made a wrapper is deleted, or a handler is about to.
UsedCodeGoes ==
  \A w \in DOMAIN rows :
    \/ excuse[rows[w].code] # {}
    \/ code[rows[w].code] = "gone"
    \/ \E p \in Polls : poll[p].at = "created" /\ poll[p].code = rows[w].code

\* A handler that is about to make a wrapper of a code makes the first.
ApprovedIsFirst ==
  \A p \in Polls : \A w \in DOMAIN rows :
    poll[p].at = "approved" /\ poll[p].code = rows[w].code => excuse[rows[w].code] # {}

OnceInv ==
  /\ excuse \in [Codes -> SUBSET {"overlap", "failure"}]
  /\ IdleHasNoCode /\ OverlapIsNoted /\ UsedCodeGoes /\ ApprovedIsFirst /\ OneWrapperPerCode

LEMMA OnceInit == ASSUME Init PROVE OnceInv
<1>1. DOMAIN rows = {} /\ excuse \in [Codes -> SUBSET {"overlap", "failure"}]
  BY DEF Init
<1>2. \A p \in Polls : poll[p].at = "idle" /\ poll[p].code = NoCode /\ NoCode \notin Codes
  BY PairingAssumption DEF Init, Idle
<1>3. IdleHasNoCode /\ OverlapIsNoted
  BY <1>2 DEF IdleHasNoCode, OverlapIsNoted
<1>4. UsedCodeGoes /\ ApprovedIsFirst /\ OneWrapperPerCode
  BY <1>1 DEF UsedCodeGoes, ApprovedIsFirst, OneWrapperPerCode
<1> QED
  BY <1>1, <1>3, <1>4 DEF OnceInv

\* What takes no handler from place to place and brings back no deleted code.
LEMMA OnceFrame ==
  ASSUME OnceInv, OwnerInv,
         UNCHANGED <<excuse, rows>>,
         \A k \in Codes : code[k] = "gone" => code'[k] = "gone",
         \A p \in Polls : poll'[p].at = poll[p].at /\ poll'[p].code = poll[p].code
  PROVE  OnceInv'
<1>1. \A w \in DOMAIN rows : rows[w].code \in Codes
  BY RowTypes DEF OwnerInv
<1>2. IdleHasNoCode' /\ OverlapIsNoted' /\ OneWrapperPerCode'
  BY DEF OnceInv, IdleHasNoCode, OverlapIsNoted, OneWrapperPerCode
<1>3. UsedCodeGoes' /\ ApprovedIsFirst'
  BY <1>1 DEF OnceInv, UsedCodeGoes, ApprovedIsFirst
<1> QED
  BY <1>2, <1>3 DEF OnceInv

\* A step of one handler, p: the others stay as they are, and what it does to
\* rows and codes is said by the four actions below.
LEMMA OncePollApproved ==
  ASSUME OnceInv, OwnerInv, NEW p \in Polls, PollApproved(p)
  PROVE  OnceInv'
<1>1. pair \in Codes /\ code[pair] = "approved" /\ UNCHANGED <<code, rows>>
  BY PairingAssumption DEF OwnerInv, CodeTypes, PollApproved, Waiting, rowVars
<1>2. /\ poll'[p].at = "approved" /\ poll'[p].code = pair
      /\ \A q \in Polls \ {p} : poll'[q] = poll[q]
      /\ poll[p].at = "idle"
  BY DEF OwnerInv, CodeTypes, PollApproved, Idle
<1>3. /\ excuse' \in [Codes -> SUBSET {"overlap", "failure"}]
      /\ \A k \in Codes : excuse[k] # {} => excuse'[k] # {}
  BY <1>1 DEF OnceInv, PollApproved
<1>4. (\E q \in Polls : poll[q].code = pair) => excuse'[pair] # {}
  BY <1>1 DEF OnceInv, PollApproved
<1>5. \A w \in DOMAIN rows : rows[w].code \in Codes
  BY RowTypes DEF OwnerInv
<1>6. IdleHasNoCode' /\ OverlapIsNoted'
  BY <1>1, <1>2, <1>3, <1>4 DEF OnceInv, IdleHasNoCode, OverlapIsNoted
<1>7. UsedCodeGoes'
  BY <1>1, <1>2, <1>3, <1>5 DEF OnceInv, UsedCodeGoes
<1>8. ApprovedIsFirst'
  \* A row of the code that is read: a handler still holds it, so they overlap.
  <2> SUFFICES ASSUME NEW q \in Polls, NEW w \in DOMAIN rows,
                      poll'[q].at = "approved", poll'[q].code = rows[w].code
               PROVE  excuse'[rows[w].code] # {}
    BY <1>1 DEF ApprovedIsFirst
  <2>1. CASE q = p
    BY <1>1, <1>2, <1>3, <1>4, <2>1 DEF OnceInv, UsedCodeGoes
  <2>2. CASE q # p
    BY <1>2, <1>3, <1>5, <2>2 DEF OnceInv, ApprovedIsFirst
  <2> QED
    BY <2>1, <2>2
<1>9. OneWrapperPerCode'
  BY <1>1, <1>3, <1>5 DEF OnceInv, OneWrapperPerCode
<1> QED
  BY <1>3, <1>6, <1>7, <1>8, <1>9 DEF OnceInv

LEMMA OnceCreateWrapper ==
  ASSUME OnceInv, OwnerInv, NEW p \in Polls, CreateWrapper(p)
  PROVE  OnceInv'
<1> DEFINE n == Len(rows) + 1
<1>1. /\ poll[p].at = "approved" /\ poll[p].code \in Codes
      /\ UNCHANGED <<code, excuse>>
  BY DEF OwnerInv, PollHasApprover, CreateWrapper, codeVars
<1>2. /\ poll'[p].at = "created" /\ poll'[p].code = poll[p].code
      /\ \A q \in Polls \ {p} : poll'[q] = poll[q]
  BY DEF OwnerInv, CodeTypes, PollStates, CreateWrapper
<1>3. /\ DOMAIN rows' = DOMAIN rows \cup {n} /\ n \notin DOMAIN rows
      /\ rows'[n].code = poll[p].code
      /\ \A w \in DOMAIN rows : rows'[w] = rows[w]
  <2>1. rows \in Seq([code : Codes, user : Users])
    BY DEF OwnerInv, CodeTypes
  <2>2. [code |-> poll[p].code, user |-> poll[p].user] \in [code : Codes, user : Users]
    BY DEF OwnerInv, PollHasApprover, CreateWrapper
  <2>3. rows' = Append(rows, [code |-> poll[p].code, user |-> poll[p].user])
    BY DEF CreateWrapper
  <2> QED
    BY <2>1, <2>2, <2>3, AppendElements
<1>4. \A w \in DOMAIN rows : rows[w].code = poll[p].code => excuse[poll[p].code] # {}
  BY <1>1 DEF OnceInv, ApprovedIsFirst
<1>5. IdleHasNoCode' /\ OverlapIsNoted'
  BY <1>1, <1>2 DEF OnceInv, IdleHasNoCode, OverlapIsNoted
<1>6. UsedCodeGoes'
  BY <1>1, <1>2, <1>3 DEF OnceInv, UsedCodeGoes
<1>7. ApprovedIsFirst'
  BY <1>1, <1>2, <1>3 DEF OnceInv, ApprovedIsFirst, OverlapIsNoted
<1>8. OneWrapperPerCode'
  BY <1>1, <1>3, <1>4 DEF OnceInv, OneWrapperPerCode
<1> QED
  BY <1>1, <1>5, <1>6, <1>7, <1>8 DEF OnceInv

\* A handler that ends after it made a wrapper deletes the code, or a call of
\* it has failed.
LEMMA OncePollEnds ==
  ASSUME OnceInv, OwnerInv, NEW p \in Polls,
         AnswerPoll(p) \/ PollFails(p)
  PROVE  OnceInv'
<1>1. poll[p].code \in Codes /\ rows' = rows
  BY DEF OwnerInv, PollHasApprover, AnswerPoll, PollFails, rowVars
<1>2. poll'[p] = Idle /\ \A q \in Polls \ {p} : poll'[q] = poll[q]
  BY DEF OwnerInv, CodeTypes, AnswerPoll, PollFails
<1>3. /\ excuse' \in [Codes -> SUBSET {"overlap", "failure"}]
      /\ \A k \in Codes : excuse[k] # {} => excuse'[k] # {}
  BY <1>1 DEF OnceInv, AnswerPoll, PollFails
<1>4. /\ \A k \in Codes : code[k] = "gone" => code'[k] = "gone"
      /\ poll[p].at = "created" => excuse'[poll[p].code] # {} \/ code'[poll[p].code] = "gone"
  <2> DEFINE k == poll[p].code
  <2>1. /\ code \in [Codes -> {"none", "pending", "approved", "gone"}]
        /\ excuse \in [Codes -> SUBSET {"overlap", "failure"}]
    BY DEF OwnerInv, CodeTypes, OnceInv
  <2>2. CASE code' = [code EXCEPT ![k] = "gone"]
    BY <1>1, <2>1, <2>2
  <2>3. CASE code' = code /\ (poll[p].at = "created"
                              => excuse' = [excuse EXCEPT ![k] = @ \cup {"failure"}])
    BY <1>1, <2>1, <2>3
  <2> QED
    BY <2>2, <2>3 DEF AnswerPoll, PollFails
<1>5. \A w \in DOMAIN rows : rows[w].code \in Codes
  BY RowTypes DEF OwnerInv
<1>6. Idle.at = "idle" /\ Idle.code = NoCode /\ NoCode \notin Codes
  BY PairingAssumption DEF Idle
<1>7. IdleHasNoCode' /\ OverlapIsNoted'
  BY <1>2, <1>3, <1>6 DEF OnceInv, IdleHasNoCode, OverlapIsNoted
<1>8. UsedCodeGoes'
  BY <1>1, <1>2, <1>3, <1>4, <1>5 DEF OnceInv, UsedCodeGoes
<1>9. ApprovedIsFirst' /\ OneWrapperPerCode'
  BY <1>1, <1>2, <1>3, <1>5, <1>6 DEF OnceInv, ApprovedIsFirst, OneWrapperPerCode
<1> QED
  BY <1>3, <1>7, <1>8, <1>9 DEF OnceInv

LEMMA OnceNext ==
  ASSUME OnceInv, OwnerInv, [Next]_vars
  PROVE  OnceInv'
<1> USE DEF codeVars, pairVars, rowVars, fileVars, daemonVars
<1>1. CASE UNCHANGED vars
  BY <1>1, OnceFrame DEF vars
<1>2. ASSUME NEW k \in Codes, PairStart(k) \/ Deny(k) \/ Expire(k)
      PROVE  OnceInv'
  BY <1>2, OnceFrame DEF PairStart, Deny, Expire, OwnerInv, CodeTypes
<1>3. ASSUME NEW k \in Codes, NEW u \in Users, Approve(u, k) \/ AnswerRedeem(u, k)
      PROVE  OnceInv'
  BY <1>3, OnceFrame DEF Approve, AnswerRedeem, OwnerInv, CodeTypes
<1>4. CASE PollMissing
  BY <1>4, OnceFrame DEF PollMissing
<1>5. ASSUME NEW p \in Polls, PollStep(p)
      PROVE  OnceInv'
  BY <1>5, OncePollApproved, OnceCreateWrapper, OncePollEnds DEF PollStep
<1>6. ASSUME NEW p \in Polls, PollBreaks(p)
      PROVE  OnceInv'
  BY <1>6, OnceFrame DEF PollBreaks, OwnerInv, CodeTypes, PollStates
<1>7. CASE PairStops
  BY <1>7, OnceFrame DEF PairStops, OwnerInv, CodeTypes, PollStates
<1>8. ASSUME NEW x \in Writers, SaveStep(x)
      PROVE  OnceInv'
  BY <1>8, OnceFrame DEF SaveStep, Truncate, Write
<1>9. CASE Start \/ Stop \/ RefreshIfNear \/ RefreshStep \/ RefreshFails
  BY <1>9, OnceFrame
  DEF Start, Stop, Exit, RefreshIfNear, RefreshStep, VerifyRefreshToken, Refreshed, Refused,
      RefreshFails
<1>10. CASE Dial \/ Drop \/ Suspend \/ Tick
  BY <1>10, OnceFrame DEF Dial, Drop, Suspend, Tick
<1>11. ASSUME NEW w \in Ids, DeleteWrapper(w) \/ Revoke(w)
      PROVE  OnceInv'
  BY <1>11, OnceFrame DEF DeleteWrapper, Revoke
<1> QED
  BY <1>1, <1>2, <1>3, <1>4, <1>5, <1>6, <1>7, <1>8, <1>9, <1>10, <1>11 DEF Next

\* Whatever the polls, the store and the user do, a code makes a second wrapper
\* only if two polls of it overlapped or a call failed after the first (PairPoll).
THEOREM CodesAreUsedOnce == Spec => []OneWrapperPerCode
<1>1. Spec => [](OwnerInv /\ OnceInv)
  BY OwnerInit, OwnerNext, OnceInit, OnceNext, PTL DEF Spec
<1>2. OnceInv => OneWrapperPerCode
  BY DEF OnceInv
<1> QED
  BY <1>1, <1>2, PTL

-----------------------------------------------------------------------------
(***************************************************************************)
(* The credentials: where they are, and how long they are good for.        *)
(***************************************************************************)
RowSets ==
  /\ Len(rows) <= MaxRows
  /\ deleting \subseteq DOMAIN rows /\ revoked \subseteq DOMAIN rows
  /\ since \in [Ids -> 0..TTL]

\* The wrapper of a credential, or of a handler's answer, is a row that exists.
CredTypes ==
  /\ disk \in Cred /\ disk.wrapper <= Len(rows)
  /\ saving \in [Writers -> [at : {"no", "begin", "truncated"}, cred : Cred]]
  /\ \A x \in Writers : saving[x].cred.wrapper <= Len(rows)
  /\ mem \in Cred /\ mem.wrapper <= Len(rows)
  /\ \A p \in Polls : poll[p].wrapper <= Len(rows)
  /\ online \in 0..Len(rows)

DaemonTypes ==
  /\ file \in {"absent", "torn", "whole"}
  /\ daemon \in {"off", "starting", "running"}
  /\ ref \in {"none", "asked", "verified"}
  /\ checked \in BOOLEAN /\ misses \in 0..TTL /\ asleep \in BOOLEAN /\ slept \in BOOLEAN
  /\ faults \in 0..MaxFaults

\* The command waits for one answer at a time.
HeardOnce == \A p, q \in Polls : poll[p].heard /\ poll[q].heard => p = q

MachineInv == OwnerInv /\ RowSets /\ CredTypes /\ DaemonTypes /\ HeardOnce

LEMMA NullCreds ==
  /\ NoCred \in Cred /\ NoCred.wrapper = 0
  /\ NotSaving \in [at : {"no", "begin", "truncated"}, cred : Cred]
  /\ NotSaving.cred = NoCred /\ NotSaving.at = "no"
  /\ Idle.wrapper = 0 /\ Idle.heard = FALSE /\ Idle.at = "idle"
BY PairingAssumption DEF NoCred, Cred, NotSaving, Idle

LEMMA MachineInit == ASSUME Init PROVE MachineInv
<1>. USE PairingAssumption, NullCreds DEF Init
<1>1. RowSets
  BY DEF RowSets
<1>2. CredTypes
  <2>1. rows = <<>> /\ disk = NoCred /\ mem = NoCred /\ online = 0
    OBVIOUS
  <2>2. saving = [x \in Writers |-> NotSaving] /\ poll = [p \in Polls |-> Idle]
    OBVIOUS
  <2>3. Len(rows) = 0
    BY ONLY <2>1
  <2> QED
    BY ONLY NullCreds, <2>1, <2>2, <2>3 DEF CredTypes
<1>3. DaemonTypes
  <2>1. checked \in BOOLEAN /\ asleep \in BOOLEAN /\ slept \in BOOLEAN
    BY Zenon
  <2>2. file = "absent" /\ daemon = "off" /\ ref = "none" /\ misses = 0 /\ faults = 0
    BY Zenon
  <2>3. misses \in 0..TTL /\ faults \in 0..MaxFaults
    BY ONLY <2>2, PairingAssumption
  <2> QED
    BY ONLY <2>1, <2>2, <2>3 DEF DaemonTypes
<1>4. HeardOnce
  BY DEF HeardOnce
<1> QED
  BY <1>1, <1>2, <1>3, <1>4, OwnerInit DEF MachineInv

LEMMA RowsLen ==
  ASSUME OwnerInv
  PROVE  /\ rows \in Seq([code : Codes, user : Users])
         /\ Len(rows) \in Nat /\ DOMAIN rows = 1..Len(rows)
BY DEF OwnerInv, CodeTypes

\* A row is added, and those there were stay.
LEMMA RowSetsNext ==
  ASSUME MachineInv, [Next]_vars
  PROVE  RowSets' /\ Len(rows) <= Len(rows')
<1> USE DEF codeVars, pairVars, fileVars, daemonVars, rowVars
<1>0. RowSets /\ OwnerInv
  BY DEF MachineInv
<1>1. CASE UNCHANGED <<rows, deleting, revoked>> /\ since' \in [Ids -> 0..TTL]
  BY <1>0, <1>1, RowsLen DEF RowSets
<1>2. ASSUME NEW p \in Polls, CreateWrapper(p) PROVE RowSets' /\ Len(rows) <= Len(rows')
  <2>1. /\ rows' = Append(rows, [code |-> poll[p].code, user |-> poll[p].user])
        /\ Len(rows) < MaxRows /\ UNCHANGED <<deleting, revoked, since>>
    BY <1>2 DEF CreateWrapper
  <2>2. Len(rows') = Len(rows) + 1 /\ DOMAIN rows' = 1..(Len(rows) + 1)
    BY <1>0, <2>1, RowsLen
  <2> QED
    BY <1>0, <2>1, <2>2, RowsLen, PairingAssumption DEF RowSets
<1>3. ASSUME NEW w \in Ids, DeleteWrapper(w) \/ Revoke(w) PROVE RowSets' /\ Len(rows) <= Len(rows')
  BY <1>0, <1>3, RowsLen DEF RowSets, DeleteWrapper, Revoke
<1>4. CASE Tick
  <2>1. since' \in [Ids -> 0..TTL]
    BY <1>0, <1>4, PairingAssumption DEF RowSets, Tick
  <2> QED
    BY <1>1, <1>4, <2>1 DEF Tick
<1>5. ASSUME NEW p \in Polls, PollApproved(p) \/ AnswerPoll(p) \/ PollFails(p) \/ PollBreaks(p)
      PROVE  RowSets' /\ Len(rows) <= Len(rows')
  BY <1>0, <1>1, <1>5 DEF RowSets, PollApproved, AnswerPoll, PollFails, PollBreaks
<1>6. ASSUME NEW k \in Codes, \/ PairStart(k) \/ Deny(k) \/ Expire(k)
                              \/ \E u \in Users : Approve(u, k) \/ AnswerRedeem(u, k)
      PROVE  RowSets' /\ Len(rows) <= Len(rows')
  BY <1>0, <1>1, <1>6 DEF RowSets, PairStart, Deny, Expire, Approve, AnswerRedeem
<1>7. ASSUME PollMissing \/ PairStops \/ \E x \in Writers : SaveStep(x)
      PROVE  RowSets' /\ Len(rows) <= Len(rows')
  BY <1>0, <1>1, <1>7 DEF RowSets, PollMissing, PairStops, SaveStep, Truncate, Write
<1>8. ASSUME Start \/ Stop \/ RefreshIfNear \/ RefreshStep \/ RefreshFails
      PROVE  RowSets' /\ Len(rows) <= Len(rows')
  BY <1>0, <1>1, <1>8 DEF RowSets, Start, Stop, RefreshIfNear, RefreshStep, VerifyRefreshToken,
     Refreshed, Refused, RefreshFails
<1>9. ASSUME Dial \/ Drop \/ Suspend \/ UNCHANGED vars
      PROVE  RowSets' /\ Len(rows) <= Len(rows')
  BY <1>0, <1>1, <1>9 DEF RowSets, Dial, Drop, Suspend, vars
<1> QED
  BY <1>2, <1>3, <1>4, <1>5, <1>6, <1>7, <1>8, <1>9 DEF Next, PollStep

LEMMA DaemonTypesNext ==
  ASSUME MachineInv, [Next]_vars
  PROVE  DaemonTypes'
<1> USE DEF codeVars, pairVars, fileVars, daemonVars, rowVars, DaemonTypes, Fault
<1>0. DaemonTypes
  BY DEF MachineInv
<1>1. ASSUME NEW p \in Polls, PollStep(p) \/ PollBreaks(p) PROVE DaemonTypes'
  BY <1>0, <1>1, PairingAssumption
  DEF PollStep, PollApproved, CreateWrapper, AnswerPoll, PollFails, PollBreaks
<1>2. ASSUME NEW k \in Codes, \/ PairStart(k) \/ Deny(k) \/ Expire(k)
                              \/ \E u \in Users : Approve(u, k) \/ AnswerRedeem(u, k)
      PROVE  DaemonTypes'
  BY <1>0, <1>2 DEF PairStart, Deny, Expire, Approve, AnswerRedeem
<1>3. ASSUME PollMissing \/ PairStops \/ \E x \in Writers : SaveStep(x) PROVE DaemonTypes'
  BY <1>0, <1>3 DEF PollMissing, PairStops, SaveStep, Truncate, Write
<1>4. ASSUME Start \/ Stop \/ RefreshIfNear \/ VerifyRefreshToken \/ Refreshed PROVE DaemonTypes'
  <2>1. TTL \in Nat
    BY PairingAssumption
  <2>2. CASE Start
    <3>1. checked' \in BOOLEAN /\ asleep' \in BOOLEAN /\ slept' \in BOOLEAN /\ misses' = 0
      BY <2>2, Zenon DEF Start
    <3>2. daemon' \in {"starting", "running"} /\ ref' \in {"asked", "none"} /\ UNCHANGED <<file, faults>>
      BY <2>2, Zenon DEF Start
    <3>3. misses' \in 0..TTL
      BY <2>1, <3>1
    <3> QED
      BY <1>0, <3>1, <3>2, <3>3, Zenon
  <2>3. CASE Stop
    BY <1>0, <2>3 DEF Stop, Exit
  <2>4. CASE RefreshIfNear
    <3>1. checked' \in BOOLEAN /\ ref' \in {"asked", "none"}
      BY <2>4, Zenon DEF RefreshIfNear
    <3>2. UNCHANGED <<file, daemon, misses, asleep, slept, faults>>
      BY <2>4 DEF RefreshIfNear
    <3> QED
      BY <1>0, <3>1, <3>2, Zenon
  <2>5. CASE VerifyRefreshToken
    BY <1>0, <2>5 DEF VerifyRefreshToken
  <2>6. CASE Refreshed
    <3>1. slept' \in BOOLEAN /\ ref' = "none" /\ misses' = 0
      BY <2>6, Zenon DEF Refreshed
    <3>2. UNCHANGED <<file, daemon, checked, asleep, faults>>
      BY <2>6 DEF Refreshed
    <3>3. misses' \in 0..TTL
      BY <2>1, <3>1
    <3> QED
      BY <1>0, <3>1, <3>2, <3>3, Zenon
  <2> QED
    BY <1>4, <2>2, <2>3, <2>4, <2>5, <2>6
<1>5. ASSUME Refused \/ RefreshFails PROVE DaemonTypes'
  BY <1>0, <1>5, PairingAssumption DEF Refused, RefreshFails, Exit, Missed
<1>6. ASSUME Dial \/ Drop \/ Suspend \/ Tick \/ UNCHANGED vars PROVE DaemonTypes'
  BY <1>0, <1>6 DEF Dial, Drop, Suspend, Tick, vars
<1>7. ASSUME NEW w \in Ids, DeleteWrapper(w) \/ Revoke(w) PROVE DaemonTypes'
  BY <1>0, <1>7 DEF DeleteWrapper, Revoke
<1> QED
  BY <1>1, <1>2, <1>3, <1>4, <1>5, <1>6, <1>7 DEF Next, RefreshStep

\* The handlers' answers, of the steps that a poll takes.
LEMMA HeardNext ==
  ASSUME MachineInv, [Next]_vars
  PROVE  HeardOnce' /\ \A p \in Polls : poll'[p].wrapper <= Len(rows')
<1> USE DEF codeVars, pairVars, fileVars, daemonVars, rowVars
<1>0. /\ poll \in [Polls -> PollStates] /\ HeardOnce /\ OwnerInv
      /\ \A p \in Polls : poll[p].wrapper <= Len(rows)
      /\ Len(rows) \in Nat
  BY RowsLen DEF MachineInv, CredTypes, OwnerInv, CodeTypes
<1>1. CASE UNCHANGED <<poll, rows>>
  BY <1>0, <1>1 DEF HeardOnce
<1>2. ASSUME NEW p \in Polls, PollApproved(p) PROVE HeardOnce' /\ \A q \in Polls : poll'[q].wrapper <= Len(rows')
  BY <1>0, <1>2 DEF HeardOnce, PollApproved, Waiting
<1>3. ASSUME NEW p \in Polls, CreateWrapper(p) PROVE HeardOnce' /\ \A q \in Polls : poll'[q].wrapper <= Len(rows')
  <2>1. /\ poll' = [poll EXCEPT ![p].at = "created", ![p].wrapper = Len(rows) + 1]
        /\ rows' = Append(rows, [code |-> poll[p].code, user |-> poll[p].user])
    BY <1>3 DEF CreateWrapper
  <2>2. Len(rows') = Len(rows) + 1
    BY <1>0, <2>1, RowsLen
  <2>3. \A q \in Polls : /\ poll'[q].heard = poll[q].heard
                         /\ poll'[q].wrapper = IF q = p THEN Len(rows) + 1 ELSE poll[q].wrapper
                         /\ poll[q].wrapper \in Nat
    BY <1>0, <2>1 DEF PollStates
  <2> QED
    BY <1>0, <2>2, <2>3 DEF HeardOnce
<1>4. ASSUME NEW p \in Polls, AnswerPoll(p) \/ PollFails(p) \/ PollBreaks(p)
      PROVE  HeardOnce' /\ \A q \in Polls : poll'[q].wrapper <= Len(rows')
  <2>1. rows' = rows /\ (poll' = [poll EXCEPT ![p] = Idle] \/ poll' = [poll EXCEPT ![p].heard = FALSE])
    BY <1>4 DEF AnswerPoll, PollFails, PollBreaks
  <2>2. \A q \in Polls : /\ poll'[q].heard => poll[q].heard
                         /\ poll'[q].wrapper \in {0, poll[q].wrapper}
    BY <1>0, <2>1, NullCreds DEF PollStates
  <2> QED
    BY <1>0, <2>1, <2>2 DEF HeardOnce
<1>5. CASE PairStops
  <2>1. rows' = rows /\ poll' = [p \in Polls |-> [poll[p] EXCEPT !.heard = FALSE]]
    BY <1>5 DEF PairStops
  <2> QED
    BY <1>0, <2>1 DEF HeardOnce, PollStates
<1>6. ASSUME NEW k \in Codes, \/ PairStart(k) \/ Deny(k) \/ Expire(k)
                              \/ \E u \in Users : Approve(u, k) \/ AnswerRedeem(u, k)
      PROVE  UNCHANGED <<poll, rows>>
  BY <1>6 DEF PairStart, Deny, Expire, Approve, AnswerRedeem
<1>7. ASSUME PollMissing \/ \E x \in Writers : SaveStep(x) PROVE UNCHANGED <<poll, rows>>
  BY <1>7 DEF PollMissing, SaveStep, Truncate, Write
<1>8. ASSUME Start \/ Stop \/ RefreshIfNear \/ RefreshStep \/ RefreshFails
      PROVE  UNCHANGED <<poll, rows>>
  BY <1>8 DEF Start, Stop, RefreshIfNear, RefreshStep, VerifyRefreshToken, Refreshed, Refused, RefreshFails
<1>9. ASSUME Dial \/ Drop \/ Suspend \/ Tick \/ UNCHANGED vars \/ \E w \in Ids : DeleteWrapper(w) \/ Revoke(w)
      PROVE  UNCHANGED <<poll, rows>>
  BY <1>9 DEF Dial, Drop, Suspend, Tick, vars, DeleteWrapper, Revoke
<1> QED
  BY <1>1, <1>2, <1>3, <1>4, <1>5, <1>6, <1>7, <1>8, <1>9 DEF Next, PollStep

LEMMA CredTypesNext ==
  ASSUME MachineInv, [Next]_vars
  PROVE  CredTypes'
<1> USE DEF codeVars, pairVars, fileVars, daemonVars, rowVars
<1> DEFINE L == Len(rows)
           M == Len(rows')
           Good(c, n) == c \in Cred /\ c.wrapper <= n
           States == [at : {"no", "begin", "truncated"}, cred : Cred]
<1>0. /\ Good(disk, L) /\ Good(mem, L) /\ saving \in [Writers -> States]
      /\ \A x \in Writers : Good(saving[x].cred, L)
      /\ online \in 0..L /\ L \in Nat /\ L <= MaxRows /\ TTL \in Nat
  BY RowsLen, PairingAssumption DEF MachineInv, CredTypes, RowSets
<1>1. L <= M /\ M \in Nat /\ \A p \in Polls : poll'[p].wrapper <= M
  BY RowSetsNext, HeardNext, OwnerNext, RowsLen DEF MachineInv
<1>2. ASSUME NEW c, Good(c, L) PROVE Good(c, M)
  BY <1>0, <1>1, <1>2 DEF Cred
<1>3. ASSUME Good(disk', M), Good(mem', M), saving' \in [Writers -> States],
             \A x \in Writers : Good(saving'[x].cred, M), online' \in 0..M
      PROVE  CredTypes'
  BY <1>1, <1>3 DEF CredTypes
<1>4. online \in 0..M /\ Good(NoCred, M) /\ NotSaving \in States /\ Good(NotSaving.cred, M)
  BY <1>0, <1>1, NullCreds DEF Cred
<1>5. \A x \in Writers : Good(saving[x].cred, M) /\ saving[x].cred \in Cred
  BY <1>0, <1>2
<1>6. Good(disk, M) /\ Good(mem, M)
  BY <1>0, <1>2
<1>7. CASE UNCHANGED <<disk, mem, saving, online>>
  BY <1>0, <1>3, <1>4, <1>5, <1>6, <1>7
<1>8. ASSUME NEW p \in Polls, AnswerPoll(p) PROVE CredTypes'
  <2>. DEFINE c == [wrapper |-> poll[p].wrapper, left |-> TTL]
  <2>1. poll[p].wrapper \in 0..MaxRows /\ poll[p].wrapper <= L
    BY DEF MachineInv, CredTypes, OwnerInv, CodeTypes, PollStates
  <2>2. Good(c, M)
    BY <1>0, <1>1, <2>1 DEF Cred
  <2>3. [at |-> "begin", cred |-> c] \in States
    BY <2>2
  <2>4. UNCHANGED <<disk, mem, online>> /\ saving' \in {saving, [saving EXCEPT !["pair"] = [at |-> "begin", cred |-> c]]}
    BY <1>8 DEF AnswerPoll, Answered
  <2>. HIDE DEF c, Good, States
  <2>5. saving' \in [Writers -> States] /\ \A x \in Writers : Good(saving'[x].cred, M)
    BY <1>0, <1>5, <2>2, <2>3, <2>4
  <2> QED
    BY <1>3, <1>4, <1>6, <2>4, <2>5
<1>9. ASSUME NEW x \in Writers, Truncate(x) \/ Write(x) PROVE CredTypes'
  <2>1. saving' \in [Writers -> States] /\ \A y \in Writers : saving'[y].cred \in {saving[y].cred, NoCred}
    BY <1>0, <1>4, <1>9, NullCreds DEF Truncate, Write
  <2>2. disk' \in {disk, saving[x].cred} /\ UNCHANGED <<mem, online>>
    BY <1>9 DEF Truncate, Write
  <2>. HIDE DEF Good, States
  <2> QED
    BY <1>3, <1>4, <1>5, <1>6, <2>1, <2>2
<1>10. CASE PairStops \/ Stop
  <2>1. saving' \in [Writers -> States] /\ \A y \in Writers : saving'[y].cred \in {saving[y].cred, NoCred}
    BY <1>0, <1>4, <1>10, NullCreds DEF PairStops, Stop
  <2>2. disk' = disk /\ mem' \in {mem, NoCred} /\ online' \in {0, online}
    BY <1>10 DEF PairStops, Stop, Exit
  <2>3. online' \in 0..M
    BY <1>1, <1>4, <2>2
  <2>. HIDE DEF Good, States
  <2> QED
    BY <1>3, <1>4, <1>5, <1>6, <2>1, <2>2, <2>3
<1>11. CASE Start
  BY <1>0, <1>3, <1>4, <1>5, <1>6, <1>11 DEF Start
<1>12. CASE Refreshed
  <2>1. mem' = [mem EXCEPT !.left = TTL] /\ UNCHANGED <<disk, online>>
        /\ saving' = [saving EXCEPT !["daemon"] = [at |-> "begin", cred |-> mem']]
    BY <1>12 DEF Refreshed
  <2>2. Good(mem', M)
    BY <1>0, <1>6, <2>1 DEF Cred
  <2>3. [at |-> "begin", cred |-> mem'] \in States
    BY <2>2
  <2>. HIDE DEF Good, States
  <2>4. saving' \in [Writers -> States] /\ \A x \in Writers : Good(saving'[x].cred, M)
    BY <1>0, <1>5, <2>1, <2>2, <2>3
  <2> QED
    BY <1>3, <1>4, <1>6, <2>1, <2>2, <2>4
<1>13. CASE Refused \/ RefreshFails
  <2>1. saving' = saving /\ disk' \in {disk, NoCred} /\ mem' \in {mem, NoCred} /\ online' \in {online, 0}
    BY <1>13 DEF Refused, RefreshFails, Exit
  <2>2. online' \in 0..M
    BY <1>1, <1>4, <2>1
  <2>. HIDE DEF Good, States
  <2> QED
    BY <1>0, <1>3, <1>4, <1>5, <1>6, <2>1, <2>2
<1>14. CASE Dial \/ Drop
  <2>1. UNCHANGED <<disk, mem, saving>> /\ online' \in {0, mem.wrapper}
    BY <1>14 DEF Dial, Drop
  <2>2. online' \in 0..M
    BY <1>1, <1>6, <2>1 DEF Cred
  <2>. HIDE DEF Good, States
  <2> QED
    BY <1>0, <1>3, <1>5, <1>6, <2>1, <2>2
<1>15. CASE Tick
  <2>1. /\ mem' = [mem EXCEPT !.left = IF @ > 0 THEN @ - 1 ELSE 0]
        /\ disk' = [disk EXCEPT !.left = IF @ > 0 THEN @ - 1 ELSE 0]
        /\ UNCHANGED <<saving, online>>
    BY <1>15 DEF Tick
  <2>2. Good(mem', M) /\ Good(disk', M)
    BY <1>6, <1>0, <2>1 DEF Cred
  <2>. HIDE DEF Good, States
  <2> QED
    BY <1>0, <1>3, <1>4, <1>5, <2>1, <2>2
<1>16. ASSUME NEW p \in Polls, PollApproved(p) \/ CreateWrapper(p) \/ PollFails(p) \/ PollBreaks(p)
       PROVE  UNCHANGED <<disk, mem, saving, online>>
  BY <1>16 DEF PollApproved, CreateWrapper, PollFails, PollBreaks
<1>17. ASSUME NEW k \in Codes, \/ PairStart(k) \/ Deny(k) \/ Expire(k)
                               \/ \E u \in Users : Approve(u, k) \/ AnswerRedeem(u, k)
       PROVE  UNCHANGED <<disk, mem, saving, online>>
  BY <1>17 DEF PairStart, Deny, Expire, Approve, AnswerRedeem
<1>18. ASSUME \/ PollMissing \/ RefreshIfNear \/ VerifyRefreshToken \/ Suspend \/ UNCHANGED vars
              \/ \E w \in Ids : DeleteWrapper(w) \/ Revoke(w)
       PROVE  UNCHANGED <<disk, mem, saving, online>>
  BY <1>18 DEF PollMissing, RefreshIfNear, VerifyRefreshToken, Suspend, vars, DeleteWrapper, Revoke
<1> QED
  BY <1>7, <1>8, <1>9, <1>10, <1>11, <1>12, <1>13, <1>14, <1>15, <1>16, <1>17, <1>18
  DEF Next, PollStep, SaveStep, RefreshStep

LEMMA MachineNext == MachineInv /\ [Next]_vars => MachineInv'
BY OwnerNext, RowSetsNext, CredTypesNext, DaemonTypesNext, HeardNext DEF MachineInv

\* The types of everything, and: a credential is of a row that exists, and the
\* command waits for one poll at a time (PairPoll, credentials.json, Refresher).
THEOREM PairingTyped == Spec => []PairingTypeOK
<1>1. Spec => [](MachineInv /\ OnceInv)
  BY OwnerInit, OwnerNext, OnceInit, OnceNext, MachineInit, MachineNext, PTL DEF Spec, MachineInv
<1>2. MachineInv /\ OnceInv => PairingTypeOK
  BY DEF MachineInv, OnceInv, OwnerInv, CodeTypes, PollStates, RowSets, CredTypes, DaemonTypes,
         HeardOnce, PairingTypeOK
<1> QED
  BY <1>1, <1>2, PTL

-----------------------------------------------------------------------------
\* The refresher is at one thing at a time, and a daemon that starts is at one.
RefresherSteps ==
  /\ asleep => slept /\ ref = "none"
  /\ daemon = "off" => ref = "none" /\ saving["daemon"] = NotSaving
  /\ ref # "none" => saving["daemon"] = NotSaving
  /\ daemon = "starting" /\ ref = "none" => saving["daemon"] # NotSaving /\ mem.left = TTL

\* Of the life of a token that was not slept through, each interval of the
\* margin has had its refresh, once the refresher has ticked in it.
MarginIsUsed ==
  daemon = "running" /\ ~slept =>
    /\ mem.left + misses >= Margin - 1
    /\ checked /\ ref = "none" => mem.left + misses >= Margin

OutageInv == MachineInv /\ RefresherSteps /\ MarginIsUsed

LEMMA OutageInit == ASSUME Init PROVE RefresherSteps /\ MarginIsUsed
<1>1. /\ asleep = FALSE /\ daemon = "off" /\ ref = "none"
      /\ saving = [x \in Writers |-> NotSaving]
  BY DEF Init
<1> QED
  BY <1>1 DEF RefresherSteps, MarginIsUsed, Writers

\* Steps of the pair command, the server and the user.
LEMMA OutageElsewhere ==
  ASSUME [Next]_vars, OutageInv
  PROVE  \/ UNCHANGED daemonVars /\ saving'["daemon"] = saving["daemon"]
         \/ SaveStep("daemon") \/ Start \/ Stop \/ RefreshIfNear \/ RefreshStep \/ RefreshFails
         \/ Dial \/ Drop \/ Suspend \/ Tick
<1> USE DEF codeVars, pairVars, fileVars, rowVars
<1>0. saving \in [Writers -> [at : {"no", "begin", "truncated"}, cred : Cred]]
      /\ "pair" \in Writers /\ "daemon" \in Writers /\ "pair" # "daemon"
  BY DEF OutageInv, MachineInv, CredTypes, Writers
<1>1. ASSUME NEW p \in Polls, PollStep(p) \/ PollBreaks(p)
      PROVE  UNCHANGED daemonVars /\ saving'["daemon"] = saving["daemon"]
  <2>1. UNCHANGED daemonVars
    BY <1>1 DEF PollStep, PollApproved, CreateWrapper, AnswerPoll, PollFails, PollBreaks
  <2>2. UNCHANGED saving \/ \E e : saving' = [saving EXCEPT !["pair"] = e]
    BY <1>1 DEF PollStep, PollApproved, CreateWrapper, AnswerPoll, Answered, PollFails, PollBreaks
  <2> QED
    BY <1>0, <2>1, <2>2
<1>2. ASSUME NEW k \in Codes, \/ PairStart(k) \/ Deny(k) \/ Expire(k)
                              \/ \E u \in Users : Approve(u, k) \/ AnswerRedeem(u, k)
      PROVE  UNCHANGED daemonVars /\ UNCHANGED saving
  BY <1>2 DEF PairStart, Deny, Expire, Approve, AnswerRedeem
<1>3. ASSUME PollMissing \/ \E w \in Ids : DeleteWrapper(w) \/ Revoke(w)
      PROVE  UNCHANGED daemonVars /\ UNCHANGED saving
  BY <1>3 DEF PollMissing, DeleteWrapper, Revoke
<1>4. ASSUME UNCHANGED vars PROVE UNCHANGED daemonVars /\ UNCHANGED saving
  BY <1>4 DEF vars
<1>5. ASSUME PairStops \/ SaveStep("pair")
      PROVE  UNCHANGED daemonVars /\ saving'["daemon"] = saving["daemon"]
  <2>1. UNCHANGED daemonVars
    <3>1. CASE Write("pair")
      BY <1>0, <3>1 DEF Write, daemonVars
    <3> QED
      BY <1>5, <3>1 DEF PairStops, SaveStep, Truncate
  <2>2. \E e : saving' = [saving EXCEPT !["pair"] = e]
    BY <1>5 DEF PairStops, SaveStep, Truncate, Write
  <2> QED
    BY <1>0, <2>1, <2>2
<1> QED
  BY <1>1, <1>2, <1>3, <1>4, <1>5 DEF Next, Writers

LEMMA RefresherNext ==
  ASSUME OutageInv, [Next]_vars
  PROVE  RefresherSteps'
<1> USE DEF codeVars, pairVars, fileVars, rowVars
<1>0. /\ saving \in [Writers -> [at : {"no", "begin", "truncated"}, cred : Cred]]
      /\ "daemon" \in Writers /\ RefresherSteps /\ NotSaving.at = "no" /\ mem \in Cred
      /\ daemon \in {"off", "starting", "running"} /\ TTL \in Nat
  BY NullCreds, PairingAssumption
  DEF OutageInv, MachineInv, CredTypes, DaemonTypes, Writers
<1>1. CASE UNCHANGED daemonVars /\ saving'["daemon"] = saving["daemon"]
  BY <1>0, <1>1 DEF RefresherSteps, daemonVars
<1>2. CASE Truncate("daemon")
  <2>1. saving'["daemon"].at = "truncated" /\ saving["daemon"].at = "begin" /\ UNCHANGED daemonVars
    BY <1>0, <1>2 DEF Truncate
  <2>2. saving'["daemon"] # NotSaving /\ saving["daemon"] # NotSaving
    BY <1>0, <2>1
  <2> QED
    BY <1>0, <2>1, <2>2 DEF RefresherSteps, daemonVars
<1>3. CASE Write("daemon")
  <2>1. /\ saving'["daemon"] = NotSaving /\ saving["daemon"].at = "truncated"
        /\ daemon' = "running" /\ UNCHANGED <<mem, ref, asleep, slept>>
    BY <1>0, <1>3 DEF Write
  <2>2. saving["daemon"] # NotSaving
    BY <1>0, <2>1
  <2> QED
    BY <1>0, <2>1, <2>2 DEF RefresherSteps
<1>4. CASE Start
  <2>1. /\ ~asleep' /\ daemon = "off" /\ UNCHANGED saving
        /\ \/ daemon' = "starting" /\ ref' = "asked"
           \/ daemon' = "running" /\ ref' = "none"
    BY <1>4, Zenon DEF Start
  <2>2. saving'["daemon"] = NotSaving
    BY <1>0, <2>1 DEF RefresherSteps
  <2> QED
    BY <2>1, <2>2 DEF RefresherSteps
<1>5. CASE Stop
  <2>1. daemon' = "off" /\ ref' = "none" /\ UNCHANGED <<asleep, slept>> /\ saving'["daemon"] = NotSaving
    BY <1>0, <1>5 DEF Stop, Exit
  <2> QED
    BY <1>0, <2>1 DEF RefresherSteps
<1>6. CASE RefreshIfNear
  <2>1. daemon = "running" /\ ~asleep /\ saving["daemon"] = NotSaving
        /\ UNCHANGED <<saving, daemon, mem, asleep, slept>>
    BY <1>6 DEF RefreshIfNear
  <2> QED
    BY <1>0, <2>1 DEF RefresherSteps
<1>7. CASE VerifyRefreshToken
  BY <1>0, <1>7 DEF RefresherSteps, VerifyRefreshToken
<1>8. CASE Refreshed
  <2>1. /\ ref = "verified" /\ ref' = "none" /\ UNCHANGED <<daemon, asleep>>
        /\ mem' = [mem EXCEPT !.left = TTL]
        /\ saving' = [saving EXCEPT !["daemon"] = [at |-> "begin", cred |-> mem']]
    BY <1>8 DEF Refreshed
  <2>2. saving'["daemon"].at = "begin" /\ mem'.left = TTL
    BY <1>0, <2>1 DEF Cred
  <2>3. saving'["daemon"] # NotSaving
    BY <1>0, <2>2
  <2> QED
    BY <1>0, <2>1, <2>2, <2>3 DEF RefresherSteps
<1>9. CASE Refused \/ RefreshFails
  <2>1. /\ ref # "none" /\ ref' = "none" /\ UNCHANGED <<saving, asleep, slept>>
        /\ IF daemon = "starting" THEN daemon' = "off" ELSE UNCHANGED <<daemon, mem>>
    BY <1>9 DEF Refused, RefreshFails, Exit
  <2>2. daemon' # "starting"
    BY <2>1
  <2> QED
    BY <1>0, <2>1, <2>2 DEF RefresherSteps
<1>10. CASE Dial \/ Drop
  BY <1>0, <1>10 DEF RefresherSteps, Dial, Drop
<1>11. CASE Suspend
  <2>1. slept' = TRUE /\ ref = "none" /\ daemon = "running" /\ UNCHANGED <<saving, daemon, mem, ref>>
    BY <1>11 DEF Suspend
  <2> QED
    BY <1>0, <2>1 DEF RefresherSteps
<1>12. CASE Tick
  <2>1. ref = "none" /\ saving = [x \in Writers |-> NotSaving] /\ UNCHANGED <<saving, daemon, ref, asleep, slept>>
    BY <1>12 DEF Tick
  <2>2. daemon # "starting"
    BY <1>0, <2>1 DEF RefresherSteps
  <2> QED
    BY <1>0, <2>1, <2>2 DEF RefresherSteps
<1> QED
  BY <1>1, <1>2, <1>3, <1>4, <1>5, <1>6, <1>7, <1>8, <1>9, <1>10, <1>11, <1>12, OutageElsewhere
  DEF SaveStep, RefreshStep

LEMMA MarginNext ==
  ASSUME OutageInv, [Next]_vars
  PROVE  MarginIsUsed'
<1> USE DEF codeVars, pairVars, fileVars, rowVars
<1>0. /\ MarginIsUsed /\ RefresherSteps /\ mem \in Cred /\ mem.left \in 0..TTL /\ misses \in 0..TTL
      /\ disk \in Cred /\ disk.left \in 0..TTL
      /\ TTL \in Nat /\ Margin \in 1..TTL /\ daemon \in {"off", "starting", "running"}
      /\ saving \in [Writers -> [at : {"no", "begin", "truncated"}, cred : Cred]] /\ "daemon" \in Writers
  BY PairingAssumption DEF OutageInv, MachineInv, CredTypes, DaemonTypes, Cred, Writers
<1>1. CASE UNCHANGED daemonVars \/ Truncate("daemon")
  BY <1>0, <1>1 DEF MarginIsUsed, daemonVars, Truncate
<1>2. CASE Write("daemon")
  <2>1. /\ saving["daemon"].at = "truncated" /\ daemon' = "running"
        /\ UNCHANGED <<mem, misses, slept, checked, ref>>
    BY <1>0, <1>2 DEF Write
  <2>2. saving["daemon"] # NotSaving
    BY <2>1, NullCreds
  <2>3. daemon # "off" /\ (daemon = "starting" => mem.left = TTL)
    BY <1>0, <2>2 DEF RefresherSteps
  <2>4. daemon = "starting" => mem.left + misses >= Margin
    BY <1>0, <2>3
  <2>5. CASE daemon = "starting"
    <3>1. mem'.left + misses' >= Margin /\ mem'.left + misses' >= Margin - 1
      BY <1>0, <2>1, <2>4, <2>5
    <3> QED
      BY <3>1 DEF MarginIsUsed
  <2>6. CASE daemon = "running"
    BY <1>0, <2>1, <2>6 DEF MarginIsUsed
  <2> QED
    BY <1>0, <2>3, <2>5, <2>6
<1>3. CASE Start
  <2>1. mem' = disk /\ misses' = 0 /\ (daemon' = "running" => ~(disk.left < Margin))
    BY <1>3 DEF Start
  <2>2. daemon' = "running" => mem'.left + misses' >= Margin /\ mem'.left + misses' >= Margin - 1
    BY <1>0, <2>1
  <2> QED
    BY <2>2 DEF MarginIsUsed
<1>4. CASE Stop
  BY <1>4 DEF Stop, Exit, MarginIsUsed
<1>5. CASE RefreshIfNear
  <2>1. /\ ref' = IF mem.left <= Margin THEN "asked" ELSE "none"
        /\ UNCHANGED <<daemon, mem, misses, slept>>
    BY <1>5 DEF RefreshIfNear
  <2>2. ref' = "none" => mem.left + misses >= Margin
    BY <1>0, <2>1
  <2> QED
    BY <1>0, <2>1, <2>2 DEF MarginIsUsed
<1>6. CASE VerifyRefreshToken
  BY <1>0, <1>6 DEF MarginIsUsed, VerifyRefreshToken
<1>7. CASE Refreshed
  <2>1. mem'.left = TTL /\ misses' = 0
    BY <1>0, <1>7 DEF Refreshed, Cred
  <2>2. mem'.left + misses' >= Margin /\ mem'.left + misses' >= Margin - 1
    BY <1>0, <2>1
  <2> QED
    BY <2>2 DEF MarginIsUsed
<1>8. CASE Refused \/ RefreshFails
  <2>1. UNCHANGED slept /\ \/ daemon' = "off"
                           \/ UNCHANGED <<daemon, mem>> /\ misses' = IF misses < TTL THEN misses + 1 ELSE misses
    BY <1>8 DEF Refused, RefreshFails, Exit, Missed
  <2>2. CASE daemon' = "off"
    BY <2>2 DEF MarginIsUsed
  <2>3. CASE UNCHANGED <<daemon, mem>> /\ misses' = IF misses < TTL THEN misses + 1 ELSE misses
    <3>1. mem.left + misses >= Margin - 1 => mem'.left + misses' >= Margin /\ mem'.left + misses' >= Margin - 1
      BY <1>0, <2>3
    <3> QED
      BY <1>0, <2>1, <2>3, <3>1 DEF MarginIsUsed
  <2> QED
    BY <2>1, <2>2, <2>3
<1>9. CASE Dial \/ Drop
  BY <1>0, <1>9 DEF MarginIsUsed, Dial, Drop
<1>10. CASE Suspend
  BY <1>10 DEF MarginIsUsed, Suspend
<1>11. CASE Tick
  <2>1. /\ ref = "none" /\ (daemon = "running" /\ ~asleep => checked) /\ checked' = FALSE
        /\ mem' = [mem EXCEPT !.left = IF @ > 0 THEN @ - 1 ELSE 0]
        /\ UNCHANGED <<daemon, misses, slept>>
    BY <1>11 DEF Tick
  <2>2. mem'.left = IF mem.left > 0 THEN mem.left - 1 ELSE 0
    BY <1>0, <2>1 DEF Cred
  <2>3. daemon = "running" /\ ~slept => mem.left + misses >= Margin
    BY <1>0, <2>1 DEF MarginIsUsed, RefresherSteps
  <2>4. daemon = "running" /\ ~slept => mem'.left + misses >= Margin - 1
    BY <1>0, <2>2, <2>3
  <2>5. UNCHANGED <<daemon, misses, slept>> /\ ~checked'
    BY <2>1, Zenon
  <2> QED
    BY <2>4, <2>5 DEF MarginIsUsed
<1> QED
  BY <1>1, <1>2, <1>3, <1>4, <1>5, <1>6, <1>7, <1>8, <1>9, <1>10, <1>11, OutageElsewhere
  DEF SaveStep, RefreshStep

LEMMA OutageSpec == Spec => []OutageInv
<1>1. OutageInv /\ [Next]_vars => OutageInv'
  BY MachineNext, RefresherNext, MarginNext DEF OutageInv
<1>2. Init => OutageInv
  BY MachineInit, OutageInit DEF OutageInv
<1> QED
  BY <1>1, <1>2, PTL DEF Spec

\* Margin, ticks and lifetime leave no gap (Refresher.Run, main.go): a daemon on
\* a machine that stayed awake runs out of its token only if every refresh in
\* the margin failed, whatever the lifetime and the margin.
THEOREM TokensOutliveOutages == Spec => []TokenOutlivesOutage
<1>1. ASSUME OutageInv PROVE TokenOutlivesOutage
  <2>1. SUFFICES ASSUME daemon = "running", mem.left = 0, ~slept
                 PROVE  misses >= Margin - 1
    BY DEF TokenOutlivesOutage
  <2>2. mem.left + misses >= Margin - 1 /\ misses \in 0..TTL
    BY <1>1, <2>1 DEF OutageInv, MarginIsUsed, MachineInv, DaemonTypes
  <2> QED
    BY <2>1, <2>2, PairingAssumption
<1> QED
  BY <1>1, OutageSpec, PTL

-----------------------------------------------------------------------------
\* A token of a revoked wrapper does not live longer than one issued when the
\* wrapper was revoked.
RunsOut(c) == c.wrapper \in revoked => c.left + since[c.wrapper] <= TTL

TokensRunOut ==
  /\ RunsOut(disk) /\ RunsOut(mem)
  /\ \A x \in Writers : RunsOut(saving[x].cred)

\* What a request that is under way will issue is issued in the interval in
\* which its wrapper was still there.
IssuedBeforeTick ==
  /\ \A w \in Ids \ revoked : since[w] = 0
  /\ ref = "verified" /\ mem.wrapper \in Ids => since[mem.wrapper] = 0
  /\ \A p \in Polls : poll[p].heard /\ poll[p].wrapper \in Ids => since[poll[p].wrapper] = 0

RunOutInv == MachineInv /\ TokensRunOut /\ IssuedBeforeTick

LEMMA RunOutTypes ==
  ASSUME MachineInv
  PROVE  /\ disk \in Cred /\ mem \in Cred /\ \A x \in Writers : saving[x] \in [at : {"no", "begin", "truncated"}, cred : Cred]
         /\ saving \in [Writers -> [at : {"no", "begin", "truncated"}, cred : Cred]]
         /\ poll \in [Polls -> PollStates] /\ rows \in Seq([code : Codes, user : Users])
         /\ revoked \subseteq Ids /\ 0 \notin revoked /\ since \in [Ids -> 0..TTL] /\ TTL \in Nat
         /\ \A w \in revoked : w \in DOMAIN rows
         /\ MaxRows \in Nat /\ Len(rows) \in Nat /\ Len(rows) <= MaxRows
BY RowsLen, PairingAssumption
DEF MachineInv, OwnerInv, CodeTypes, CredTypes, RowSets, Ids, Writers

LEMMA RunOutInit == ASSUME Init PROVE TokensRunOut /\ IssuedBeforeTick
<1>1. /\ revoked = {} /\ since = [w \in Ids |-> 0] /\ ref = "none" /\ poll = [p \in Polls |-> Idle]
  BY DEF Init
<1> QED
  BY <1>1, NullCreds DEF TokensRunOut, IssuedBeforeTick, RunsOut

\* Credentials that move, while nobody is revoked and no time passes.
LEMMA RunOutMoves ==
  ASSUME RunOutInv, UNCHANGED <<revoked, since>>,
         RunsOut(disk'), RunsOut(mem'), \A x \in Writers : RunsOut(saving'[x].cred)
  PROVE  TokensRunOut'
BY DEF TokensRunOut, RunsOut

LEMMA TokensNext ==
  ASSUME RunOutInv, [Next]_vars
  PROVE  TokensRunOut'
<1> USE DEF codeVars, pairVars, fileVars, daemonVars, rowVars
<1> DEFINE States == [at : {"no", "begin", "truncated"}, cred : Cred]
<1>0. /\ MachineInv /\ saving \in [Writers -> States] /\ mem \in Cred /\ disk \in Cred
      /\ revoked \subseteq Ids /\ 0 \notin revoked /\ since \in [Ids -> 0..TTL] /\ TTL \in Nat
      /\ RunsOut(disk) /\ RunsOut(mem) /\ RunsOut(NoCred) /\ NotSaving.cred = NoCred
      /\ \A x \in Writers : RunsOut(saving[x].cred)
  BY RunOutTypes, NullCreds DEF RunOutInv, TokensRunOut, RunsOut
<1>1. CASE UNCHANGED <<disk, mem, saving, revoked, since>>
  BY <1>0, <1>1, RunOutMoves
<1>2. ASSUME NEW p \in Polls, AnswerPoll(p) PROVE TokensRunOut'
  <2>. DEFINE c == [wrapper |-> poll[p].wrapper, left |-> TTL]
  <2>1. poll[p].heard => RunsOut(c)
    BY <1>0 DEF RunsOut, RunOutInv, IssuedBeforeTick
  <2>2. /\ UNCHANGED <<disk, mem, revoked, since>>
        /\ \/ saving' = saving
           \/ poll[p].heard /\ saving' = [saving EXCEPT !["pair"] = [at |-> "begin", cred |-> c]]
    BY <1>2 DEF AnswerPoll, Answered
  <2>. HIDE DEF c
  <2>3. \A x \in Writers : saving'[x].cred = saving[x].cred \/ (poll[p].heard /\ saving'[x].cred = c)
    BY <1>0, <2>2
  <2>4. \A x \in Writers : RunsOut(saving'[x].cred)
    BY <1>0, <2>1, <2>3
  <2> QED
    BY <1>0, <2>2, <2>4, RunOutMoves
<1>3. ASSUME NEW x \in Writers, Truncate(x) \/ Write(x) PROVE TokensRunOut'
  <2>1. \A y \in Writers : saving'[y].cred \in {saving[y].cred, NoCred}
    BY <1>0, <1>3, NullCreds DEF Truncate, Write
  <2>2. disk' \in {disk, saving[x].cred} /\ UNCHANGED <<mem, revoked, since>>
    BY <1>3 DEF Truncate, Write
  <2> QED
    BY <1>0, <2>1, <2>2, RunOutMoves
<1>4. CASE PairStops \/ Stop
  <2>1. \A y \in Writers : saving'[y].cred \in {saving[y].cred, NoCred}
    BY <1>0, <1>4, NullCreds DEF PairStops, Stop
  <2>2. disk' = disk /\ mem' \in {mem, NoCred} /\ UNCHANGED <<revoked, since>>
    BY <1>4 DEF PairStops, Stop, Exit
  <2> QED
    BY <1>0, <2>1, <2>2, RunOutMoves
<1>5. CASE Start
  <2>1. mem' = disk /\ UNCHANGED <<disk, saving, revoked, since>>
    BY <1>5 DEF Start
  <2> QED
    BY <1>0, <2>1, RunOutMoves
<1>6. CASE Refreshed
  <2>1. ref = "verified" /\ mem' = [mem EXCEPT !.left = TTL] /\ UNCHANGED <<disk, revoked, since>>
        /\ saving' = [saving EXCEPT !["daemon"] = [at |-> "begin", cred |-> mem']]
    BY <1>6 DEF Refreshed
  <2>2. mem'.left = TTL /\ mem'.wrapper = mem.wrapper
    BY <1>0, <2>1 DEF Cred
  <2>3. RunsOut(mem')
    BY <1>0, <2>1, <2>2 DEF RunsOut, RunOutInv, IssuedBeforeTick
  <2>4. \A x \in Writers : saving'[x].cred = saving[x].cred \/ saving'[x].cred = mem'
    BY <1>0, <2>1
  <2>5. \A x \in Writers : RunsOut(saving'[x].cred)
    BY <1>0, <2>3, <2>4
  <2> QED
    BY <1>0, <2>1, <2>3, <2>5, RunOutMoves
<1>7. CASE Refused \/ RefreshFails
  <2>1. saving' = saving /\ disk' \in {disk, NoCred} /\ mem' \in {mem, NoCred} /\ UNCHANGED <<revoked, since>>
    BY <1>7 DEF Refused, RefreshFails, Exit
  <2> QED
    BY <1>0, <2>1, RunOutMoves
<1>8. ASSUME NEW w \in Ids, DeleteWrapper(w) \/ Revoke(w) PROVE TokensRunOut'
  <2>1. revoked' \in {revoked, revoked \cup {w}} /\ UNCHANGED <<since, disk, mem, saving>>
    BY <1>8 DEF DeleteWrapper, Revoke
  <2>2. ASSUME NEW c \in Cred, RunsOut(c), c.wrapper \in revoked' PROVE c.left + since[c.wrapper] <= TTL
    <3>1. CASE c.wrapper \in revoked
      BY <2>2, <3>1 DEF RunsOut
    <3>2. CASE c.wrapper \notin revoked
      <4>1. since[c.wrapper] = 0
        BY <2>1, <2>2, <3>2 DEF RunOutInv, IssuedBeforeTick
      <4> QED
        BY <1>0, <4>1 DEF Cred
    <3> QED
      BY <3>1, <3>2
  <2>3. \A x \in Writers : saving[x].cred \in Cred
    BY <1>0
  <2> QED
    BY <1>0, <2>1, <2>2, <2>3 DEF TokensRunOut, RunsOut
<1>9. CASE Tick
  <2>1. /\ mem' = [mem EXCEPT !.left = IF @ > 0 THEN @ - 1 ELSE 0]
        /\ disk' = [disk EXCEPT !.left = IF @ > 0 THEN @ - 1 ELSE 0]
        /\ since' = [w \in Ids |-> IF w \in revoked /\ since[w] < TTL THEN since[w] + 1 ELSE since[w]]
        /\ saving = [x \in Writers |-> NotSaving] /\ UNCHANGED <<saving, revoked>>
    BY <1>9 DEF Tick
  <2>2. ASSUME NEW c \in Cred, RunsOut(c), NEW d, d = [c EXCEPT !.left = IF @ > 0 THEN @ - 1 ELSE 0],
               d.wrapper \in revoked
        PROVE  d.left + since'[d.wrapper] <= TTL
    <3>1. d.wrapper = c.wrapper /\ d.left = (IF c.left > 0 THEN c.left - 1 ELSE 0) /\ c.left \in 0..TTL
      BY <2>2 DEF Cred
    <3>2. c.left + since[c.wrapper] <= TTL /\ c.wrapper \in Ids /\ since[c.wrapper] \in 0..TTL
      BY <1>0, <2>2, <3>1 DEF RunsOut
    <3>3. since'[c.wrapper] \in 0..TTL /\ since'[c.wrapper] <= since[c.wrapper] + 1
      BY <1>0, <2>1, <3>2
    <3> QED
      BY <1>0, <3>1, <3>2, <3>3
  <2>3. \A x \in Writers : saving'[x].cred.wrapper \notin revoked
    BY <1>0, <2>1, NullCreds
  <2>4. mem'.wrapper \in revoked => mem'.left + since'[mem'.wrapper] <= TTL
    BY ONLY <1>0, <2>1, <2>2
  <2>5. disk'.wrapper \in revoked => disk'.left + since'[disk'.wrapper] <= TTL
    BY ONLY <1>0, <2>1, <2>2
  <2>6. revoked' = revoked
    BY <2>1
  <2> QED
    BY ONLY <2>3, <2>4, <2>5, <2>6 DEF TokensRunOut, RunsOut
<1>10. ASSUME NEW p \in Polls, PollApproved(p) \/ CreateWrapper(p) \/ PollFails(p) \/ PollBreaks(p)
       PROVE  UNCHANGED <<disk, mem, saving, revoked, since>>
  BY <1>10 DEF PollApproved, CreateWrapper, PollFails, PollBreaks
<1>11. ASSUME NEW k \in Codes, \/ PairStart(k) \/ Deny(k) \/ Expire(k)
                               \/ \E u \in Users : Approve(u, k) \/ AnswerRedeem(u, k)
       PROVE  UNCHANGED <<disk, mem, saving, revoked, since>>
  BY <1>11 DEF PairStart, Deny, Expire, Approve, AnswerRedeem
<1>12. ASSUME PollMissing \/ RefreshIfNear \/ VerifyRefreshToken \/ Suspend \/ Dial \/ Drop \/ UNCHANGED vars
       PROVE  UNCHANGED <<disk, mem, saving, revoked, since>>
  BY <1>12 DEF PollMissing, RefreshIfNear, VerifyRefreshToken, Suspend, Dial, Drop, vars
<1> QED
  BY <1>1, <1>2, <1>3, <1>4, <1>5, <1>6, <1>7, <1>8, <1>9, <1>10, <1>11, <1>12
  DEF Next, PollStep, SaveStep, RefreshStep

LEMMA IssuedNext ==
  ASSUME RunOutInv, [Next]_vars
  PROVE  IssuedBeforeTick'
<1> USE DEF codeVars, pairVars, fileVars, daemonVars, rowVars
<1>0. /\ IssuedBeforeTick /\ poll \in [Polls -> PollStates] /\ mem \in Cred
      /\ revoked \subseteq Ids /\ since \in [Ids -> 0..TTL] /\ TTL \in Nat
      /\ \A w \in revoked : w \in DOMAIN rows
  BY RunOutTypes DEF RunOutInv
\* No time passes, and nothing new is verified or heard of.
<1>1. ASSUME UNCHANGED since, revoked \subseteq revoked',
             ref' = "verified" => ref = "verified" /\ mem' = mem,
             \A p \in Polls : poll'[p].heard => poll[p].heard /\ poll'[p].wrapper = poll[p].wrapper
      PROVE  IssuedBeforeTick'
  <2>1. \A w \in Ids \ revoked' : since'[w] = 0
    BY <1>0, <1>1 DEF IssuedBeforeTick
  <2>2. ref' = "verified" /\ mem'.wrapper \in Ids => since'[mem'.wrapper] = 0
    BY <1>0, <1>1 DEF IssuedBeforeTick
  <2>3. \A p \in Polls : poll'[p].heard /\ poll'[p].wrapper \in Ids => since'[poll'[p].wrapper] = 0
    BY <1>0, <1>1 DEF IssuedBeforeTick
  <2> QED
    BY <2>1, <2>2, <2>3 DEF IssuedBeforeTick
<1>2. ASSUME NEW p \in Polls, PollApproved(p) PROVE IssuedBeforeTick'
  <2>1. /\ UNCHANGED <<since, revoked, ref, mem>>
        /\ \A q \in Polls : q # p => poll'[q] = poll[q]
        /\ poll'[p].wrapper = 0
    BY <1>0, <1>2 DEF PollApproved
  <2>2. \A q \in Polls : poll'[q].heard /\ poll'[q].wrapper \in Ids => since[poll'[q].wrapper] = 0
    BY <1>0, <2>1 DEF IssuedBeforeTick, Ids
  <2> QED
    BY <1>0, <2>1, <2>2 DEF IssuedBeforeTick
<1>3. ASSUME NEW p \in Polls, CreateWrapper(p) PROVE IssuedBeforeTick'
  <2>1. /\ UNCHANGED <<since, revoked, ref, mem>>
        /\ poll' = [poll EXCEPT ![p].at = "created", ![p].wrapper = Len(rows) + 1]
    BY <1>3 DEF CreateWrapper
  <2>2. Len(rows) + 1 \notin revoked
    <3>1. Len(rows) + 1 \notin DOMAIN rows
      BY RunOutTypes DEF RunOutInv
    <3> QED
      BY <1>0, <3>1
  <2>3. poll'[p].wrapper = Len(rows) + 1 /\ \A q \in Polls : q # p => poll'[q] = poll[q]
    BY <1>0, <2>1 DEF PollStates
  <2>4. \A q \in Polls : poll'[q].heard /\ poll'[q].wrapper \in Ids => since[poll'[q].wrapper] = 0
    BY <1>0, <2>2, <2>3 DEF IssuedBeforeTick
  <2> QED
    BY <1>0, <2>1, <2>4 DEF IssuedBeforeTick
<1>4. ASSUME NEW p \in Polls, AnswerPoll(p) \/ PollFails(p) \/ PollBreaks(p) PROVE IssuedBeforeTick'
  <2>1. /\ UNCHANGED <<since, revoked, ref, mem>>
        /\ poll' = [poll EXCEPT ![p] = Idle] \/ poll' = [poll EXCEPT ![p].heard = FALSE]
    BY <1>4 DEF AnswerPoll, PollFails, PollBreaks
  <2>2. \A q \in Polls : poll'[q].heard => poll[q].heard /\ poll'[q].wrapper = poll[q].wrapper
    BY <1>0, <2>1, NullCreds DEF PollStates
  <2> QED
    BY <1>1, <2>1, <2>2
<1>5. CASE PairStops
  <2>1. /\ UNCHANGED <<since, revoked, ref, mem>>
        /\ poll' = [p \in Polls |-> [poll[p] EXCEPT !.heard = FALSE]]
    BY <1>5 DEF PairStops
  <2>2. \A q \in Polls : ~poll'[q].heard
    BY <1>0, <2>1 DEF PollStates
  <2> QED
    BY <1>1, <2>1, <2>2
<1>6. CASE VerifyRefreshToken
  <2>1. mem.wrapper \notin revoked /\ UNCHANGED <<since, revoked, mem, poll>>
    BY <1>6 DEF VerifyRefreshToken
  <2> QED
    BY <1>0, <2>1 DEF IssuedBeforeTick
<1>7. CASE Tick
  <2>1. /\ ref = "none" /\ \A p \in Polls : ~poll[p].heard
        /\ since' = [w \in Ids |-> IF w \in revoked /\ since[w] < TTL THEN since[w] + 1 ELSE since[w]]
        /\ UNCHANGED <<poll, revoked, ref>>
    BY <1>7 DEF Tick
  <2> QED
    BY <1>0, <2>1 DEF IssuedBeforeTick
<1>8. ASSUME \/ Start \/ Stop \/ RefreshIfNear \/ Refreshed \/ Refused \/ RefreshFails
             \/ Dial \/ Drop \/ Suspend \/ PollMissing
      PROVE  ref' # "verified" \/ (ref' = ref /\ mem' = mem)
  BY <1>8 DEF Start, Stop, Exit, RefreshIfNear, Refreshed, Refused, RefreshFails, Dial, Drop, Suspend, PollMissing
<1>9. ASSUME \/ Start \/ Stop \/ RefreshIfNear \/ Refreshed \/ Refused \/ RefreshFails
             \/ Dial \/ Drop \/ Suspend \/ PollMissing
      PROVE  UNCHANGED <<since, revoked, poll>>
  BY <1>9 DEF Start, Stop, RefreshIfNear, Refreshed, Refused, RefreshFails, Dial, Drop, Suspend, PollMissing
<1>10. ASSUME NEW k \in Codes, \/ PairStart(k) \/ Deny(k) \/ Expire(k)
                               \/ \E u \in Users : Approve(u, k) \/ AnswerRedeem(u, k)
       PROVE  UNCHANGED <<since, revoked, poll, ref, mem>>
  BY <1>10 DEF PairStart, Deny, Expire, Approve, AnswerRedeem
<1>11. ASSUME (\E x \in Writers : SaveStep(x)) \/ UNCHANGED vars
       PROVE  UNCHANGED <<since, revoked, poll, ref, mem>>
  BY <1>11 DEF SaveStep, Truncate, Write, vars
<1>12. ASSUME NEW w \in Ids, DeleteWrapper(w) \/ Revoke(w) PROVE IssuedBeforeTick'
  <2>1. revoked \subseteq revoked' /\ UNCHANGED <<since, poll, ref, mem>>
    BY <1>12 DEF DeleteWrapper, Revoke
  <2> QED
    BY <1>1, <2>1
<1>13. ASSUME UNCHANGED <<since, revoked, poll>>, ref' # "verified" \/ (ref' = ref /\ mem' = mem)
       PROVE  IssuedBeforeTick'
  BY <1>1, <1>13
<1> QED
  BY <1>2, <1>3, <1>4, <1>5, <1>6, <1>7, <1>8, <1>9, <1>10, <1>11, <1>12, <1>13
  DEF Next, PollStep, RefreshStep

LEMMA RunOutSpec == Spec => []RunOutInv
<1>1. RunOutInv /\ [Next]_vars => RunOutInv'
  BY MachineNext, TokensNext, IssuedNext DEF RunOutInv
<1>2. Init => RunOutInv
  BY MachineInit, RunOutInit DEF RunOutInv
<1> QED
  BY <1>1, <1>2, PTL DEF Spec

\* Only a dial gets a wrapper online; every other step leaves it or takes it off.
LEMMA OnlyDialConnects ==
  ASSUME [Next]_vars, online' # online, online' # 0
  PROVE  Dial
<1> USE DEF codeVars, pairVars, fileVars, daemonVars, rowVars
<1>1. ~Stop /\ ~Refused /\ ~RefreshFails /\ ~Drop
  BY DEF Stop, Exit, Refused, RefreshFails, Drop
<1>2. ~(\E p \in Polls : PollStep(p) \/ PollBreaks(p))
  BY DEF PollStep, PollApproved, CreateWrapper, AnswerPoll, PollFails, PollBreaks
<1>3. ~(\E k \in Codes : \/ PairStart(k) \/ Deny(k) \/ Expire(k)
                       \/ \E u \in Users : Approve(u, k) \/ AnswerRedeem(u, k))
  BY DEF PairStart, Deny, Expire, Approve, AnswerRedeem
<1>4. ~PollMissing /\ ~PairStops /\ ~(\E x \in Writers : SaveStep(x))
  BY DEF PollMissing, PairStops, SaveStep, Truncate, Write
<1>5. ~Start /\ ~RefreshIfNear /\ ~VerifyRefreshToken /\ ~Refreshed
  BY DEF Start, RefreshIfNear, VerifyRefreshToken, Refreshed
<1>6. ~Suspend /\ ~Tick /\ ~(\E w \in Ids : DeleteWrapper(w) \/ Revoke(w)) /\ ~UNCHANGED vars
  BY DEF Suspend, Tick, DeleteWrapper, Revoke, vars
<1> QED
  BY <1>1, <1>2, <1>3, <1>4, <1>5, <1>6 DEF Next, RefreshStep

\* Revocation takes effect (api/wrappers.go, TokenRefresh, VerifyAccessToken):
\* whatever was verified, answered or saved before it, no connection of the
\* wrapper is accepted once the lifetime of a token has passed.
THEOREM RevokedAreOut == Spec => RevokedRunsOut
<1>1. ASSUME RunOutInv, [Next]_vars, online' # online, online' \in revoked
      PROVE  since[online'] < TTL
  <2>1. Dial
    <3>1. 0 \notin revoked
      BY <1>1, RunOutTypes DEF RunOutInv
    <3> QED
      BY <1>1, <3>1, OnlyDialConnects
  <2>2. online' = mem.wrapper /\ mem.left > 0
    BY <2>1 DEF Dial
  <2>3. mem.left + since[mem.wrapper] <= TTL
    BY <1>1, <2>2 DEF RunOutInv, TokensRunOut, RunsOut
  <2>4. mem.left \in Nat /\ since[mem.wrapper] \in Nat /\ TTL \in Nat
    BY <1>1, <2>2, RunOutTypes DEF RunOutInv, Cred
  <2> QED
    BY <2>2, <2>3, <2>4
<1>2. RunOutInv /\ [Next]_vars
      => [online' # online /\ online' \in revoked => since[online'] < TTL]_vars
  BY <1>1
<1> QED
  BY <1>2, RunOutSpec, PTL DEF Spec, RevokedRunsOut
=============================================================================
