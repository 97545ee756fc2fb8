------------------------------ MODULE Settings ------------------------------
(***************************************************************************)
(* The settings page (web/src/components/SettingsForm.tsx) and the handler *)
(* that its Save calls (internal/api/me.go, UpdateSettings), which makes   *)
(* two writes to the store. The form copies what useMe has cached, edits   *)
(* it, and is set again when the cache changes. The page may be left and   *)
(* come back to while a save is on its way: the new form has a mutation of *)
(* its own and may save beside it. Another tab of the user saves settings  *)
(* too. The page tells of its saves by toasts.                             *)
(***************************************************************************)
EXTENDS Toasts

CONSTANTS
  MinDays, MaxDays,  \* what the server accepts, 1 and 90 in the code
  Entries,           \* bound: what is entered as days; 30 is one of them
  DefaultDays,       \* what the field is set to when the form is mounted, 30
  Left,              \* bound: POSTs at a time of forms that were left
  Unheard,           \* bound: POSTs at a time whose answer this tab does not
                     \* hear: those of other tabs, and its own, once lost
  MaxSaves,          \* bound: saves of this tab
  MaxEvents          \* bound: edits, focus events, returns to the page, saves
                     \* of other tabs and failures

ASSUME SettingsAssumption ==
  /\ {MinDays, MaxDays, MaxSaves, MaxEvents} \subseteq Nat
  /\ MinDays <= MaxDays
  /\ Entries \subseteq Nat /\ DefaultDays \in Entries
  /\ "mine" \notin Left \cup Unheard /\ Left \cap Unheard = {}

VARIABLES
  stored,  \* the user's row: keep_transcripts and the days, Unset at first
  me,      \* keep_transcripts in the cache of useMe
  fetch,   \* the GET of me: "none", "sent", its answer, or "failed"
  form,    \* keep and days of SettingsForm
  post,    \* post[t]: a POST of settings on its way, "mine" of the form shown
  asked,   \* history: what was saved last, while nothing has changed it since
  saves, events

formVars == <<stored, me, fetch, form, post, asked>>
settingsVars == <<toastVars, formVars, saves, events>>

Unset == 0
Awaited == {"mine"} \cup Left
Posters == Awaited \cup Unheard
Keep == {"yes", "no"}
Posts == [at : {"none", "sent", "half", "done", "failed"}, keep : Keep, days : Nat]
NoPost == [at |-> "none", keep |-> "no", days |-> Unset]
Nothing == [keep |-> "none", days |-> Unset, known |-> FALSE]

Clamped(d) == IF d < MinDays THEN MinDays ELSE IF d > MaxDays THEN MaxDays ELSE d

SettingsInit ==
  /\ ToastInit
  /\ \E k \in Keep, d \in {Unset} \cup (Entries \cap MinDays..MaxDays) :
       stored = [keep |-> k, days |-> d]
  /\ me = stored.keep
  /\ fetch = "none"
  /\ form = [keep |-> me, days |-> DefaultDays]
  /\ post = [t \in Posters |-> NoPost]
  /\ asked = Nothing
  /\ saves = 0 /\ events = 0

Event == events < MaxEvents /\ events' = events + 1

-----------------------------------------------------------------------------
\* The route's guard has loaded me before the form is mounted; the effect sets
\* keep from it. The days are not in what GET /api/me returns.
Mounted == [keep |-> me, days |-> DefaultDays]

\* A POST goes on under another name, since fewer or others wait for it.
Moved(t, to) == [post EXCEPT ![to] = post[t], ![t] = NoPost]

\* The user leaves the page and comes back. A save that is on its way goes on,
\* and the new form's update.isPending says nothing of it.
Return ==
  /\ Event
  /\ form' = Mounted /\ asked' = Nothing
  /\ \/ post["mine"] = NoPost /\ UNCHANGED post
     \/ /\ post["mine"] # NoPost
        /\ \E l \in Left : post[l] = NoPost /\ post' = Moved("mine", l)
  /\ UNCHANGED <<toastVars, stored, me, fetch, saves>>

EditKeep ==
  /\ Event
  /\ form' = [form EXCEPT !.keep = IF @ = "yes" THEN "no" ELSE "yes"]
  /\ asked' = Nothing
  /\ UNCHANGED <<toastVars, stored, me, fetch, post, saves>>

\* The field is disabled unless the box is checked.
EditDays(d) ==
  /\ Event
  /\ form.keep = "yes" /\ d # form.days
  /\ form' = [form EXCEPT !.days = d]
  /\ asked' = Nothing
  /\ UNCHANGED <<toastVars, stored, me, fetch, post, saves>>

\* Save: the days go along only if transcripts are kept.
Save ==
  /\ post["mine"] = NoPost
  /\ saves < MaxSaves /\ saves' = saves + 1
  /\ LET days == IF form.keep = "yes" THEN Clamped(form.days) ELSE Unset
     IN  post' = [post EXCEPT !["mine"] = [at |-> "sent", keep |-> form.keep, days |-> days]]
  /\ asked' = [keep |-> form.keep, days |-> post'["mine"].days, known |-> FALSE]
  /\ UNCHANGED <<toastVars, stored, me, fetch, form, events>>

\* The form of another tab saves whatever it holds.
OtherSave(u, k, d) ==
  /\ Event
  /\ post[u] = NoPost
  /\ post' = [post EXCEPT ![u] = [at |-> "sent", keep |-> k,
                                 days |-> IF k = "yes" THEN Clamped(d) ELSE Unset]]
  /\ UNCHANGED <<toastVars, stored, me, fetch, form, asked, saves>>

-----------------------------------------------------------------------------
\* What a write that is not the shown form's own does to the history.
Overwritten(t) == IF t = "mine" THEN asked ELSE Nothing

\* Mutant of SetKeep: the handler goes on after an error.
SetKeepAnyway(t) ==
  /\ post[t].at = "sent"
  /\ \/ /\ stored' = [stored EXCEPT !.keep = post[t].keep]
        /\ asked' = Overwritten(t)
        /\ UNCHANGED events
     \/ Event /\ UNCHANGED <<stored, asked>>
  /\ post' = [post EXCEPT ![t].at = "half"]
  /\ UNCHANGED <<toastVars, me, fetch, form, saves>>

\* UpdateSettings: SetKeepTranscripts, or an error that ends it.
SetKeep(t) ==
  /\ post[t].at = "sent"
  /\ \/ /\ stored' = [stored EXCEPT !.keep = post[t].keep]
        /\ post' = [post EXCEPT ![t].at = "half"]
        /\ asked' = Overwritten(t)
        /\ UNCHANGED events
     \/ /\ Event
        /\ post' = [post EXCEPT ![t].at = "failed"]
        /\ UNCHANGED <<stored, asked>>
  /\ UNCHANGED <<toastVars, me, fetch, form, saves>>

\* UpdateSettings: SetTranscriptRetention, if the days are given.
SetRetention(t) ==
  /\ post[t].at = "half"
  /\ \/ /\ stored' = IF post[t].days = Unset THEN stored
                     ELSE [stored EXCEPT !.days = Clamped(post[t].days)]
        /\ post' = [post EXCEPT ![t].at = "done"]
        /\ asked' = Overwritten(t)
        /\ UNCHANGED events
     \/ /\ Event
        /\ post[t].days # Unset
        /\ post' = [post EXCEPT ![t].at = "failed"]
        /\ UNCHANGED <<stored, asked>>
  /\ UNCHANGED <<toastVars, me, fetch, form, saves>>

\* Mutant of Saved: the cache is not invalidated.
SavedQuietly(t) ==
  /\ post[t].at = "done"
  /\ post' = [post EXCEPT ![t] = NoPost]
  /\ asked' = IF t = "mine" THEN [asked EXCEPT !.known = asked # Nothing] ELSE asked
  /\ AddToast
  /\ UNCHANGED <<stored, me, fetch, form, saves, events>>

\* mutateAsync resolves, whether its form is still mounted or not: onSuccess
\* has invalidated me, which cancels a fetch that is on its way and begins
\* another.
Saved(t) ==
  /\ post[t].at = "done"
  /\ post' = [post EXCEPT ![t] = NoPost]
  /\ fetch' = "sent"
  /\ asked' = IF t = "mine" THEN [asked EXCEPT !.known = asked # Nothing] ELSE asked
  /\ AddToast
  /\ UNCHANGED <<stored, me, form, saves, events>>

\* It rejects.
NotSaved(t) == asked' = (IF t = "mine" THEN Nothing ELSE asked) /\ AddToast

SaveFailed(t) ==
  /\ post[t].at = "failed"
  /\ post' = [post EXCEPT ![t] = NoPost]
  /\ NotSaved(t)
  /\ UNCHANGED <<stored, me, fetch, form, saves, events>>

\* The connection breaks before the answer: the handler may go on, and
\* nobody waits for it.
AnswerLost(t) ==
  /\ Event
  /\ post[t] # NoPost
  /\ \E u \in Unheard : post[u] = NoPost /\ post' = Moved(t, u)
  /\ NotSaved(t)
  /\ UNCHANGED <<stored, me, fetch, form, saves>>

UnheardDone(u) ==
  /\ post[u].at \in {"done", "failed"}
  /\ post' = [post EXCEPT ![u] = NoPost]
  /\ UNCHANGED <<toastVars, stored, me, fetch, form, asked, saves, events>>

-----------------------------------------------------------------------------
\* The window gets the focus and me is older than its staleTime.
Focus ==
  /\ Event
  /\ fetch \in {"none", "failed"}
  /\ fetch' = "sent"
  /\ UNCHANGED <<toastVars, stored, me, form, post, asked, saves>>

\* GET /api/me. A failure leaves the cache as it is.
GetMe ==
  /\ fetch = "sent"
  /\ \/ fetch' = stored.keep /\ UNCHANGED events
     \/ Event /\ fetch' = "failed"
  /\ UNCHANGED <<toastVars, stored, me, form, post, asked, saves>>

\* The effect runs when me.data is another object, which it is only if the
\* answer differs (structural sharing). It does not ask what was edited.
Effect(keep) == IF keep = me THEN form ELSE [form EXCEPT !.keep = keep]

MeArrives ==
  /\ fetch \in Keep
  /\ me' = fetch /\ fetch' = "none"
  /\ form' = Effect(fetch)
  /\ UNCHANGED <<toastVars, stored, post, asked, saves, events>>

ToastOnForm == ToastStep /\ UNCHANGED <<formVars, saves, events>>

SettingsNext ==
  \/ Return \/ EditKeep \/ Save
  \/ \E d \in Entries : EditDays(d) \/ \E u \in Unheard, k \in Keep : OtherSave(u, k, d)
  \/ \E t \in Posters : SetKeep(t) \/ SetRetention(t)
  \/ \E t \in Awaited : Saved(t) \/ SaveFailed(t) \/ AnswerLost(t)
  \/ \E u \in Unheard : UnheardDone(u)
  \/ Focus \/ GetMe \/ MeArrives \/ ToastOnForm

SettingsSpec == SettingsInit /\ [][SettingsNext]_settingsVars

-----------------------------------------------------------------------------
(* From when the page says "Settings saved" until somebody edits or saves  *)
(* again, or a POST writes that the shown form does not wait for (another  *)
(* tab's, that of a form that was left, one whose answer was lost), the    *)
(* row has both settings as they were asked for. The form shows keep once  *)
(* the fetch that follows the save has been answered, whatever fetches of  *)
(* me were on their way before, during and after it. The days in the form  *)
(* are those of the row if they are within the limits; if they are not,    *)
(* the row has the nearer limit and the form still shows what was entered  *)
(* (SettingsForm.tsx, save and the effect; me.go).                         *)
SavedIsShown ==
  asked.known =>
    /\ stored.keep = asked.keep
    /\ asked.days # Unset =>
         /\ stored.days = asked.days /\ asked.days = Clamped(form.days)
         /\ form.days \in MinDays..MaxDays => form.days = stored.days
    /\ fetch = "none" => form.keep = asked.keep

(* Stated only: the code breaks it. After "Settings saved" the form shows  *)
(* the days of the row (200 stays in the field while 90 is stored;         *)
(* SettingsForm.tsx:26,59).                                                *)
FormShowsStored ==
  asked.known /\ asked.days # Unset => form.days = stored.days

(* Stated only: the code breaks it. After "Settings saved" the row changes *)
(* by a POST of another tab or one whose answer was lost, never by an      *)
(* earlier save of a form that was left (SettingsForm.tsx:9,69: isPending  *)
(* is of the mounted form's own mutation).                                 *)
LastSaveWins ==
  [][asked.known /\ stored' # stored => \A l \in Left : post'[l] = post[l]]_settingsVars
=============================================================================
