------------------------------- MODULE Toasts -------------------------------
(***************************************************************************)
(* The notifications of the portal (web/src/components/ui/use-toast.ts and *)
(* toaster.tsx): a store beside React whose reducer keeps the newest few   *)
(* toasts, and the timers that take a closed toast off the list. The       *)
(* portal only adds toasts and lets them close: UPDATE_TOAST and a dismiss *)
(* without an id have no caller. Pages compose this module by AddToast.    *)
(***************************************************************************)
EXTENDS Naturals, Sequences

CONSTANTS
  ToastLimit,  \* TOAST_LIMIT, 1 in the code
  MaxToasts    \* bound: toasts added by the page that composes this module

ASSUME ToastAssumption ==
  /\ ToastLimit \in Nat \ {0}
  /\ MaxToasts \in Nat

VARIABLES
  toasts,         \* memoryState.toasts, newest first: records of id and open
  toastTimeouts,  \* the ids whose removal timer is pending
  count           \* the counter that genId takes ids from

toastVars == <<toasts, toastTimeouts, count>>

Ids == 1..MaxToasts

ToastInit == toasts = <<>> /\ toastTimeouts = {} /\ count = 0

Listed(id) == \E i \in DOMAIN toasts : toasts[i].id = id
OpenToast(id) == \E i \in DOMAIN toasts : toasts[i] = [id |-> id, open |-> TRUE]

\* Mutant of GenId: numbered by what is on the list.
GenIdByPlace == Len(toasts) + 1

GenId == count + 1

\* [toast, ...toasts].slice(0, TOAST_LIMIT)
Added(id) ==
  LET all == <<[id |-> id, open |-> TRUE]>> \o toasts
  IN  SubSeq(all, 1, IF Len(all) < ToastLimit THEN Len(all) ELSE ToastLimit)

\* toast(): ADD_TOAST. What falls off the end keeps its timer, if it had one.
AddToast ==
  /\ count < MaxToasts
  /\ count' = GenId
  /\ toasts' = Added(GenId)
  /\ UNCHANGED toastTimeouts

\* onOpenChange(false), by the user or Radix's own timer: DISMISS_TOAST and,
\* inside the reducer, addToRemoveQueue.
DismissToast(id) ==
  /\ OpenToast(id)
  /\ toastTimeouts' = toastTimeouts \cup {id}
  /\ toasts' = [i \in DOMAIN toasts |->
                  IF toasts[i].id = id THEN [toasts[i] EXCEPT !.open = FALSE] ELSE toasts[i]]
  /\ UNCHANGED count

\* toasts.filter(t => t.id !== id)
Without(id) ==
  LET kept[i \in 0..Len(toasts)] ==
        IF i = 0 THEN <<>>
        ELSE IF toasts[i].id = id THEN kept[i - 1]
        ELSE Append(kept[i - 1], toasts[i])
  IN  kept[Len(toasts)]

\* The timer of addToRemoveQueue: REMOVE_TOAST.
RemoveToast(id) ==
  /\ id \in toastTimeouts
  /\ toastTimeouts' = toastTimeouts \ {id}
  /\ toasts' = Without(id)
  /\ UNCHANGED count

ToastStep == \E id \in Ids : DismissToast(id) \/ RemoveToast(id)

-----------------------------------------------------------------------------
(* The timer of a toast that was closed, or displaced while its timer ran, *)
(* never takes away another: a toast that is open leaves the list only     *)
(* when it is closed or when newer ones have filled the list               *)
(* (use-toast.ts, toastTimeouts is keyed by id and survives the toast).    *)
OpenToastStays ==
  [][\A id \in Ids : OpenToast(id) /\ ~Listed(id)' =>
       count' > count /\ Len(toasts') = ToastLimit]_toastVars
=============================================================================
