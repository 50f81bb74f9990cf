-------------------------------- MODULE Toasts --------------------------------
(***************************************************************************)
(* use-toast: the messages of the console, kept outside React in           *)
(* memoryState, and their timers.  Two Toasters render them, so that one   *)
(* message may be dismissed twice.  UPDATE_TOAST and a dismissal without   *)
(* an id have no caller in the console.                                    *)
(***************************************************************************)
EXTENDS Integers, FiniteSets

CONSTANTS TOAST_LIMIT,    \* messages on display (1)
          MaxToasts       \* bound: messages ever

VARIABLES
    toasts,         \* memoryState.toasts, as a set: newest first is by falling id
    toastTimeouts,  \* the ids whose removal is timed
    count           \* of genId; below its modulus

vars == <<toasts, toastTimeouts, count>>

Init == toasts = {} /\ toastTimeouts = {} /\ count = 0

\* REMOVE_TOAST
Without(id) == {t \in toasts : t.id # id}

\* What slice(0, TOAST_LIMIT) leaves of the messages.
Newest(S) == {t \in S : Cardinality({u \in S : u.id > t.id}) < TOAST_LIMIT}

\* toast(): genId and ADD_TOAST
Toast(title) ==
    /\ count' = count + 1
    /\ toasts' = Newest({[id |-> count', title |-> title, open |-> "yes"]} \cup toasts)
    /\ UNCHANGED toastTimeouts

Shut(id) == {IF t.id = id THEN [t EXCEPT !.open = "no"] ELSE t : t \in toasts}

\* Mutant: a dismissal is timed once per session only.
DismissOnce(id) ==
    /\ id \in 1..count
    /\ toastTimeouts' = IF toastTimeouts = {} THEN {id} ELSE toastTimeouts
    /\ toasts' = Shut(id)
    /\ UNCHANGED count

\* onOpenChange(false): its time is over, the user closes it or swipes it away.
\* A Toaster that has not rendered yet may still dismiss a message replaced.
Dismiss(id) ==
    /\ id \in 1..count
    /\ toastTimeouts' = toastTimeouts \cup {id}
    /\ toasts' = Shut(id)
    /\ UNCHANGED count

\* The timer of addToRemoveQueue, TOAST_REMOVE_DELAY later.
Remove(id) ==
    /\ id \in toastTimeouts
    /\ toastTimeouts' = toastTimeouts \ {id}
    /\ toasts' = Without(id)
    /\ UNCHANGED count

Next ==
    \/ count < MaxToasts /\ \E title \in {"done", "failed"} : Toast(title)
    \/ \E id \in 1..MaxToasts : Dismiss(id) \/ Remove(id)

Spec == Init /\ [][Next]_vars

-----------------------------------------------------------------------------
(* A dismissed message always has its removal timed, so that none stays in *)
(* the state for good, whatever came after it and however often it was     *)
(* dismissed.                                                              *)
DismissedIsTimed == \A t \in toasts : t.open = "no" => t.id \in toastTimeouts

(* Every message a user dismisses goes, and a timer takes away no other: a *)
(* timer fires minutes later, when a newer message may have taken the      *)
(* place of the one it was set for.                                        *)
TimersMatch ==
    [][/\ DismissedIsTimed'
       /\ count' = count => \A t \in toasts : t.open = "yes" => \E u \in toasts' : u.id = t.id]_vars
=============================================================================
