----------------------------- MODULE UndoToast ------------------------------
(***************************************************************************)
(* The undo banner of the front end (undo-toast.tsx): one visible slot and *)
(* one timer, shared by every page.  Showing a second banner expires the   *)
(* first at once.  What recovering or expiring does is up to the caller    *)
(* that showed the banner; its fate says which of the two callbacks ran.   *)
(***************************************************************************)
EXTENDS Naturals

CONSTANT MaxToasts   \* bound on the banners shown

ASSUME ToastConstants == MaxToasts \in Nat

VARIABLES
    shown,    \* nextId: how many banners were shown
    pending,  \* the visible banner, or none
    timer,    \* the banner whose expiry is scheduled, or none
    fate      \* which callback of each banner ran

toastVars == <<shown, pending, timer, fate>>

None == 0
Toasts == 1..MaxToasts
Fate == {"unused", "open", "recovered", "expired"}

ToastTypeOK ==
    /\ shown \in 0..MaxToasts
    /\ pending \in 0..shown
    /\ timer \in 0..shown
    /\ fate \in [Toasts -> Fate]

ToastInit ==
    /\ shown = 0 /\ pending = None /\ timer = None
    /\ fate = [e \in Toasts |-> "unused"]

\* The banner that show() expires: the visible one, when a timer still runs.
Displaced == IF timer = None THEN None ELSE pending

Show ==
    /\ shown < MaxToasts
    /\ shown' = shown + 1
    /\ pending' = shown' /\ timer' = shown'
    /\ fate' = [e \in Toasts |-> CASE e = shown' -> "open"
                                   [] e # shown' /\ e = Displaced -> "expired"
                                   [] OTHER -> fate[e]]

\* Mutant: recovering leaves the timer running.
RecoverKeepsTimer ==
    /\ pending # None
    /\ pending' = None
    /\ fate' = [fate EXCEPT ![pending] = "recovered"]
    /\ UNCHANGED <<shown, timer>>

Recover ==
    /\ pending # None
    /\ pending' = None /\ timer' = None
    /\ fate' = [fate EXCEPT ![pending] = "recovered"]
    /\ UNCHANGED shown

Dismiss ==
    /\ pending # None
    /\ pending' = None
    /\ UNCHANGED <<shown, timer, fate>>

Expire ==
    /\ timer # None
    /\ timer' = None
    /\ pending' = IF pending = timer THEN None ELSE pending
    /\ fate' = [fate EXCEPT ![timer] = "expired"]
    /\ UNCHANGED shown

ToastNext == Show \/ Recover \/ Dismiss \/ Expire
ToastSpec == ToastInit /\ [][ToastNext]_toastVars

----------------------------------------------------------------------------

\* A banner runs one of its callbacks at most once, and never both: what was
\* recovered is not deleted after all when the timer fires (recover() clears the
\* timer, the timer clears the banner, show() takes over from both).
SettledOnce ==
    [][\A e \in Toasts : fate[e] \in {"recovered", "expired"} => fate'[e] = fate[e]]_toastVars
=============================================================================
