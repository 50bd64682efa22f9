--------------------------- MODULE ReviewLifecycle ---------------------------
(***************************************************************************)
(* What a bounded review promises its user, without saying how it keeps    *)
(* its books: reviewers speak once, a correction is attempted at most      *)
(* three times and within one line budget fixed at the start, a verdict is *)
(* final, and only a review nobody has started may be withdrawn.           *)
(***************************************************************************)
EXTENDS Integers

MaxTries == 3

VARIABLES
    status,     \* "absent" before the review is started
    budget,     \* lines the corrections may change in total
    spent,      \* lines the attempts have changed
    tries       \* attempts made

vars == <<status, budget, spent, tries>>

Statuses == {"absent", "reviewing", "correcting", "validating",
             "approved", "escalated", "invalidated"}

TypeOK ==
    /\ status \in Statuses
    /\ budget \in Nat /\ spent \in Nat
    /\ tries \in 0 .. MaxTries

Init == status = "absent" /\ budget = 0 /\ spent = 0 /\ tries = 0

Freeze ==
    /\ status = "absent"
    /\ status' = "reviewing" /\ budget' \in Nat
    /\ UNCHANGED <<spent, tries>>

Route ==
    /\ status = "reviewing"
    /\ status' \in {"correcting", "validating", "escalated"}
    /\ UNCHANGED <<budget, spent, tries>>

Withdraw ==
    /\ status = "reviewing"
    /\ status' = "invalidated"
    /\ UNCHANGED <<budget, spent, tries>>

(* A forecast that does not fit the budget ends the review.                *)
GiveUp ==
    /\ status = "correcting"
    /\ status' = "escalated"
    /\ UNCHANGED <<budget, spent, tries>>

(* One attempt: it may only stay open or succeed inside the budget, and it *)
(* may only stay open while a try is left.                                 *)
Attempt ==
    /\ status = "correcting"
    /\ spent' \in Nat /\ spent' >= spent
    /\ tries' = tries + 1
    /\ \/ status' = "escalated"
       \/ status' = "validating" /\ spent' <= budget
       \/ status' = "correcting" /\ spent' <= budget /\ tries' < MaxTries
    /\ UNCHANGED budget

Decide ==
    /\ status = "validating"
    /\ status' \in {"approved", "escalated"}
    /\ UNCHANGED <<budget, spent, tries>>

Next ==
    \/ Freeze \/ Route \/ Withdraw
    \/ GiveUp \/ Attempt \/ Decide

Spec == Init /\ [][Next]_vars
=============================================================================
