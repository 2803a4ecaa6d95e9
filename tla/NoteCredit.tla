----------------------------- MODULE NoteCredit -----------------------------
(***************************************************************************)
(* What the stacking of one note promises about its credit, without        *)
(* devices or messages.  The credit is owed only for a note that is in the *)
(* cash box, is offered to the host after it is owed, and given once, when *)
(* the host acknowledges it.  Until then it may be withdrawn; a credit     *)
(* that was given or withdrawn never comes back.                           *)
(***************************************************************************)

VARIABLES
  boxed,    \* the note was pushed into the cash box
  credit    \* "none", "owed", "offered", "given", "void"

vars == <<boxed, credit>>

Init == boxed = FALSE /\ credit = "none"

Push == /\ ~boxed /\ boxed' = TRUE /\ UNCHANGED credit

Owe == /\ boxed /\ credit = "none" /\ credit' = "owed" /\ UNCHANGED boxed

Offer == /\ credit = "owed" /\ credit' = "offered" /\ UNCHANGED boxed

Give == /\ credit = "offered" /\ credit' = "given" /\ UNCHANGED boxed

Withdraw == /\ credit \in {"none", "owed", "offered"} /\ credit' = "void"
            /\ UNCHANGED boxed

Next == Push \/ Owe \/ Offer \/ Give \/ Withdraw

Spec == Init /\ [][Next]_vars

=============================================================================
