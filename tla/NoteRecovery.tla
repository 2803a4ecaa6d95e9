---------------------------- MODULE NoteRecovery ----------------------------
(***************************************************************************)
(* What power up promises about the credit of the note that was being      *)
(* stacked when the power failed, however often it fails again.  While the *)
(* credit is open it may be offered for a note that is in the box; a power *)
(* failure opens an offer again; a credit that the host acknowledged, or   *)
(* that was given up, never comes back.  Only when somebody puts paper in  *)
(* while the note is recovered may an offer be wrong.                      *)
(***************************************************************************)

VARIABLES
  boxed,      \* the note is in the box
  disturbed,  \* paper was put in
  credit      \* "open", "offered", "given", "void"

vars == <<boxed, disturbed, credit>>

Init == boxed \in BOOLEAN /\ disturbed = FALSE /\ credit \in {"open", "void"}

Move == boxed' \in BOOLEAN /\ (boxed => boxed') /\ UNCHANGED <<disturbed, credit>>

Disturb == disturbed' = TRUE /\ UNCHANGED <<boxed, credit>>

Offer ==
  /\ \/ credit = "open" /\ boxed
     \/ credit \in {"open", "void"} /\ disturbed
  /\ credit' = "offered" /\ UNCHANGED <<boxed, disturbed>>

Give == credit = "offered" /\ credit' = "given" /\ UNCHANGED <<boxed, disturbed>>

\* The power fails, or the credit is given up.
Reopen == credit = "offered" /\ credit' = "open" /\ UNCHANGED <<boxed, disturbed>>

GiveUp == credit \in {"open", "offered"} /\ credit' = "void" /\ UNCHANGED <<boxed, disturbed>>

Next == Move \/ Disturb \/ Offer \/ Give \/ Reopen \/ GiveUp

Spec == Init /\ [][Next]_vars

=============================================================================
