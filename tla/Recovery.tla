------------------------------ MODULE Recovery ------------------------------
(***************************************************************************)
(* The recovery step of the note that the host accepted,                   *)
(* ex_recovery_info.step: the stacking writes it, the line task reads it   *)
(* at power up.  StackMode and PowerUp meet here: what the first leaves in *)
(* a power failure is what the second starts from.                         *)
(***************************************************************************)

Steps == {"NON", "ESCROW", "APB_OUT", "STACKING", "BILL_IN_BOX", "ICB_ACCEPT", "VEND"}

\* The stroke into the box was begun: the note counts as stacked.
Stroked(step, home) ==
  step \in {"VEND", "ICB_ACCEPT", "BILL_IN_BOX"} \/ (step = "STACKING" /\ ~home)

\* Where the note may lie when the power fails, no other note behind it, and
\* the steps that may be recorded then.
Left == [escrow  |-> {"NON", "ESCROW"},
         exit    |-> {"NON", "APB_OUT"},
         chamber |-> {"NON", "APB_OUT", "STACKING"},
         past    |-> {"NON", "STACKING", "ICB_ACCEPT", "VEND"},
         box     |-> {"NON", "BILL_IN_BOX", "ICB_ACCEPT", "VEND"}]

=============================================================================
