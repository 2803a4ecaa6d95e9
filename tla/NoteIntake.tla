----------------------------- MODULE NoteIntake -----------------------------
(***************************************************************************)
(* What the intake of one note promises, without devices or messages.  The *)
(* note is taken in, offered to the host and leaves as the host said, or   *)
(* it is held back and returned; any of it may end in an abort.  A note    *)
(* that follows another is not offered before the host has acknowledged    *)
(* the credit of the one ahead, and that credit is told once.              *)
(***************************************************************************)

VARIABLES
  phase,    \* "taking", "offered", "held", "stacked", "returned", "aborted"
  ahead,    \* a note is ahead of this one
  credit,   \* of the note ahead: "none", "told", "acked"
  verdict   \* of the host: "none", "stack", "return", "reset"

vars == <<phase, ahead, credit, verdict>>

Inside == phase \in {"taking", "offered", "held"}

Init ==
  /\ phase = "taking" /\ verdict = "none"
  /\ ahead \in BOOLEAN
  /\ credit \in IF ahead THEN {"none", "told"} ELSE {"none"}

\* The credit of the note ahead may be told while this one is taken in, also
\* in the step that ends the taking.
TellCredit ==
  /\ phase = "taking" /\ ahead /\ credit = "none" /\ verdict # "reset"
  /\ credit' = "told"

MayTellCredit == TellCredit \/ UNCHANGED credit

Tell  == TellCredit /\ UNCHANGED <<phase, ahead, verdict>>

Ack   == /\ Inside /\ credit = "told" /\ credit' = "acked"
         /\ UNCHANGED <<phase, ahead, verdict>>

Offer == /\ phase = "taking" /\ phase' = "offered"
         /\ \/ verdict = "none" /\ (ahead => credit = "acked")
            \/ verdict = "reset"
         /\ UNCHANGED <<ahead, credit, verdict>>

Hold  == /\ phase = "taking" /\ phase' = "held" /\ ahead' = FALSE
         /\ MayTellCredit /\ UNCHANGED verdict

Stack == /\ phase = "offered" /\ verdict \in {"stack", "reset"}
         /\ phase' = "stacked" /\ ahead' = FALSE
         /\ UNCHANGED <<credit, verdict>>

Return == /\ phase \in {"offered", "held"} /\ verdict \in {"return", "reset"}
          /\ phase' = "returned" /\ ahead' \in {ahead, FALSE}
          /\ UNCHANGED <<credit, verdict>>

Abort == /\ Inside /\ phase' = "aborted" /\ ahead' \in {ahead, FALSE}
         /\ MayTellCredit /\ UNCHANGED verdict

\* The host decides once; a note it was never offered it can only get back.
Decide == /\ Inside /\ verdict = "none"
          /\ \/ phase = "offered" /\ verdict' = "stack"
             \/ verdict' = "return"
          /\ UNCHANGED <<phase, ahead, credit>>

\* With a reset the host gives up what it was not told.
Reset == /\ Inside /\ verdict # "reset" /\ verdict' = "reset"
         /\ credit' = "none" /\ UNCHANGED <<phase, ahead>>

Next == Tell \/ Ack \/ Offer \/ Hold \/ Stack \/ Return \/ Abort \/ Decide \/ Reset

Spec == Init /\ [][Next]_vars

=============================================================================
