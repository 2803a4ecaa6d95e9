------------------------------ MODULE MCStandby ------------------------------
(***************************************************************************)
(* Model checking of Standby: any two events that nobody expects, a pool   *)
(* of few blocks, and positions as an initialisation and a note leave them.*)
(***************************************************************************)
EXTENDS Standby

\* Nothing, the plate at home as after a stroke, and everything.
LostOnes == {{}, {"STACKER_HALF"}, Homing}

=============================================================================
