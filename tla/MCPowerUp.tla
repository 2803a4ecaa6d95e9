------------------------------ MODULE MCPowerUp ------------------------------
(***************************************************************************)
(* Model checking of PowerUp: any two events that nobody expects (a power  *)
(* failure, a change of the box, a fault, a pause, a reset out of turn, a  *)
(* paper), a pool of few blocks, and the forced stackings at their limit.  *)
(***************************************************************************)
EXTENDS PowerUp

=============================================================================
