---------------------------- MODULE MCAcceptMode ----------------------------
(* TLC values for AcceptMode: one denomination the host takes, one it does   *)
(* not.                                                                       *)
EXTENDS AcceptMode
=============================================================================
