---------------------------- MODULE MCStackMode ----------------------------
(***************************************************************************)
(* Model checking of StackMode: one try and one way home more than the     *)
(* first, few pauses of the feed, and a pool of few blocks, so that every  *)
(* counter reaches its limit and senders wait for the pool.                *)
(***************************************************************************)
EXTENDS StackMode

=============================================================================
