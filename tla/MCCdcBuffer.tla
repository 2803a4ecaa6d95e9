---------------------------- MODULE MCCdcBuffer -----------------------------
(* TLC values for CdcBuffer: two ports on a memory of four bytes.           *)
EXTENDS CdcBuffer

CONSTANTS front, rear
MCPorts == {front, rear}
=============================================================================
