---------------------------- MODULE MCPS2Controller ----------------------------
(* Every combination of devices at the two ports.                            *)
EXTENDS PS2Controller
==============================================================================
