----------------------------- MODULE MCPowerGate -----------------------------
(***************************************************************************)
(* Three of the six outputs, two in the run that looks for the race: a     *)
(* call of one task can be between two writes when the other task's call   *)
(* starts, writes or ends.                                                 *)
(***************************************************************************)
EXTENDS PowerGate
=============================================================================
