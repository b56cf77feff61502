------------------------------ MODULE MCBattery ------------------------------
(***************************************************************************)
(* One voltage for each outcome of the comparisons of the code (below each *)
(* threshold and above it, and 0 for a decaying rail), debounced over two  *)
(* or three readings instead of six.                                       *)
(***************************************************************************)
EXTENDS Battery
=============================================================================
