--------------------------- MODULE MCPortalUsage ---------------------------
(***************************************************************************)
(* One station; a quota that is not a multiple of the heartbeat period, so *)
(* that a session ends between two heartbeats, as it does in the code      *)
(* unless it was granted at the very moment of one.                        *)
(***************************************************************************)
EXTENDS PortalUsage
=============================================================================
