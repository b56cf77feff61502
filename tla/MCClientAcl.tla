---------------------------- MODULE MCClientAcl ----------------------------
(***************************************************************************)
(* A table of three entries, three stations and three addresses: small     *)
(* enough to be exhausted, large enough for the table to fill up, for a    *)
(* station to move onto an address another entry holds, and for anonymous  *)
(* entries to be taken over.                                               *)
(***************************************************************************)
EXTENDS ClientAcl
=============================================================================
