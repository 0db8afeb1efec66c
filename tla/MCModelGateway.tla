--------------------------- MODULE MCModelGateway ---------------------------
(***************************************************************************)
(* Two callers, one core model and the advanced one.                       *)
(***************************************************************************)
EXTENDS ModelGateway
=============================================================================
