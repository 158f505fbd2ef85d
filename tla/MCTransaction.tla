--------------------------- MODULE MCTransaction ---------------------------
(***************************************************************************)
(* Two requests at a time: enough for a response, a retry or a removal of  *)
(* one to meet any step of the other.  The peer's pool has one packet more *)
(* than there are transmissions.                                           *)
(***************************************************************************)
EXTENDS Transaction
=============================================================================
