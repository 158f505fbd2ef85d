------------------------------- MODULE MCPool -------------------------------
(***************************************************************************)
(* Three objects and four references: an object can be retained several    *)
(* times, the pool can run out, and a reference can keep an address of     *)
(* another pool meanwhile.                                                 *)
(***************************************************************************)
EXTENDS Pool
=============================================================================
