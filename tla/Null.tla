-------------------------------- MODULE Null --------------------------------
(***************************************************************************)
(* NULL of the database, and whatever else is not there.                   *)
(***************************************************************************)
CONSTANT None
=============================================================================
