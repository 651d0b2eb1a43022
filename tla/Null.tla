-------------------------------- MODULE Null --------------------------------
(***************************************************************************)
(* null, of the database and of JavaScript, which components of a Project  *)
(* that are checked together share.                                        *)
(***************************************************************************)
CONSTANT None
=============================================================================
