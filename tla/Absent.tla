-------------------------------- MODULE Absent --------------------------------
(***************************************************************************)
(* Python's None and SQL's NULL: the value of a field, a row or a pending  *)
(* operation that is not there.                                            *)
(***************************************************************************)
CONSTANT NULL
=============================================================================
