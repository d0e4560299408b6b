--------------------------- MODULE MCRegistration ---------------------------
(***************************************************************************)
(* The instance of Registration for TLC.  NamesAreFreed is checked in the  *)
(* same run as the invariants, so no symmetry is declared.                 *)
(***************************************************************************)
EXTENDS Registration

=============================================================================
