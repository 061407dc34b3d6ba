---------------------------- MODULE MCRegistration ----------------------------
(***************************************************************************)
(* Small instances of the creation of an account for TLC.                  *)
(***************************************************************************)
EXTENDS RegistrationProperties
=============================================================================
