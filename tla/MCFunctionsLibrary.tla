------------------------- MODULE MCFunctionsLibrary -------------------------
(***************************************************************************)
(* Instances of FunctionsLibrary for TLC.                                  *)
(***************************************************************************)
EXTENDS FunctionsLibrary

AllRoutines == DOMAIN Code
=============================================================================
