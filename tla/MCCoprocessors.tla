--------------------------- MODULE MCCoprocessors ---------------------------
(***************************************************************************)
(* An instance of Coprocessors for TLC.  The devices share nothing but the *)
(* bus, so a program uses one of them.  An FP32 result is the triple it    *)
(* was calculated from, so that no two calculations are taken for each     *)
(* other.                                                                  *)
(***************************************************************************)
EXTENDS Coprocessors

Triple(a, b, op) == <<a, b, op>>
Empty == <<>>
OneDevice == {{"FP32"}, {"MDU"}, {"INT32"}}
=============================================================================
