---------------------------- MODULE MCPasscodeLock ----------------------------
(***************************************************************************)
(* PasscodeLock on a small instance.  Its run checks liveness, so that the *)
(* tabs are not declared interchangeable.                                  *)
(***************************************************************************)
EXTENDS PasscodeLock
=============================================================================
