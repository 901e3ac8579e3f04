-------------------------- MODULE MCReturnRequest --------------------------
(***************************************************************************)
(* Two turns before or after the request, in a store that keeps three      *)
(* events and is read in pages of two.                                     *)
(***************************************************************************)
EXTENDS ReturnRequest

=============================================================================
