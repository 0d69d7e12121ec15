----------------------------- MODULE MCUefiSec ------------------------------
(***************************************************************************)
(* UefiSec with the three standard descriptors and two more.               *)
(***************************************************************************)
EXTENDS UefiSec

MCFd == 0..4
=============================================================================
