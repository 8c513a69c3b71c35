-------------------------- MODULE MCRotatingLogger --------------------------
(* RotatingLogger with two goroutines.                                     *)
EXTENDS RotatingLogger
=============================================================================
