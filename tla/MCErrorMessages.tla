-------------------------- MODULE MCErrorMessages --------------------------
(***************************************************************************)
(* An instance of ErrorMessages for TLC: a unit of time is two seconds.    *)
(***************************************************************************)
EXTENDS ErrorMessages

CONSTANTS t1, t2, t3

ThreeTimers == {t1, t2, t3}
=============================================================================
