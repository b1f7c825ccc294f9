------------------------------- MODULE CallIds -------------------------------
(***************************************************************************)
(* The call ids that eXosip hands out and that every part of the phone     *)
(* refers to.  eXosip numbers calls up to 100000 before it starts again;   *)
(* a model uses few ids and gives one out again once nothing refers to it. *)
(***************************************************************************)
CONSTANTS Cid, NoCall

ASSUME NoCallAssumption == NoCall \notin Cid
=============================================================================
