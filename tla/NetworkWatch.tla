---------------------------- MODULE NetworkWatch ----------------------------
(***************************************************************************)
(* What the phone is promised about the network: some interfaces are valid *)
(* at any time, and the client is told, one change at a time, whether one  *)
(* of them is.  It is never told what is not so at that moment, and it is  *)
(* told in the end.                                                        *)
(***************************************************************************)
CONSTANT Iface

VARIABLES valid,    \* the interfaces that can carry a call
          network   \* what the client was told last

watchVars == <<valid, network>>

WatchInit == valid = {} /\ network = FALSE

Change == valid' \in SUBSET Iface /\ UNCHANGED network

Report == network' = (valid # {}) /\ UNCHANGED valid

WatchNext == Change \/ Report

WatchSafety == WatchInit /\ [][WatchNext]_watchVars

WatchSpec == WatchSafety /\ WF_watchVars(Report)
=============================================================================
