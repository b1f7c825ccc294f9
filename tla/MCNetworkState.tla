--------------------------- MODULE MCNetworkState ---------------------------
(***************************************************************************)
(* Instances of NetworkState for TLC: one wired and one wireless interface.*)
(***************************************************************************)
EXTENDS NetworkState

CONSTANTS en0, en1

Wired == {en0}
Wireless == {en1}
Both == Wired \cup Wireless
=============================================================================
