------------------------- MODULE MCNetworkWatchdog -------------------------
(* NetworkWatchdog with the bounds of the cfg files. *)
EXTENDS NetworkWatchdog
=============================================================================
