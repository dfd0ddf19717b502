--------------------------- MODULE MCRemoteSwitch ---------------------------
(* Small instances of RemoteSwitch for TLC.                                *)
EXTENDS RemoteSwitch, MCSwitcher
============================================================================
