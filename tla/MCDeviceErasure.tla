--------------------------- MODULE MCDeviceErasure --------------------------
(* DeviceErasure for TLC: two workspaces, the first one open in two tabs    *)
(* where the browser has no SharedWorker.                                   *)
EXTENDS DeviceErasure, TLC

CONSTANTS tab1, tab2, other, acme, globex

DedicatedTabs == tab1 :> acme @@ tab2 :> acme @@ other :> globex
=============================================================================
