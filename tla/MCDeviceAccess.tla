---------------------------- MODULE MCDeviceAccess ----------------------------
EXTENDS DeviceAccess, TLC

CONSTANTS nano, blue, app, sync, update

MCDevices == {nano, blue}
MCClients == {app, sync, update}

(* A polling client and a plain one compete for the same device, which has  *)
(* requestConnectionPriority. Neither transport has an id of its own.        *)
MCTarget == [c \in MCClients |-> IF c = update THEN blue ELSE nano]
MCPolicy == (app :> "none") @@ (sync :> "CantOpenDevice") @@ (update :> "generic")
MCIds == {""}
MCId == [d \in MCDevices |-> ""]
MCBle == {nano}

=============================================================================
