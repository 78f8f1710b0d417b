---------------------------- MODULE MCDeviceSocket ----------------------------
EXTENDS DeviceSocket

(* An empty bulk, one that ends at once and one with a middle. *)
MCBulkLengths == {0, 1, 3}

=============================================================================
