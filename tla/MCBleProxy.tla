---------------------------- MODULE MCBleProxy ----------------------------
(* Instances of BleProxy for TLC. *)
EXTENDS BleProxy, TLC

LinkCommands == {"start_scan", "stop_scan", "connect", "disconnect"}
GattRunCommands == {"connect", "disconnect", "discover_services",
                    "discover_characteristics", "request_mtu", "read_characteristic",
                    "write_and_subscribe", "subscribe_characteristic"}
Symmetry == Permutations(Ids)
=============================================================================
