-------------------------- MODULE MCDeviceDiscovery --------------------------
(* Model-checking instances of DeviceDiscovery: two Local Controllers that   *)
(* may see the same devices.  (No symmetry: convergence is checked.)         *)
EXTENDS DeviceDiscovery
=============================================================================
