--------------------------- MODULE MCDeviceAccess ---------------------------
(* Two devices of any two vendors, one with two changes and one with one.  *)
EXTENDS DeviceAccess, TLC

CONSTANTS d1, d2, c1, c2, c3

Targets == (c1 :> d1) @@ (c2 :> d1) @@ (c3 :> d2)
=============================================================================
