--------------------------- MODULE MCConfigLifecycle ---------------------------
(***************************************************************************)
(* ConfigLifecycle for TLC: two changes of one device, one approved at     *)
(* once, the other by the engine that holds its request, or never.         *)
(***************************************************************************)
EXTENDS ConfigLifecycle

CONSTANTS c1, c2

SameDevice == [c \in Configs |-> "d1"]
Sensitivity == [c \in Configs |-> IF c = c1 THEN "LOW" ELSE "MEDIUM"]
================================================================================
