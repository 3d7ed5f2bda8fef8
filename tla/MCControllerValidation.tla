------------------------ MODULE MCControllerValidation ------------------------
(* Model-checking instance of ControllerValidation: c1 is a Regional Controller *)
(* to be, which may ask the Global Controller twice; c2 and c3 are Local        *)
(* Controllers that ask the Regional Controller r1.                             *)
EXTENDS ControllerValidation, TLC

CONSTANTS c1, c2, c3, r1

MCTypes   == [c \in Candidates |-> IF c = c1 THEN "regional" ELSE "local"]
MCParents == [c \in Candidates |-> IF c = c1 THEN GC ELSE r1]
MCTries   == [c \in Candidates |-> IF c = c1 THEN 2 ELSE 1]
ZoneA     == [c \in Candidates |-> "zone-A"]
ScopeA    == [r \in RCs |-> "zone-A"]
NoSkew    == [c \in Candidates |-> 0]
=============================================================================
