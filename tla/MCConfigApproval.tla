--------------------------- MODULE MCConfigApproval --------------------------
(* Model-checking instances of ConfigApproval.  One unit of time stands for  *)
(* a few minutes; only the order of the time limits matters.                 *)
EXTENDS ConfigApproval, TLC

CONSTANTS p1, p2, d1, l1, r1, r2

\* One Local Controller and one device throughout: proposals compete.
OneDevice == [p \in Proposals |-> d1]
OneOrigin == [p \in Proposals |-> l1]

\* One Regional Controller, or one for each of two proposals.
OneTarget  == [p \in Proposals |-> r1]
TwoTargets == p1 :> r1 @@ p2 :> r2

\* The classifications of a controller.
AllMedium  == [p \in Proposals |-> "MEDIUM"]
AllHigh    == [p \in Proposals |-> "HIGH"]
MediumHigh == p1 :> "MEDIUM" @@ p2 :> "HIGH"
=============================================================================
