-------------------------- MODULE MCSecureChannel --------------------------
(* One Regional Controller, with and without the Global's process as its    *)
(* own, with and without a configured secret.                               *)
EXTENDS SecureChannel

CONSTANTS r1, gc

MCRegionals == {r1}
MCSkew      == [c \in {r1, gc} |-> IF c = gc THEN 1 ELSE 0]

=============================================================================
