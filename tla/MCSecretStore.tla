----------------------------- MODULE MCSecretStore -----------------------------
(***************************************************************************)
(* SecretStore for TLC; the constants are given in secret_store.cfg.       *)
(***************************************************************************)
EXTENDS SecretStore
================================================================================
