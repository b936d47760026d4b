----------------------------- MODULE MCAccounts -----------------------------
(* Accounts for TLC: its constants are given in the configuration.         *)
EXTENDS Accounts
=============================================================================
