----------------------------- MODULE MCAccounts -----------------------------
(* A bounded instance of Accounts for TLC.                                 *)
EXTENDS Accounts

=============================================================================
