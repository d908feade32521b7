--------------------------- MODULE MC_Credentials ---------------------------
(* Two linked accounts, linked in this order. *)
EXTENDS Credentials

MCAccounts == 1..2
=============================================================================
