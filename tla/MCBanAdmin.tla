----------------------------- MODULE MCBanAdmin -----------------------------
(* Values of the constants of BanAdmin for TLC. *)
EXTENDS BanAdmin

AllConfigs == Config
=============================================================================
