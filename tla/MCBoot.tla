------------------------------- MODULE MCBoot -------------------------------
(* A small instance of Boot: constants are given in the configuration.      *)
EXTENDS Boot
=============================================================================
