------------------------------ MODULE MCDialog ------------------------------
(* Small instances of Dialog: constants are given in the configurations.    *)
EXTENDS Dialog
=============================================================================
