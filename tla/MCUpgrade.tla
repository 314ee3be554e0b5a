------------------------------ MODULE MCUpgrade ------------------------------
(* A loader that starts, announces a length and reads once before it stops. *)
EXTENDS Upgrade

MCScript == <<"START", "LEN", "READ">>
=============================================================================
