------------------------------- MODULE MCJlOta -------------------------------
(* The chip-upgrade task with the loop constants of the code. *)
EXTENDS JlOta
=============================================================================
