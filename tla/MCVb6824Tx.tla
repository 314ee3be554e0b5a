----------------------------- MODULE MCVb6824Tx -----------------------------
(***************************************************************************)
(* The three tasks that share the transmit path: the main task, the player *)
(* and the OTA task, which is the one that also sends JL packets.          *)
(***************************************************************************)
EXTENDS Vb6824TxShared, TLC

CONSTANTS main, player, jl_ota

MCTasks    == {main, player, jl_ota}
MCOtaTasks == {jl_ota}

(* main and player only ever call vb6824_send. *)
Symmetry == Permutations({main, player})
=============================================================================
