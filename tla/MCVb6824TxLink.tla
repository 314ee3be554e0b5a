--------------------------- MODULE MCVb6824TxLink ---------------------------
(* The OTA task alone on the line: it sends both kinds of frames. *)
EXTENDS Vb6824TxLink

CONSTANT jl_ota

MCTasks == {jl_ota}

ASSUME OnlySender == SingleSender
=============================================================================
