------------------------------ MODULE SharedLink ------------------------------
(***************************************************************************)
(* The transmit path to the voice chip as its callers meet it: what        *)
(* vb6824_send() and jl_uart_send_packet() amount to when several tasks    *)
(* call them, with the frames, the buffers and the DMA left out.           *)
(*                                                                         *)
(* A send waits for the one completion token whatever became of its own    *)
(* transfer, so a send that was refused or overtaken costs some task its   *)
(* return.  Vb6824Tx implements this specification (Vb6824TxShared); the   *)
(* modules that compose tasks which send use it in place of Vb6824Tx.      *)
(***************************************************************************)
EXTENDS Naturals

CONSTANTS
    Senders,        \* the tasks that send
    MayRunOut       \* may the driver find no free DMA channel?

VARIABLES
    phase,          \* per sender: "idle", "sending" (before the DMA), "waiting"
    running,        \* a transfer is in progress
    token,          \* vb6824_dma_tx_done_sem
    stranded,       \* returns that will never come: refused sends and lost gives
    overlapped      \* a transfer was started over a running one

vars == <<phase, running, token, stranded, overlapped>>

Init ==
    /\ phase = [s \in Senders |-> "idle"]
    /\ running = FALSE
    /\ token = 0
    /\ stranded = 0
    /\ overlapped = FALSE

Goto(s, p) == phase' = [phase EXCEPT ![s] = p]

(* The call: the frame is built, and the 8 ms delay begins. *)
Begin(s) ==
    /\ phase[s] = "idle"
    /\ Goto(s, "sending")
    /\ UNCHANGED <<running, token, stranded, overlapped>>

(* The transfer is started. *)
Start(s) ==
    /\ phase[s] = "sending" /\ ~running
    /\ running' = TRUE
    /\ Goto(s, "waiting")
    /\ UNCHANGED <<token, stranded, overlapped>>

(* The driver returns HAL_BUSY, which no caller looks at. *)
Refuse(s) ==
    /\ phase[s] = "sending" /\ (running \/ MayRunOut)
    /\ stranded' = stranded + 1
    /\ Goto(s, "waiting")
    /\ UNCHANGED <<running, token, overlapped>>

(* Two tasks were past the driver's test of its flag when the first set it. *)
Overlap(s) ==
    /\ phase[s] = "sending" /\ running
    /\ overlapped' = TRUE
    /\ Goto(s, "waiting")
    /\ UNCHANGED <<running, token, stranded>>

(* The completion interrupt gives the token; a give to a full one is lost. *)
Complete ==
    /\ running
    /\ running' = FALSE
    /\ token' = 1
    /\ stranded' = stranded + token
    /\ UNCHANGED <<phase, overlapped>>

(* Whoever waits may take the token, and its send returns. *)
Return(s) ==
    /\ phase[s] = "waiting" /\ token = 1
    /\ token' = 0
    /\ Goto(s, "idle")
    /\ UNCHANGED <<running, stranded, overlapped>>

(* The steps of a send between its call and its return. *)
Progress(s) == ~overlapped /\ (Start(s) \/ Refuse(s) \/ Overlap(s))

Next ==
    \/ ~overlapped /\ Complete
    \/ \E s \in Senders : Progress(s) \/ (~overlapped /\ (Begin(s) \/ Return(s)))

Spec == Init /\ [][Next]_vars

(* A send can no longer be relied on: it was refused, its completion went   *)
(* to another, or two transfers ran into each other.                        *)
Collision == stranded > 0 \/ overlapped
=============================================================================
