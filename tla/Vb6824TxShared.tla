--------------------------- MODULE Vb6824TxShared ---------------------------
(***************************************************************************)
(* The transmit path used by any number of tasks implements SharedLink.    *)
(***************************************************************************)
EXTENDS Vb6824Tx

Phase(t) == CASE pc[t] = "idle" -> "idle"
              [] pc[t] = "wait" -> "waiting"
              [] OTHER          -> "sending"

Shared == INSTANCE SharedLink WITH
            Senders    <- Tasks,
            MayRunOut  <- GdmaMayRunOut,
            phase      <- [t \in Tasks |-> Phase(t)],
            running    <- dma.on,
            token      <- doneSem,
            stranded   <- rejected + lostGives

(* Whatever the tasks' frames and the DMA do, the callers see no more than  *)
(* SharedLink: a send goes on only with the token of a completed transfer,  *)
(* each completion releases at most one, and the busy test of the driver,   *)
(* apart from the setting of its flag, lets two transfers overlap in no     *)
(* other way than the one SharedLink stops at.                              *)
ImplementsShared == Shared!Spec
=============================================================================
