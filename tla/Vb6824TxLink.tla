---------------------------- MODULE Vb6824TxLink ----------------------------
(***************************************************************************)
(* The transmit path used by a single task implements FrameLink.           *)
(***************************************************************************)
EXTENDS Vb6824Tx

CONSTANT Sender     \* the only task that sends

SingleSender == Tasks = {Sender}

(* A frame that arrives mixed is received as junk. *)
Received(f) == IF Intact(f) THEN f.len ELSE Junk

Link == INSTANCE FrameLink WITH
          accepted  <- [i \in 1..sent[Sender] |-> <<Sender, i>>],
          delivered <- [i \in 1..Len(wire) |-> Received(wire[i])]

(* A single sender sees a reliable synchronous link: every frame it sends   *)
(* arrives unmixed, in order, exactly once, before the next one is begun.   *)
ImplementsLink == Link!Spec

(* ImplementsLink without its liveness: nothing lost, mixed, reordered or  *)
(* sent twice.                                                             *)
LinkIsSafe == Link!Init /\ [][Link!Next]_Link!vars
=============================================================================
