------------------------------ MODULE FrameLink ------------------------------
(***************************************************************************)
(* What a caller expects of the link to the voice chip: a frame is         *)
(* accepted, arrives whole, and only then is the next one accepted.        *)
(***************************************************************************)
EXTENDS Naturals, Sequences

CONSTANT Msgs

VARIABLES accepted, delivered

vars == <<accepted, delivered>>

Init == accepted = <<>> /\ delivered = <<>>

Accept(m) ==
    /\ Len(accepted) = Len(delivered)
    /\ accepted' = Append(accepted, m)
    /\ UNCHANGED delivered

Deliver ==
    /\ Len(delivered) < Len(accepted)
    /\ delivered' = Append(delivered, accepted[Len(delivered) + 1])
    /\ UNCHANGED accepted

Next == Deliver \/ \E m \in Msgs : Accept(m)

Spec == Init /\ [][Next]_vars /\ WF_vars(Deliver)
=============================================================================
