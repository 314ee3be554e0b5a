------------------------------ MODULE Vb6824Rx ------------------------------
(***************************************************************************)
(* The host's receive path from the voice chip: the UART interrupt with    *)
(* its two frame parsers, the message buffer vb6824_recv_frame_mb, and the *)
(* task vb6824_recv_routine that empties it (example/qwen/vb6824.c).       *)
(*                                                                         *)
(* f_is_ota_mode selects the parser in the interrupt and the branch of the *)
(* task.  jl_ota_init, in a third task, sets it at any time; both readers  *)
(* look at it without synchronisation, and it is never cleared.            *)
(***************************************************************************)
EXTENDS Integers, Sequences

CONSTANTS
    Capacity,       \* bytes of the message buffer, 512
    VoiceFrames,    \* the voice frames the chip sends: [cmd, size] records
    JlFrames,       \* the upgrade packets it sends: [cmd, size] records
    MaxFrames       \* bound: frames the chip sends

(* Bytes FreeRTOS stores in front of every message. *)
LengthPrefix == 4
(* Mutant: room for a READ request, but not for its opcode. *)
OtaBufferEight == 8
(* sizeof the task's buffer in its OTA branch, and of the parser's. *)
OtaBuffer == 16

Words == 0..(2^16 - 1)

(* VB6824_CMD_REPORT_ASR, 0x0180. *)
ReportAsr == 256 + 128

ASSUME RxAssumption ==
    /\ Capacity \in Nat /\ MaxFrames \in Nat
    /\ VoiceFrames \subseteq [cmd : Words, size : 2..502]
    /\ JlFrames \subseteq [cmd : Words, size : 1..16]

VARIABLES
    isOtaMode,      \* f_is_ota_mode
    chipMode,       \* the protocol the chip speaks
    incoming,       \* the frame the interrupt is in the middle of, or none
    received,       \* vb6824_recv_frame_mb
    pc,             \* where the task is: the test of the mode, a receive, a callback
    forwarded,      \* datagrams sent to the upgrade task's socket
    swallowed,      \* upgrade packets taken by the voice branch
    stored,         \* history: upgrade packets that were put into the buffer
    sent            \* number of frames the chip has begun

vars == <<isOtaMode, chipMode, incoming, received, pc, forwarded, swallowed, stored,
          sent>>

-----------------------------------------------------------------------------
Protocols == {"voice", "jl"}

ChipMessages ==
    { [protocol |-> "voice", frame |-> f] : f \in VoiceFrames } \cup
    { [protocol |-> "jl",    frame |-> f] : f \in JlFrames }

(* What the upgrade parser may make of the second half of a voice frame: a  *)
(* message of the voice frame's data_len, which is two less than its size.  *)
CutMessages ==
    { [protocol |-> "cut", frame |-> [f EXCEPT !.size = @ - 2]] :
        f \in { g \in VoiceFrames : g.size > 2 } }

Messages == ChipMessages \cup CutMessages

None == [protocol |-> "none"]

Init ==
    /\ isOtaMode = FALSE
    /\ chipMode = "voice"
    /\ incoming = None
    /\ received = <<>>
    /\ pc = "test"
    /\ forwarded = <<>>
    /\ swallowed = <<>>
    /\ stored = <<>>
    /\ sent = 0

-----------------------------------------------------------------------------
Parser == IF isOtaMode THEN "jl" ELSE "voice"

(* The bytes the first n messages of a buffer take, and all of them. *)
Bytes(q) == LET bytes[n \in 0..Len(q)] ==
                  IF n = 0 THEN 0 ELSE bytes[n - 1] + LengthPrefix + q[n].frame.size
            IN  bytes
Used(q) == Bytes(q)[Len(q)]

(* The first bytes of a frame reach the interrupt. *)
FrameBegins(m) ==
    /\ incoming = None /\ sent < MaxFrames
    /\ m.protocol = chipMode
    /\ incoming' = [protocol |-> m.protocol, frame |-> m.frame, parser |-> Parser]
    /\ sent' = sent + 1
    /\ UNCHANGED <<isOtaMode, chipMode, received, pc, forwarded, swallowed, stored>>

(* Mutant: a message is accepted whenever the buffer is not full, its       *)
(* length prefix not counted.                                               *)
FitsWithoutPrefix(m) == Used(received) + m.frame.size <= Capacity

(* xMessageBufferSendFromISR drops a message that does not fit. *)
Fits(m) == Used(received) + LengthPrefix + m.frame.size <= Capacity

(* A message is put into the buffer, or dropped. *)
Store(m) ==
    /\ received' = IF Fits(m) THEN Append(received, m) ELSE received
    /\ stored' = IF Fits(m) /\ m.protocol = "jl" THEN Append(stored, m) ELSE stored

(* Its last byte: the frame is put into the buffer if one parser, the right *)
(* one, has seen all of it, and fails a header, length or checksum test     *)
(* otherwise.                                                               *)
FrameEnds ==
    /\ incoming # None
    /\ LET m == [protocol |-> incoming.protocol, frame |-> incoming.frame]
           parsed == incoming.parser = m.protocol /\ Parser = m.protocol
       IN  IF parsed THEN Store(m) ELSE UNCHANGED <<received, stored>>
    /\ incoming' = None
    /\ UNCHANGED <<isOtaMode, chipMode, pc, forwarded, swallowed, sent>>

(* The mode was switched inside a voice frame and what is left of it meets  *)
(* the upgrade parser's checksum (a tail of zeros does: see Vb6824Fsm).     *)
CutFrameEnds ==
    /\ incoming # None /\ incoming.parser = "voice" /\ Parser = "jl"
    /\ incoming.frame.size > 2
    /\ Store([protocol |-> "cut", frame |-> [incoming.frame EXCEPT !.size = @ - 2]])
    /\ incoming' = None
    /\ UNCHANGED <<isOtaMode, chipMode, pc, forwarded, swallowed, sent>>

(* jl_ota_init: f_is_ota_mode = 1, in the upgrade task. *)
EnterOtaMode ==
    /\ ~isOtaMode
    /\ isOtaMode' = TRUE
    /\ UNCHANGED <<chipMode, incoming, received, pc, forwarded, swallowed, stored, sent>>

(* External: told to upgrade, the chip changes its protocol between frames. *)
ChipUpgrades ==
    /\ isOtaMode /\ chipMode = "voice" /\ incoming = None
    /\ chipMode' = "jl"
    /\ UNCHANGED <<isOtaMode, incoming, received, pc, forwarded, swallowed, stored, sent>>

-----------------------------------------------------------------------------

(* Mutant: once the mode is seen to be the upgrade's, what the other mode   *)
(* left in the buffer is thrown away, and all else with it.                 *)
TestModeFlushing ==
    /\ pc = "test"
    /\ pc' = Parser
    /\ received' = IF isOtaMode /\ forwarded = <<>> THEN <<>> ELSE received
    /\ UNCHANGED <<isOtaMode, chipMode, incoming, forwarded, swallowed, stored, sent>>

(* vb6824_recv_routine: if (!f_is_ota_mode) ... *)
TestMode ==
    /\ pc = "test"
    /\ pc' = Parser
    /\ UNCHANGED <<isOtaMode, chipMode, incoming, received, forwarded, swallowed, stored,
                   sent>>

(* Mutant: the task stays in the voice branch it once chose. *)
ReceiveVoiceForever ==
    /\ pc = "voice" /\ received # <<>>
    /\ received' = Tail(received)
    /\ swallowed' = IF Head(received).protocol = "jl"
                    THEN Append(swallowed, Head(received)) ELSE swallowed
    /\ UNCHANGED <<isOtaMode, chipMode, incoming, pc, forwarded, stored, sent>>

(* A message vb6824_on_frame_recv may take for the wake word: a report of   *)
(* the speech recognition, or what the parser made of a frame it cut.  (The *)
(* first byte of an upgrade packet is that of no voice command.)            *)
MayWake(m) ==
    \/ m.protocol = "cut"
    \/ m.protocol = "voice" /\ m.frame.cmd = ReportAsr

(* The voice branch: any message fits its 502-byte buffer, and goes to      *)
(* vb6824_on_frame_recv.  The branch may have been chosen before the mode   *)
(* changed.  The wake word's callback waits for a place in the sound queue  *)
(* and for the sound to be played; the others return at once.               *)
ReceiveVoice ==
    /\ pc = "voice" /\ received # <<>>
    /\ received' = Tail(received)
    /\ swallowed' = IF Head(received).protocol = "jl"
                    THEN Append(swallowed, Head(received)) ELSE swallowed
    /\ pc' \in {"test"} \cup (IF MayWake(Head(received)) THEN {"callback"} ELSE {})
    /\ UNCHANGED <<isOtaMode, chipMode, incoming, forwarded, stored, sent>>

(* vb6824_on_report_asr returns. *)
CallbackReturns ==
    /\ pc = "callback"
    /\ pc' = "test"
    /\ UNCHANGED <<isOtaMode, chipMode, incoming, received, forwarded, swallowed, stored,
                   sent>>

(* It never does: it waits with portMAX_DELAY for a player that is stranded *)
(* in a send which collided with another task's (Dialog, Vb6824Tx).         *)
CallbackHangs ==
    /\ pc = "callback"
    /\ pc' = "hung"
    /\ UNCHANGED <<isOtaMode, chipMode, incoming, received, forwarded, swallowed, stored,
                   sent>>

TooLong(m) == m.frame.size > OtaBuffer

(* The OTA branch: a message that fits the 16-byte buffer is sent on to the *)
(* upgrade task.                                                            *)
ReceiveOta ==
    /\ pc = "jl" /\ received # <<>> /\ ~TooLong(Head(received))
    /\ received' = Tail(received)
    /\ forwarded' = Append(forwarded, Head(received))
    /\ pc' = "test"
    /\ UNCHANGED <<isOtaMode, chipMode, incoming, swallowed, stored, sent>>

(* xMessageBufferReceive leaves a longer message where it is and returns 0; *)
(* the task goes round its loop.                                            *)
ReceiveOtaTooLong ==
    /\ pc = "jl" /\ received # <<>> /\ TooLong(Head(received))
    /\ pc' = "test"
    /\ UNCHANGED <<isOtaMode, chipMode, incoming, received, forwarded, swallowed, stored,
                   sent>>

Interrupt == FrameEnds \/ CutFrameEnds \/ \E m \in ChipMessages : FrameBegins(m)

ReceiveTask ==
    \/ TestMode \/ ReceiveVoice \/ CallbackReturns \/ CallbackHangs
    \/ ReceiveOta \/ ReceiveOtaTooLong

Next == Interrupt \/ EnterOtaMode \/ ChipUpgrades \/ ReceiveTask

Spec == Init /\ [][Next]_vars

(* The receive task is scheduled; its callback returns or is found to hang. *)
(* Chip and upgrade task owe nothing.                                       *)
FairSpec == Spec /\ WF_vars(ReceiveTask)

-----------------------------------------------------------------------------
TypeOK ==
    /\ isOtaMode \in BOOLEAN
    /\ chipMode \in Protocols
    /\ incoming = None \/ incoming \in [protocol : Protocols, parser : Protocols,
                                        frame : VoiceFrames \cup JlFrames]
    /\ received \in Seq(Messages)
    /\ pc \in {"test", "voice", "jl", "callback", "hung"}
    /\ {forwarded, swallowed, stored} \subseteq Seq(Messages)
    /\ sent \in 0..MaxFrames

(* The message buffer never holds more than its bytes, prefixes included.  *)
NeverOverfull == Used(received) <= Capacity

(* The types of the receive path, and a message buffer within its bytes.    *)
RxInv == TypeOK /\ NeverOverfull

(* The unsynchronised mode switch costs the upgrade protocol at most one    *)
(* packet: only the receive the task was already blocked in can hand an     *)
(* upgrade packet to the voice branch.                                      *)
AtMostOneSwallowed == Len(swallowed) <= 1

(* The upgrade packets among the first n messages of a sequence, and all. *)
IfPacket(m) == IF m.protocol = "jl" THEN <<m>> ELSE <<>>
PacketsUpTo(q) == LET packets[n \in 0..Len(q)] ==
                        IF n = 0 THEN <<>> ELSE packets[n - 1] \o IfPacket(q[n])
                  IN  packets
Packets(q) == PacketsUpTo(q)[Len(q)]

(* Upgrade packets that were put into the buffer stay in order, none is     *)
(* lost and none is forwarded twice, whenever the mode is switched and      *)
(* whatever voice frames stand among them: but for the one the voice branch *)
(* may swallow, which is the first of all, those stored are those forwarded *)
(* to the upgrade task, followed by those still in the buffer.              *)
PacketsInOrder == stored = swallowed \o Packets(forwarded) \o Packets(received)

Wedged == /\ isOtaMode /\ pc # "voice" /\ received # <<>>
          /\ Head(received).protocol # "jl" /\ TooLong(Head(received))

Pending == Packets(received) # <<>>

(* In OTA mode the task works through the buffer: every upgrade packet in   *)
(* it is taken out, unless a longer voice or cut frame stands before it, or *)
(* the task hangs in the callback of a wake word it took before.            *)
PacketsMoveUnlessWedged == Pending ~> (~Pending \/ Wedged \/ pc = "hung")
=============================================================================
