----------------------------- MODULE Vb6824Fsm -----------------------------
(***************************************************************************)
(* The UART interrupt of example/qwen/vb6824.c, byte by byte: the two      *)
(* frame parsers and the static state they share.  status, data_len and    *)
(* the message buffer are common to both; each parser has its own          *)
(* checksum.  f_is_ota_mode may become 1 between any two bytes, and the    *)
(* line may lose or garble a byte.                                         *)
(*                                                                         *)
(* Voice frame:    55 AA, length (big endian), cmd (big endian), data,     *)
(*                 sum of all the bytes before.                            *)
(* Upgrade packet: AA 55, length (little endian), data, CRC16-CCITT        *)
(*                 (little endian) of all the bytes before.                *)
(***************************************************************************)
EXTENDS Integers, Sequences, SequencesExt

CONSTANTS
    MaxVoiceData,   \* sizeof buffer.frame.data, 500
    MaxJlData,      \* sizeof buffer.data, 16
    VoiceFrames,    \* the [cmd, data] records the chip sends as voice frames
    JlPackets,      \* the byte sequences it sends as upgrade packets
    Noise,          \* what a garbled byte may turn into
    MaxFrames,      \* bound: frames sent
    MaxErrors       \* bound: bytes lost or garbled

Byte == 0..255
Word == {n \in Nat : n \div 256 \in Byte}

ASSUME FsmAssumption ==
    /\ {MaxJlData, MaxFrames, MaxErrors} \subseteq Nat
    /\ MaxVoiceData \in Word /\ MaxJlData <= MaxVoiceData
    /\ \A f \in VoiceFrames : /\ f.cmd \in Word
                              /\ f.data \in Seq(Byte) /\ Len(f.data) <= MaxVoiceData
    /\ \A d \in JlPackets : d \in Seq(Byte) /\ Len(d) \in 1..MaxJlData
    /\ Noise \subseteq Byte

VARIABLES
    isOtaMode,      \* f_is_ota_mode
    parser,         \* the interrupt's static variables
    line,           \* bytes of the current frame that have not arrived yet
    frame,          \* the current frame: its protocol and its message
    delivered,      \* messages put into the buffer since the frame began
    clean,          \* the frame met a hunting parser of its protocol, no error
    cut,            \* f_is_ota_mode was set while the voice parser was in a frame
    seen,           \* the last bytes that arrived
    phantoms,       \* messages delivered that are no frame of the bytes seen
    frames, errors  \* the bounds' counters

vars == <<isOtaMode, parser, line, frame, delivered, clean, cut, seen, phantoms,
          frames, errors>>

-----------------------------------------------------------------------------
(* The union of vb6824_frame_t (cmd, then data) and data[16]. *)
BufferLen == 2 + MaxVoiceData

LowByte(n)  == n % 256
HighByte(n) == n \div 256

(* ^ and | of 16-bit numbers. *)
Bit(x, k) == (x \div k) % 2
ByteXor(x, y) ==
    LET at(k) == k * ((Bit(x, k) + Bit(y, k)) % 2)
    IN  at(1) + at(2) + at(4) + at(8) + at(16) + at(32) + at(64) + at(128)
ByteOr(x, y) ==
    LET at(k) == IF Bit(x, k) = 0 /\ Bit(y, k) = 0 THEN 0 ELSE k
    IN  at(1) + at(2) + at(4) + at(8) + at(16) + at(32) + at(64) + at(128)
Xor(x, y) == 256 * ByteXor(HighByte(x), HighByte(y)) + ByteXor(LowByte(x), LowByte(y))
Or(x, y)  == 256 * ByteOr(HighByte(x), HighByte(y)) + ByteOr(LowByte(x), LowByte(y))

(* One round of the inner loop, of which a byte takes eight: polynomial     *)
(* 0x1021.                                                                  *)
CrcBit(c)  == LET d == (2 * c) % (256 * 256)
              IN  IF HighByte(c) >= 128 THEN Xor(d, 256 * 16 + 33) ELSE d
CrcBits(c) == CrcBit(CrcBit(c))
CrcByte(crc, b) == CrcBits(CrcBits(CrcBits(CrcBits(Xor(crc, 256 * b)))))

crc16_ccitt(s) == LET crc[n \in 0..Len(s)] == IF n = 0 THEN 0 ELSE CrcByte(crc[n - 1], s[n])
                  IN  crc[Len(s)]

Sum8(s) == LET sum[n \in 0..Len(s)] == IF n = 0 THEN 0 ELSE (sum[n - 1] + s[n]) % 256
           IN  sum[Len(s)]

(* The frame vb6824_send builds; the chip's have the same layout. *)
EncodeVoice(cmd, data) ==
    LET body == <<85, 170, HighByte(Len(data)), LowByte(Len(data)),
                  HighByte(cmd), LowByte(cmd)>> \o data
    IN  Append(body, Sum8(body))

(* The packet jl_uart_send_packet builds, its opcode the first data byte. *)
EncodeJl(data) ==
    LET body == <<170, 85, LowByte(Len(data)), HighByte(Len(data))>> \o data
        crc == crc16_ccitt(body)
    IN  body \o <<LowByte(crc), HighByte(crc)>>

(* The frame that has this protocol and this message (the bytes in memory:  *)
(* a voice frame starts with its little-endian cmd).                        *)
Encode(protocol, msg) ==
    IF protocol = "jl" THEN EncodeJl(msg)
    ELSE EncodeVoice(msg[1] + 256 * msg[2], SubSeq(msg, 3, Len(msg)))

-----------------------------------------------------------------------------
(* vb6824_uart_finite_state_machine: what it stores, when it gives up, and  *)
(* when it has a frame.                                                     *)

(* Mutant: the bound includes one byte more. *)
LengthAllowedPlusOne(n, max) == n <= max + 1

LengthAllowed(n, max) == n <= max

VoiceStore(p, b) ==
    CASE p.status = 2 -> [p EXCEPT !.dataLen = 256 * b]
      [] p.status = 3 -> [p EXCEPT !.dataLen = @ + b]
      [] p.status = 4 -> [p EXCEPT !.buffer = [@ EXCEPT ![0] = 0, ![1] = b]]
      [] p.status = 5 -> [p EXCEPT !.buffer[0] = b]
      [] p.status \in 6..(p.dataLen + 5) -> [p EXCEPT !.buffer[p.status - 4] = b]
      [] OTHER -> p

(* Mutant: the checksum byte is consumed, not compared. *)
VoiceCompleteUnchecked(p, b) == p.status >= 6 /\ p.status = p.dataLen + 6

VoiceComplete(p, b) ==
    p.status >= 6 /\ p.status = p.dataLen + 6 /\ b = p.sum8

VoiceRejects(p, b) ==
    \/ p.status = 0 /\ b # 85
    \/ p.status = 1 /\ b # 170
    \/ p.status = 3 /\ ~LengthAllowed(p.dataLen + b, MaxVoiceData)
    \/ p.status >= 6 /\ p.status >= p.dataLen + 6 /\ ~VoiceComplete(p, b)

VoiceAgain(p) == [p EXCEPT !.status = 0, !.sum8 = 0]

VoiceStep(p, b) ==
    LET q == VoiceStore(p, b)
    IN  IF VoiceRejects(p, b) \/ VoiceComplete(p, b) THEN VoiceAgain(q)
        ELSE [q EXCEPT !.status = @ + 1, !.sum8 = (@ + b) % 256]

(* jl_ota_uart_finite_state_machine.  data_len and the target checksum are  *)
(* or-ed into what is there: the voice parser may have left it.             *)
JlStore(p, b) ==
    CASE p.status = 2 -> [p EXCEPT !.dataLen = b]
      [] p.status = 3 -> [p EXCEPT !.dataLen = Or(@, 256 * b)]
      [] p.status \in 4..(p.dataLen + 3) -> [p EXCEPT !.buffer[p.status - 4] = b]
      [] p.status >= 4 /\ p.status = p.dataLen + 4 -> [p EXCEPT !.target = b]
      [] p.status >= 4 /\ p.status = p.dataLen + 5 ->
            [p EXCEPT !.target = Or(@, 256 * b)]
      [] OTHER -> p

JlComplete(p, b) ==
    p.status >= 4 /\ p.status = p.dataLen + 5 /\ Or(p.target, 256 * b) = p.crc

JlRejects(p, b) ==
    \/ p.status = 0 /\ b # 170
    \/ p.status = 1 /\ b # 85
    \/ p.status = 3 /\ ~LengthAllowed(Or(p.dataLen, 256 * b), MaxJlData)
    \/ p.status >= 4 /\ p.status >= p.dataLen + 5 /\ ~JlComplete(p, b)

(* Mutant: the CRC of a packet starts from the one of the last. *)
JlAgainDirty(p) == [p EXCEPT !.status = 0]

JlAgain(p) == [p EXCEPT !.status = 0, !.crc = 0]

JlStep(p, b) ==
    LET q == JlStore(p, b)
        summed == p.status <= 3 \/ p.status < q.dataLen + 4
    IN  IF JlRejects(p, b) \/ JlComplete(p, b) THEN JlAgain(q)
        ELSE [q EXCEPT !.status = @ + 1,
                       !.crc = IF summed THEN CrcByte(@, b) ELSE @]

-----------------------------------------------------------------------------
Init ==
    /\ isOtaMode = FALSE
    /\ parser = [status |-> 0, dataLen |-> 0, sum8 |-> 0, crc |-> 0, target |-> 0,
                 buffer |-> [i \in 0..(BufferLen - 1) |-> 0]]
    /\ line = <<>> /\ frame = [protocol |-> "none"]
    /\ delivered = <<>> /\ clean = FALSE /\ cut = FALSE
    /\ seen = <<>> /\ phantoms = 0
    /\ frames = 0 /\ errors = 0

Parser == IF isOtaMode THEN "jl" ELSE "voice"

(* The chip begins a frame.  It sends upgrade packets only after the host   *)
(* asked it to upgrade, which is after f_is_ota_mode was set.               *)
FrameSent(protocol, msg) ==
    /\ line = <<>> /\ frames < MaxFrames
    /\ protocol = "jl" => isOtaMode
    /\ line' = Encode(protocol, msg)
    /\ frame' = [protocol |-> protocol, msg |-> msg]
    /\ clean' = (parser.status = 0 /\ protocol = Parser)
    /\ delivered' = <<>>
    /\ frames' = frames + 1
    /\ UNCHANGED <<isOtaMode, parser, cut, seen, phantoms, errors>>

(* What the interrupt sends to the message buffer when a frame completes. *)
Message(p) ==
    LET n == IF isOtaMode THEN p.dataLen ELSE 2 + p.dataLen
    IN  [i \in 1..n |-> p.buffer[i - 1]]

Window(s) == IF Len(s) <= MaxVoiceData + 7 THEN s ELSE Tail(s)

(* vb6824_uart_irq_handler takes byte b. *)
Interrupt(b) ==
    LET success == IF isOtaMode THEN JlComplete(parser, b)
                                ELSE VoiceComplete(parser, b)
        step == IF isOtaMode THEN JlStep(parser, b) ELSE VoiceStep(parser, b)
        now  == Window(Append(seen, b))
        genuine == IsSuffix(Encode(Parser, Message(step)), now)
    IN  /\ parser' = step
        /\ seen' = now
        /\ delivered' = IF success THEN Append(delivered, Message(step)) ELSE delivered
        /\ phantoms' = IF success /\ ~genuine THEN phantoms + 1 ELSE phantoms
        /\ UNCHANGED <<isOtaMode, frame, cut, frames>>

ByteArrives ==
    /\ line # <<>> /\ line' = Tail(line)
    /\ Interrupt(Head(line))
    /\ UNCHANGED <<clean, errors>>

(* External: a byte changes on the wire. *)
ByteGarbled(b) ==
    /\ line # <<>> /\ line' = Tail(line) /\ errors < MaxErrors
    /\ b # Head(line) /\ Interrupt(b)
    /\ clean' = FALSE /\ errors' = errors + 1

(* External: the receive FIFO overruns. *)
ByteLost ==
    /\ line # <<>> /\ line' = Tail(line) /\ errors < MaxErrors
    /\ clean' = FALSE /\ errors' = errors + 1
    /\ UNCHANGED <<isOtaMode, parser, frame, delivered, cut, seen, phantoms, frames>>

(* jl_ota_init, in another task, between two interrupts. *)
EnterOtaMode ==
    /\ ~isOtaMode /\ isOtaMode' = TRUE
    /\ cut' = (parser.status # 0)
    /\ clean' = FALSE
    /\ UNCHANGED <<parser, line, frame, delivered, seen, phantoms, frames, errors>>

VoiceMessages ==
    { <<LowByte(f.cmd), HighByte(f.cmd)>> \o f.data : f \in VoiceFrames }

Next ==
    \/ \E msg \in VoiceMessages : FrameSent("voice", msg)
    \/ \E msg \in JlPackets : FrameSent("jl", msg)
    \/ ByteArrives
    \/ \E b \in Noise : ByteGarbled(b)
    \/ ByteLost
    \/ EnterOtaMode

Spec == Init /\ [][Next]_vars

-----------------------------------------------------------------------------
Parsers == [status : 0..(MaxVoiceData + 6), dataLen : Word, sum8 : Byte, crc : Word,
            target : Word, buffer : [0..(BufferLen - 1) -> Byte]]

(* The parser is never further into a frame than the longest frame: after  *)
(* any damage it hunts for a header again within MaxVoiceData + 7 bytes.   *)
TypeOK ==
    /\ isOtaMode \in BOOLEAN
    /\ parser \in Parsers
    /\ line \in Seq(Byte) /\ seen \in Seq(Byte)
    /\ clean \in BOOLEAN /\ cut \in BOOLEAN
    /\ phantoms \in Nat /\ frames \in 0..MaxFrames /\ errors \in 0..MaxErrors

(* A frame that finds a hunting parser of its protocol, and arrives whole,  *)
(* is delivered exactly once with exactly its bytes, whatever damage the    *)
(* parser went through before: nothing of an abandoned frame survives in    *)
(* checksums, lengths or buffer.                                            *)
FramesDelivered ==
    (clean /\ line = <<>>) => delivered = <<frame.msg>>

(* A message that was not on the line as a frame is delivered at most once, *)
(* and only if the mode was switched inside a voice frame: the upgrade      *)
(* parser goes on with the other's status and data_len, but its own         *)
(* checksum, which a run of zero bytes satisfies.                           *)
PhantomOnlyFromCut == phantoms <= IF cut THEN 1 ELSE 0

(* Both parsers store, and both messages are read, inside the union, also   *)
(* when one goes on with the status and data_len of the other: data_len     *)
(* may then be far above the upgrade parser's own 16.                       *)
WritesInBounds ==
    parser.status >= 4 =>
        /\ 2 + parser.dataLen <= BufferLen
        /\ parser.status \in 6..(parser.dataLen + 5) => parser.status - 4 < BufferLen
        /\ parser.status \in 4..(parser.dataLen + 3) => parser.status - 4 < BufferLen

(* The types of both parsers' state, and stores within the union.           *)
FsmInv == TypeOK /\ WritesInBounds
=============================================================================
