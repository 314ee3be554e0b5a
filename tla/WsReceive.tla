----------------------------- MODULE WsReceive ------------------------------
(***************************************************************************)
(* The receiving side of the web-socket client: the read loop of ws_poll   *)
(* and ws_dispatchBinary (component/network/websocket/wsclient_api.c),     *)
(* which cut the server's stream of bytes into frames, put fragments       *)
(* together and throw away what is too long for the buffer.                *)
(*                                                                         *)
(* The stream is a sequence of frames laid end to end, as a server that    *)
(* keeps to the protocol sends them.  rxbuf holds the rxLen bytes before   *)
(* position rpos, since bytes leave it at the front or all at once.  The   *)
(* TLS layer takes whole records off the socket, and select() sees only    *)
(* the socket.  What is sent, and the end of a session, is in WsSession.   *)
(***************************************************************************)
EXTENDS WsContext, Integers, Sequences, FiniteSets

CONSTANTS
    Streams,        \* the frame sequences the server may send
    MaxRx,          \* max_rx_len, 32 KB for the dialog
    Slack,          \* what rxbuf holds beyond it, 16
    ReadMax,        \* bytes asked for in one read, 1500
    RecordSizes     \* sizes of TLS records

(* A frame: opcode, FIN, length of header and of payload. *)
Frames == [op : {"TEXT", "BINARY", "CONTINUATION", "PING", "PONG", "CLOSE"}, fin : BOOLEAN,
           head : 2..Slack, len : Nat]

IsData(f) == f.op \in {"TEXT", "BINARY", "CONTINUATION"}

(* A server begins a message when those before it have ended. *)
InOrder(s) ==
    \A j \in DOMAIN s : s[j].op \in {"TEXT", "BINARY"} =>
        \A k \in 1..(j - 1) : IsData(s[k]) => \E e \in k..(j - 1) : IsData(s[e]) /\ s[e].fin

ASSUME StreamsAssumption ==
    /\ {MaxRx, Slack, ReadMax} \subseteq Nat \ {0} /\ RecordSizes \subseteq Nat \ {0}
    /\ Streams \subseteq Seq(Frames) /\ \A s \in Streams : InOrder(s)

VARIABLES
    stream,             \* what the server sends
    tpos, rpos,         \* bytes the TLS layer and the client have read of it
    rxLen,              \* rx_len
    discarding,         \* enable_ws_msg_discarded
    total, rcv,         \* discarded_ws_msg_total_len, discarded_ws_msg_rcv_len
    received, length,   \* receivedData as frames, and wsclient_reallength
    pc,                 \* where the main task is in ws_poll
    delivered,          \* history: what mmi_ws_handler was given
    discarded,          \* history: frames thrown away for their length
    straddled,          \* history: the read that ended a discard went beyond it
    short, starved      \* no memory in the last dispatch; ever, with fragments held

discardVars == <<discarding, total, rcv>>
dataVars    == <<received, length, delivered>>
memoryVars  == <<short, starved>>
vars == <<stream, tpos, rpos, rxLen, discardVars, dataVars, readyState, pc, discarded, straddled,
          memoryVars>>

Capacity == MaxRx + Slack
Room     == Capacity - rxLen
Least(S) == CHOOSE m \in S : \A n \in S : m <= n

Size(f) == f.head + f.len
(* Where frame i of the stream begins, the end of the stream included. *)
Offsets(s) == LET from[i \in 1..(Len(s) + 1)] ==
                    IF i = 1 THEN 0 ELSE from[i - 1] + Size(s[i - 1])
              IN  from
From  == Offsets(stream)
Total == From[Len(stream) + 1]

(* The frame that begins where rxbuf does, if one does. *)
Front   == rpos - rxLen
InStep  == \E i \in DOMAIN stream : From[i] = Front
Current == CHOOSE i \in DOMAIN stream : From[i] = Front
Frame   == stream[Current]

(* A context as create_wsclient leaves it, zeroed, and then connected. *)
Init ==
    /\ stream \in Streams
    /\ tpos = 0 /\ rpos = 0 /\ rxLen = 0
    /\ discarding = FALSE /\ total = 0 /\ rcv = 0
    /\ received = <<>> /\ length = 0 /\ delivered = <<>>
    /\ readyState = "OPEN" /\ pc = "poll"
    /\ discarded = {} /\ straddled = FALSE /\ short = FALSE /\ starved = FALSE

-----------------------------------------------------------------------------
(* ws_poll: the socket is readable, which the bytes the TLS layer already   *)
(* holds do not make it.                                                    *)
PollReadable ==
    /\ pc = "poll" /\ readyState = "OPEN" /\ tpos < Total
    /\ pc' = "read"
    /\ UNCHANGED <<stream, tpos, rpos, rxLen, discardVars, dataVars, readyState, discarded,
                   straddled, memoryVars>>

(* A connection being closed is closed; so is one that select or a read     *)
(* reports broken.                                                          *)
PollCloses ==
    /\ \/ pc = "poll" /\ readyState = "CLOSING"
       \/ pc \in {"poll", "read"} /\ readyState = "OPEN"
    /\ readyState' = "CLOSED" /\ pc' = "closed"
    /\ received' = <<>>
    /\ UNCHANGED <<stream, tpos, rpos, rxLen, discardVars, length, delivered, discarded, straddled,
                   memoryVars>>

(* The TLS layer, asked for bytes and holding none, takes the next record,  *)
(* be it asked for no byte at all.                                          *)
FetchRecord ==
    /\ pc = "read" /\ rpos = tpos /\ tpos < Total
    /\ \E n \in RecordSizes : tpos' = Least({tpos + n, Total})
    /\ UNCHANGED <<stream, rpos, rxLen, discardVars, dataVars, readyState, pc, discarded, straddled,
                   memoryVars>>

(* Mutant: the end of a long message is not recognised when a read ends     *)
(* with it.                                                                 *)
ReadOn ==
    /\ pc = "read" /\ Room > 0 /\ rpos < tpos
    /\ LET n == Least({Room, ReadMax, tpos - rpos})
       IN  /\ rpos' = rpos + n
           /\ IF discarding
              THEN /\ rcv' = IF rcv + n > total THEN 0 ELSE rcv + n
                   /\ total' = IF rcv + n > total THEN 0 ELSE total
                   /\ discarding' = (rcv + n <= total)
                   /\ straddled' = (straddled \/ rcv + n > total)
                   /\ rxLen' = 0
              ELSE rxLen' = rxLen + n /\ UNCHANGED <<discardVars, straddled>>
    /\ UNCHANGED <<stream, tpos, dataVars, readyState, pc, discarded, memoryVars>>

(* client_read: what there is, at most what fits.  While a long message is  *)
(* discarded, all that a read returns is counted to it.                     *)
Read ==
    /\ pc = "read" /\ Room > 0 /\ rpos < tpos
    /\ LET n == Least({Room, ReadMax, tpos - rpos})
       IN  /\ rpos' = rpos + n
           /\ IF discarding
              THEN /\ rcv' = IF rcv + n >= total THEN 0 ELSE rcv + n
                   /\ total' = IF rcv + n >= total THEN 0 ELSE total
                   /\ discarding' = (rcv + n < total)
                   /\ straddled' = (straddled \/ rcv + n > total)
                   /\ rxLen' = 0
              ELSE rxLen' = rxLen + n /\ UNCHANGED <<discardVars, straddled>>
    /\ UNCHANGED <<stream, tpos, dataVars, readyState, pc, discarded, memoryVars>>

(* A read returns 0, because nothing more has come or nothing more fits. *)
ReadEnds ==
    /\ pc = "read" /\ (Room = 0 \/ rpos = tpos)
    /\ pc' = IF discarding THEN "poll" ELSE "dispatch"
    /\ short' = FALSE
    /\ UNCHANGED <<stream, tpos, rpos, rxLen, discardVars, dataVars, readyState, discarded,
                   straddled, starved>>

-----------------------------------------------------------------------------
(* A payload is longer than max_rx_len.  (Mutants: as long as it; longer    *)
(* than rxbuf.)                                                             *)
TooLongOrEqual(f) == f.len >= MaxRx
TooLongForBuffer(f) == f.len > Capacity
TooLong(f) == f.len > MaxRx

(* ws_dispatchBinary returns: not all of the frame is there. *)
Incomplete ==
    /\ pc = "dispatch"
    /\ \/ rxLen < 2
       \/ InStep /\ (rxLen < Frame.head \/ (rxLen < Size(Frame) /\ ~TooLong(Frame)))
    /\ pc' = "poll"
    /\ UNCHANGED <<stream, tpos, rpos, rxLen, discardVars, dataVars, readyState, discarded,
                   straddled, memoryVars>>

(* What is there of a long message is thrown away, and the rest will be. *)
Discard ==
    /\ rxLen' = 0
    /\ discarded' = discarded \cup {Current}
    /\ pc' = "poll"
    /\ UNCHANGED <<stream, tpos, rpos, dataVars, readyState, straddled, memoryVars>>

(* Mutant: the header is not counted. *)
DiscardBeginsShort ==
    /\ pc = "dispatch" /\ rxLen >= 2 /\ InStep
    /\ rxLen >= Frame.head /\ rxLen < Size(Frame) /\ TooLong(Frame)
    /\ discarding' = TRUE /\ total' = Frame.len /\ rcv' = rxLen
    /\ Discard

DiscardBegins ==
    /\ pc = "dispatch" /\ rxLen >= 2 /\ InStep
    /\ rxLen >= Frame.head /\ rxLen < Size(Frame) /\ TooLong(Frame)
    /\ discarding' = TRUE /\ total' = Size(Frame) /\ rcv' = rxLen
    /\ Discard

(* All of it is there, and nothing after it. *)
DiscardWhole ==
    /\ pc = "dispatch" /\ rxLen >= 2 /\ InStep
    /\ rxLen = Size(Frame) /\ TooLong(Frame)
    /\ Discard
    /\ UNCHANGED discardVars

(* A frame that is there and is handled: a long one only with more after it. *)
Whole ==
    /\ pc = "dispatch" /\ rxLen >= 2 /\ InStep
    /\ rxLen >= Size(Frame) /\ ~(rxLen = Size(Frame) /\ TooLong(Frame))
Consume == rxLen' = rxLen - Size(Frame)

(* Data: copied behind what has been received of its message, and with FIN  *)
(* given to the handler, under the opcode of the last frame.                *)
Collect ==
    /\ Whole /\ IsData(Frame)
    /\ Consume
    /\ IF Frame.fin
       THEN /\ delivered' = Append(delivered, [op |-> Frame.op, parts |-> Append(received, Current),
                                               len |-> length + Frame.len])
            /\ received' = <<>> /\ length' = 0
       ELSE /\ received' = Append(received, Current)
            /\ length' = length + Frame.len
            /\ UNCHANGED delivered
    /\ UNCHANGED <<stream, tpos, rpos, discardVars, readyState, pc, discarded, straddled, memoryVars>>

(* Mutant: the frame is dropped. *)
CollectFailsDropping ==
    /\ Whole /\ IsData(Frame)
    /\ Consume
    /\ short' = TRUE /\ starved' = (starved \/ received # <<>>)
    /\ received' = <<>>
    /\ pc' = "poll"
    /\ UNCHANGED <<stream, tpos, rpos, discardVars, length, delivered, readyState, discarded,
                   straddled>>

(* There is no memory: what was received is freed and its length is not     *)
(* reset.  The frame stays, for the next dispatch.                          *)
CollectFails ==
    /\ Whole /\ IsData(Frame)
    /\ short' = TRUE /\ starved' = (starved \/ received # <<>>)
    /\ received' = <<>>
    /\ pc' = "poll"
    /\ UNCHANGED <<stream, tpos, rpos, rxLen, discardVars, length, delivered, readyState, discarded,
                   straddled>>

(* receivedData is NULL and its length is not 0: the copy from there may    *)
(* fault, or Collect goes on with whatever it copied.                       *)
CollectFaults ==
    /\ Whole /\ IsData(Frame) /\ received = <<>> /\ length > 0
    /\ pc' = "fault"
    /\ UNCHANGED <<stream, tpos, rpos, rxLen, discardVars, dataVars, readyState, discarded,
                   straddled, memoryVars>>

Control ==
    /\ Whole /\ Frame.op \in {"PING", "PONG", "CLOSE"}
    /\ Consume
    /\ readyState' = IF Frame.op = "CLOSE" THEN "CLOSING" ELSE readyState
    /\ UNCHANGED <<stream, tpos, rpos, discardVars, dataVars, pc, discarded, straddled, memoryVars>>

(* Bytes from the middle of a frame are taken for a header.  What becomes   *)
(* of the session is not followed further.                                  *)
Misparse ==
    /\ pc = "dispatch" /\ rxLen >= 2 /\ ~InStep
    /\ pc' = "lost"
    /\ UNCHANGED <<stream, tpos, rpos, rxLen, discardVars, dataVars, readyState, discarded,
                   straddled, memoryVars>>

-----------------------------------------------------------------------------
Dispatch == \/ Incomplete \/ DiscardBegins \/ DiscardWhole \/ Collect \/ Control
            \/ CollectFails \/ CollectFaults \/ Misparse
Next == PollReadable \/ PollCloses \/ FetchRecord \/ Read \/ ReadEnds \/ Dispatch

Spec == Init /\ [][Next]_vars

(* The main task runs, and what the server has sent arrives: a read that    *)
(* comes back empty does not do so for ever.                                *)
FairSpec ==
    /\ Spec
    /\ WF_vars(PollReadable \/ Read \/ ReadEnds \/ Dispatch)
    /\ SF_vars(FetchRecord)

-----------------------------------------------------------------------------
Counts ==
    /\ stream \in Streams
    /\ rpos \in 0..tpos /\ tpos \in 0..Total
    /\ rxLen \in 0..Capacity /\ rxLen <= rpos
    /\ total \in 0..Total /\ rcv \in 0..total
    /\ length \in 0..Total
DataTypes ==
    /\ received \in Seq(DOMAIN stream) /\ discarded \subseteq DOMAIN stream
    /\ readyState \in {"OPEN", "CLOSING", "CLOSED"}
    /\ pc \in {"poll", "read", "dispatch", "closed", "fault", "lost"}
FlagTypes == {discarding, straddled, short, starved} \subseteq BOOLEAN
TypeOK == Counts /\ DataTypes /\ FlagTypes

(* However the stream is cut into records and reads, the dispatcher takes a *)
(* header for a header, unless the read that ended the discarding of a long *)
(* message held bytes of the next one.                                      *)
InStepUnlessStraddled == (pc = "dispatch" /\ rxLen >= 2 /\ ~InStep) \/ pc = "lost" => straddled

(* The reference: the frames of the message that frame i ends. *)
Ends(i)  == IsData(stream[i]) /\ stream[i].fin
Parts(i) == {k \in 1..i : IsData(stream[k]) /\ ~\E j \in k..(i - 1) : Ends(j)}
SumLen(parts) == LET sum[n \in 0..Len(parts)] ==
                       IF n = 0 THEN 0 ELSE sum[n - 1] + stream[parts[n]].len
                 IN  sum[Len(parts)]
Torn == \E i \in discarded : ~stream[i].fin \/ stream[i].op = "CONTINUATION"

(* q is the set S in ascending order. *)
Lists(q, S) ==
    /\ {q[a] : a \in DOMAIN q} = S
    /\ \A a, b \in DOMAIN q : a < b => q[a] < q[b]
EndOf(d) == d.parts[Len(d.parts)]

(* The handler is given every message that has gone through the buffer,     *)
(* once, in order, with all its fragments and their length, whatever comes  *)
(* between the fragments and however often memory ran out before one;       *)
(* unless bytes were lost at the end of a discard, a fragment was too long, *)
(* or memory ran out between fragments.                                     *)
DeliveredExactly ==
    ~(straddled \/ starved \/ Torn) =>
        /\ Lists([m \in DOMAIN delivered |-> EndOf(delivered[m])],
                 {k \in DOMAIN stream : Ends(k) /\ From[k + 1] <= Front /\ k \notin discarded})
        /\ \A m \in DOMAIN delivered :
             LET d == delivered[m] IN /\ d.op = stream[EndOf(d)].op
                                      /\ Lists(d.parts, Parts(EndOf(d)))
                                      /\ d.len = SumLen(d.parts)

(* Only a frame longer than max_rx_len is discarded; and one that is longer *)
(* is delivered only if rxbuf can hold it, header included, with at least a *)
(* byte of the next frame after it.                                         *)
LongAreDiscarded ==
    /\ \A i \in discarded : stream[i].len > MaxRx
    /\ \A m \in DOMAIN delivered : \A k \in DOMAIN delivered[m].parts :
          LET f == stream[delivered[m].parts[k]] IN f.len > MaxRx => Size(f) < Capacity

(* A poll begins with room in rxbuf, so a read of 0 bytes is not for want   *)
(* of it, unless the last dispatch found no memory.                         *)
RoomToRead == pc = "poll" /\ ~short => Room > 0

(* The types of the receive buffer and its counters, and room to read.      *)
ReceiveInv == TypeOK /\ RoomToRead

(* All that the server sends is read, discarded or handled, and no discard  *)
(* outlives its message; unless the session ends, bytes were lost at the    *)
(* end of a discard, memory ran out, or the TLS layer holds the rest and    *)
(* the socket has nothing to wake the poll.                                 *)
Hidden == pc = "poll" /\ rpos < tpos /\ tpos = Total
AllHandled ==
    <>(\/ pc = "poll" /\ rpos = Total /\ rxLen = 0 /\ ~discarding
       \/ readyState # "OPEN" \/ straddled \/ short \/ pc = "fault" \/ Hidden)
=============================================================================
