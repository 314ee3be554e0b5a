------------------------------ MODULE Vb6824Tx ------------------------------
(***************************************************************************)
(* The host's transmit path to the VB6824 voice chip: vb6824_send() and    *)
(* jl_uart_send_packet() (example/qwen/vb6824.c), the UART DMA driver they *)
(* call (serial_api.c, ameba_uart.c), and the completion semaphore         *)
(* vb6824_dma_tx_done_sem.                                                 *)
(*                                                                         *)
(* There is no mutex.  vb6824_send() builds its frame in ONE static buffer *)
(* shared by all callers, sleeps 8 ms, starts the DMA, ignores the status  *)
(* it gets back, and takes ONE binary semaphore that the completion        *)
(* interrupt gives.  The callers are FreeRTOS tasks of equal priority.     *)
(***************************************************************************)
EXTENDS Integers, Sequences, FiniteSets

CONSTANTS
    Tasks,          \* the tasks that call the transmit functions
    OtaTasks,       \* those of them that also send JL OTA packets (jl_ota)
    MaxSends,       \* bound: how many frames a task sends
    GdmaMayRunOut   \* may GDMA_ChnlAlloc find no free channel?

ASSUME TasksAssumption == IsFiniteSet(Tasks) /\ OtaTasks \subseteq Tasks
ASSUME BoundAssumption == MaxSends \in Nat \ {0}
ASSUME GdmaAssumption  == GdmaMayRunOut \in BOOLEAN

VARIABLES
    pc,         \* where each task is inside its send
    kind,       \* "vb": shared static packet; "jl": the caller's own buffer
    sent,       \* number of sends each task has begun
    packet,     \* static uint8_t packet[384], by part
    txFlag,     \* the driver's UART_GetTxFlag
    dma,        \* the transfer in progress
    doneSem,    \* vb6824_dma_tx_done_sem
    wire,       \* what the chip has received, transfer by transfer
    rejected,   \* history: sends the driver refused and nobody will complete
    lostGives,  \* history: completions given to an already full semaphore
    overlapped  \* a second transfer was started over a running one

vars == <<pc, kind, sent, packet, txFlag, dma, doneSem, wire,
          rejected, lostGives, overlapped>>

-----------------------------------------------------------------------------
(* A frame has three parts that are written and read separately: the 6-byte *)
(* header (with the length field), the data, the checksum.                  *)
Parts    == 1..3
Header   == 1
Data     == 2
Checksum == 3

Msg(t)   == <<t, sent[t]>>
Msgs     == Tasks \X (1..MaxSends)
Junk     == <<"junk", 0>>           \* memory no frame was written to
Contents == Msgs \cup {Junk}

Steps    == {"idle", "data", "sum", "send", "start", "wait"}

NoTransfer == [on |-> FALSE, kind |-> "vb", msg |-> Junk,
               memory |-> [p \in Parts |-> Junk], out |-> <<>>]

Init ==
    /\ pc = [t \in Tasks |-> "idle"]
    /\ kind = [t \in Tasks |-> "vb"]
    /\ sent = [t \in Tasks |-> 0]
    /\ packet = [p \in Parts |-> Junk]
    /\ txFlag = FALSE
    /\ dma = NoTransfer
    /\ doneSem = 0
    /\ wire = <<>>
    /\ rejected = 0
    /\ lostGives = 0
    /\ overlapped = FALSE

-----------------------------------------------------------------------------
Goto(t, step) == pc' = [pc EXCEPT ![t] = step]

driverVars  == <<txFlag, dma, doneSem, wire, lostGives, overlapped>>

(* vb6824_send: memcpy of the header into the shared packet. *)
FillHeader(t) ==
    /\ pc[t] = "idle" /\ sent[t] < MaxSends
    /\ sent' = [sent EXCEPT ![t] = @ + 1]
    /\ kind' = [kind EXCEPT ![t] = "vb"]
    /\ packet' = [packet EXCEPT ![Header] = <<t, sent[t] + 1>>]
    /\ Goto(t, "data")
    /\ UNCHANGED <<driverVars, rejected>>

(* vb6824_send: memcpy of the data behind the header. *)
FillData(t) ==
    /\ pc[t] = "data"
    /\ packet' = [packet EXCEPT ![Data] = Msg(t)]
    /\ Goto(t, "sum")
    /\ UNCHANGED <<kind, sent, driverVars, rejected>>

(* vb6824_send: the checksum byte, then vTaskDelay(8 ms). *)
FillChecksum(t) ==
    /\ pc[t] = "sum"
    /\ packet' = [packet EXCEPT ![Checksum] = Msg(t)]
    /\ Goto(t, "send")
    /\ UNCHANGED <<kind, sent, driverVars, rejected>>

(* jl_uart_send_packet, and the READ answer of jl_do_ota_update: the packet *)
(* is built in the caller's own stack or heap buffer, then sent at once.    *)
FillJlPacket(t) ==
    /\ t \in OtaTasks
    /\ pc[t] = "idle" /\ sent[t] < MaxSends
    /\ sent' = [sent EXCEPT ![t] = @ + 1]
    /\ kind' = [kind EXCEPT ![t] = "jl"]
    /\ Goto(t, "send")
    /\ UNCHANGED <<packet, driverVars, rejected>>

(* Mutant: a send that was refused returns at once. *)
SendBusyReturns(t) ==
    /\ pc[t] = "send" /\ txFlag
    /\ rejected' = rejected + 1
    /\ Goto(t, "idle")
    /\ UNCHANGED <<kind, sent, packet, driverVars>>

(* serial_send_stream_dma finds a transfer running and returns HAL_BUSY;    *)
(* the caller ignores it and waits for the semaphore all the same.          *)
SendBusy(t) ==
    /\ pc[t] = "send" /\ txFlag
    /\ rejected' = rejected + 1
    /\ Goto(t, "wait")
    /\ UNCHANGED <<kind, sent, packet, driverVars>>

(* serial_send_stream_dma passes the test of the flag; it is set later. *)
SendIdle(t) ==
    /\ pc[t] = "send" /\ ~txFlag
    /\ Goto(t, "start")
    /\ UNCHANGED <<kind, sent, packet, driverVars, rejected>>

(* What the cache clean of UART_TXGDMA_Init makes visible to the DMA. *)
Source(t) == IF kind[t] = "vb" THEN packet ELSE [p \in Parts |-> Msg(t)]

(* serial_send_stream_dma: flag set, channel allocated, transfer started. *)
StartDma(t) ==
    /\ pc[t] = "start" /\ ~dma.on
    /\ txFlag' = TRUE
    /\ dma' = [on |-> TRUE, kind |-> kind[t], msg |-> Msg(t),
               memory |-> Source(t), out |-> <<>>]
    /\ Goto(t, "wait")
    /\ UNCHANGED <<kind, sent, packet, doneSem, wire, rejected, lostGives,
                   overlapped>>

(* UART_TXGDMA_Init finds no free channel: HAL_BUSY is returned with the    *)
(* flag left set, and the caller waits.                                     *)
StartDmaNoChannel(t) ==
    /\ GdmaMayRunOut
    /\ pc[t] = "start" /\ ~dma.on
    /\ txFlag' = TRUE
    /\ rejected' = rejected + 1
    /\ Goto(t, "wait")
    /\ UNCHANGED <<kind, sent, packet, dma, doneSem, wire, lostGives,
                   overlapped>>

(* Two tasks passed the test before either set the flag: the second start   *)
(* overwrites the driver's one GDMA descriptor.  From here on the interrupt *)
(* of the first channel is acknowledged on the second: the model stops.     *)
StartDmaOverlapping(t) ==
    /\ pc[t] = "start" /\ dma.on
    /\ overlapped' = TRUE
    /\ Goto(t, "wait")
    /\ UNCHANGED <<kind, sent, packet, txFlag, dma, doneSem, wire, rejected,
                   lostGives>>

(* Mutant: the take times out and the send returns without the token.       *)
TakeDoneSemTimeout(t) ==
    /\ pc[t] = "wait"
    /\ Goto(t, "idle")
    /\ UNCHANGED <<kind, sent, packet, driverVars, rejected>>

(* xSemaphoreTake(vb6824_dma_tx_done_sem, portMAX_DELAY), and the return. *)
TakeDoneSem(t) ==
    /\ pc[t] = "wait" /\ doneSem = 1
    /\ doneSem' = 0
    /\ Goto(t, "idle")
    /\ UNCHANGED <<kind, sent, packet, txFlag, dma, wire, rejected, lostGives,
                   overlapped>>

-----------------------------------------------------------------------------
StillWaiting(m) == pc[m[1]] = "wait" /\ sent[m[1]] = m[2]

(* What the DMA may read as part p: the bytes cleaned from the cache at the *)
(* start or, when the CPU has written the buffer since, what it holds now.  *)
(* A private buffer is gone once its owner has returned.                    *)
Readable(p) ==
    {dma.memory[p]} \cup
      (IF dma.kind = "vb" THEN {packet[p]}
       ELSE IF StillWaiting(dma.msg) THEN {} ELSE {Junk})

(* The GDMA controller feeds the next part of the frame to the UART. *)
DmaRead ==
    /\ dma.on /\ Len(dma.out) < 3
    /\ \E v \in Readable(Len(dma.out) + 1) :
         dma' = [dma EXCEPT !.out = Append(@, v)]
    /\ UNCHANGED <<pc, kind, sent, packet, txFlag, doneSem, wire, rejected,
                   lostGives, overlapped>>

(* Mutant: the completion interrupt does not call the user callback. *)
DmaCompleteNoCallback ==
    /\ dma.on /\ Len(dma.out) = 3
    /\ wire' = Append(wire, [len |-> dma.msg, parts |-> dma.out])
    /\ dma' = NoTransfer
    /\ txFlag' = FALSE
    /\ UNCHANGED <<pc, kind, sent, packet, doneSem, rejected, lostGives,
                   overlapped>>

(* uart_dmasend_complete: channel freed, flag cleared, and the callback     *)
(* vb6824_on_send_comp gives the binary semaphore; a give to a full one is  *)
(* lost.                                                                    *)
DmaComplete ==
    /\ dma.on /\ Len(dma.out) = 3
    /\ wire' = Append(wire, [len |-> dma.msg, parts |-> dma.out])
    /\ dma' = NoTransfer
    /\ txFlag' = FALSE
    /\ doneSem' = 1
    /\ lostGives' = lostGives + doneSem
    /\ UNCHANGED <<pc, kind, sent, packet, rejected, overlapped>>

Fill(t) == FillHeader(t) \/ FillData(t) \/ FillChecksum(t) \/ FillJlPacket(t)

Send(t) == \/ SendBusy(t) \/ SendIdle(t)
           \/ StartDma(t) \/ StartDmaNoChannel(t) \/ StartDmaOverlapping(t)

TaskStep(t) == ~overlapped /\ (Fill(t) \/ Send(t) \/ TakeDoneSem(t))

DmaStep == ~overlapped /\ (DmaRead \/ DmaComplete)

Next == (\E t \in Tasks : TaskStep(t)) \/ DmaStep

Spec == Init /\ [][Next]_vars

(* The scheduler time-slices tasks of equal priority, so a task inside a    *)
(* send takes its next step; a started DMA transfer runs to its interrupt.  *)
(* Nothing obliges a task to begin another send.                            *)
Fairness ==
    /\ WF_vars(DmaStep)
    /\ \A t \in Tasks : WF_vars(pc[t] # "idle" /\ TaskStep(t))

FairSpec == Spec /\ Fairness

-----------------------------------------------------------------------------
(* Type correctness; a binary semaphore holds at most one token.           *)
Transfers == [on : BOOLEAN, kind : {"vb", "jl"}, msg : Contents,
              memory : [Parts -> Contents], out : Seq(Contents)]
Frames    == [len : Contents, parts : Seq(Contents)]

TypeOK ==
    /\ pc \in [Tasks -> Steps]
    /\ kind \in [Tasks -> {"vb", "jl"}]
    /\ sent \in [Tasks -> 0..MaxSends]
    /\ packet \in [Parts -> Contents]
    /\ txFlag \in BOOLEAN
    /\ dma \in Transfers
    /\ doneSem \in {0, 1}
    /\ wire \in Seq(Frames)
    /\ rejected \in Nat
    /\ lostGives \in Nat
    /\ overlapped \in BOOLEAN

Waiting == {t \in Tasks : pc[t] = "wait"}

Running == IF dma.on THEN 1 ELSE 0

(* Every task blocked in xSemaphoreTake is paid for by the running          *)
(* transfer, by the token in the semaphore, by a refused send or by a lost  *)
(* give.  So once a send was refused or a give lost, that many tasks are    *)
(* stranded for good: only the first two terms can still release anyone.    *)
TokenAccounting ==
    ~overlapped =>
      Cardinality(Waiting) = Running + doneSem + rejected + lostGives

(* The completion semaphore never holds a token left over from an earlier   *)
(* send: a full semaphore has a task waiting for it, so a later send cannot *)
(* return at once on a stale completion when the line was idle before it.   *)
NoStaleToken == doneSem = 1 => Waiting # {}

Intact(f) == f.parts = <<f.len, f.len, f.len>>

(* When vb6824_send or jl_uart_send_packet returns, its own frame has gone  *)
(* out, complete and unmixed.                                               *)
ReturnMeansSent ==
    [][\A t \in Tasks : pc[t] = "wait" /\ pc'[t] = "idle" =>
         \E i \in 1..Len(wire) : wire[i].len = Msg(t) /\ Intact(wire[i])]_vars

(* Every call of a transmit function returns (behaviours are followed up to *)
(* the first pair of overlapping transfers).                                *)
EverySendReturns ==
    \A t \in Tasks : pc[t] # "idle" ~> (pc[t] = "idle" \/ overlapped)
=============================================================================
