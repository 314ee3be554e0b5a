--------------------------- MODULE Vb6824TxProofs ---------------------------
(***************************************************************************)
(* Proofs about the transmit path: type correctness, the accounting of the *)
(* completion semaphore and the refinement of SharedLink, for any finite   *)
(* set of sending tasks; what a send promises, and the refinement of       *)
(* FrameLink, for a task that has the line to itself.                      *)
(***************************************************************************)
EXTENDS Vb6824TxShared, Vb6824TxLink, FiniteSetTheorems, TLAPS

(* A task inside a send has been counted: its message has a number.        *)
Numbered == \A t \in Tasks : pc[t] # "idle" => sent[t] >= 1

TypeInv == TypeOK /\ Numbered

USE TasksAssumption, BoundAssumption, GdmaAssumption

(* The message a task is sending is a member of Msgs.                      *)
LEMMA MsgType ==
  ASSUME TypeInv, NEW t \in Tasks, pc[t] # "idle"
  PROVE  Msg(t) \in Msgs /\ Msg(t) \in Contents
  BY DEF TypeInv, TypeOK, Numbered, Msg, Msgs, Contents

(* The idle DMA channel is well typed.                                     *)
LEMMA IdleType == NoTransfer \in Transfers
  <1>1. <<>> \in Seq(Contents)
    OBVIOUS
  <1>2. Junk \in Contents
    BY DEF Contents
  <1> QED
    BY <1>1, <1>2 DEF NoTransfer, Transfers

(* Nothing the DMA can read is outside Contents.                           *)
LEMMA ReadableType ==
  ASSUME TypeOK, NEW p \in Parts
  PROVE  Readable(p) \subseteq Contents
  BY DEF TypeOK, Readable, Contents, Transfers

(* Type correctness of the transmit path (vb6824_send, the UART DMA driver  *)
(* and the semaphore), for every set of tasks and every number of sends.    *)
LEMMA TypeInductive == Spec => []TypeInv
<1>1. Init => TypeInv
  <2> SUFFICES ASSUME Init PROVE TypeInv
    OBVIOUS
  <2>1. dma \in Transfers
    BY IdleType DEF Init
  <2>2. wire \in Seq(Frames)
    BY DEF Init
  <2>3. packet \in [Parts -> Contents]
    BY DEF Init, Contents
  <2>4. Numbered
    BY DEF Init, Numbered
  <2>5. pc \in [Tasks -> Steps]
    BY DEF Init, Steps
  <2>6. kind \in [Tasks -> {"vb", "jl"}] /\ sent \in [Tasks -> 0..MaxSends]
    BY DEF Init
  <2>7. txFlag \in BOOLEAN /\ overlapped \in BOOLEAN
    BY Zenon DEF Init
  <2>8. doneSem \in {0, 1} /\ rejected \in Nat /\ lostGives \in Nat
    BY DEF Init
  <2> QED
    BY <2>1, <2>2, <2>3, <2>4, <2>5, <2>6, <2>7, <2>8 DEF TypeInv, TypeOK
<1>2. TypeInv /\ [Next]_vars => TypeInv'
  <2> SUFFICES ASSUME TypeInv, [Next]_vars PROVE TypeInv'
    OBVIOUS
  <2> USE DEF TypeInv, TypeOK, Numbered, Steps, Goto, driverVars
  <2>1. ASSUME NEW t \in Tasks, FillHeader(t) PROVE TypeInv'
    <3>1. <<t, sent[t] + 1>> \in Contents
      BY <2>1 DEF FillHeader, Contents, Msgs
    <3> QED
      BY <2>1, <3>1 DEF FillHeader, Parts, Header
  <2>2. ASSUME NEW t \in Tasks, FillData(t) PROVE TypeInv'
    BY <2>2, MsgType DEF FillData, Parts, Data
  <2>3. ASSUME NEW t \in Tasks, FillChecksum(t) PROVE TypeInv'
    BY <2>3, MsgType DEF FillChecksum, Parts, Checksum
  <2>4. ASSUME NEW t \in Tasks, FillJlPacket(t) PROVE TypeInv'
    BY <2>4 DEF FillJlPacket
  <2>5. ASSUME NEW t \in Tasks, SendBusy(t) PROVE TypeInv'
    BY <2>5 DEF SendBusy
  <2>6. ASSUME NEW t \in Tasks, SendIdle(t) PROVE TypeInv'
    BY <2>6 DEF SendIdle
  <2>7. ASSUME NEW t \in Tasks, StartDma(t) PROVE TypeInv'
    <3>1. Source(t) \in [Parts -> Contents]
      BY <2>7, MsgType DEF StartDma, Source
    <3>2. dma' \in Transfers
      BY <2>7, <3>1, MsgType DEF StartDma, Transfers
    <3> QED
      BY <2>7, <3>2 DEF StartDma
  <2>8. ASSUME NEW t \in Tasks, StartDmaNoChannel(t) PROVE TypeInv'
    BY <2>8 DEF StartDmaNoChannel
  <2>9. ASSUME NEW t \in Tasks, StartDmaOverlapping(t) PROVE TypeInv'
    BY <2>9 DEF StartDmaOverlapping
  <2>10. ASSUME NEW t \in Tasks, TakeDoneSem(t) PROVE TypeInv'
    BY <2>10 DEF TakeDoneSem
  <2>11. CASE DmaRead
    <3>1. PICK v \in Readable(Len(dma.out) + 1) :
            dma' = [dma EXCEPT !.out = Append(@, v)]
      BY <2>11 DEF DmaRead
    <3>2. Len(dma.out) + 1 \in Parts
      BY <2>11 DEF DmaRead, Parts, Transfers
    <3>3. v \in Contents
      BY <3>1, <3>2, ReadableType
    <3>4. Append(dma.out, v) \in Seq(Contents)
      BY <3>3 DEF Transfers
    <3>5. dma' \in Transfers
      BY <3>1, <3>4 DEF Transfers
    <3> QED
      BY <2>11, <3>5 DEF DmaRead
  <2>12. CASE DmaComplete
    <3>1. [len |-> dma.msg, parts |-> dma.out] \in Frames
      BY DEF Frames, Transfers
    <3>2. wire' \in Seq(Frames)
      BY <2>12, <3>1 DEF DmaComplete
    <3>3. lostGives' \in Nat
      BY <2>12 DEF DmaComplete
    <3> QED
      BY <2>12, <3>2, <3>3, IdleType DEF DmaComplete
  <2>13. CASE UNCHANGED vars
    BY <2>13 DEF vars
  <2> QED
    BY <2>1, <2>2, <2>3, <2>4, <2>5, <2>6, <2>7, <2>8, <2>9, <2>10, <2>11,
       <2>12, <2>13 DEF Next, TaskStep, DmaStep, Fill, Send
<1> QED
  BY <1>1, <1>2, PTL DEF Spec

-----------------------------------------------------------------------------
(* The set of waiting tasks is finite, and its size a number.              *)
LEMMA WaitingFinite == IsFiniteSet(Waiting) /\ Cardinality(Waiting) \in Nat
  <1>1. Waiting \in SUBSET Tasks
    BY DEF Waiting
  <1> QED
    BY <1>1, FS_Subset, FS_CardinalityType

(* A task that blocks in xSemaphoreTake adds one to the waiting tasks.     *)
LEMMA OneMoreWaiting ==
  ASSUME TypeOK, NEW t \in Tasks, pc[t] # "wait", Goto(t, "wait")
  PROVE  Cardinality(Waiting') = Cardinality(Waiting) + 1
  <1>1. Waiting' = Waiting \cup {t}
    BY DEF Waiting, Goto, TypeOK
  <1>2. t \notin Waiting
    BY DEF Waiting
  <1> QED
    BY <1>1, <1>2, WaitingFinite, FS_AddElement

(* A task that returns from xSemaphoreTake takes one away.                 *)
LEMMA OneLessWaiting ==
  ASSUME TypeOK, NEW t \in Tasks, pc[t] = "wait", Goto(t, "idle")
  PROVE  Cardinality(Waiting') = Cardinality(Waiting) - 1
  <1>1. Waiting' = Waiting \ {t}
    BY DEF Waiting, Goto, TypeOK
  <1>2. t \in Waiting
    BY DEF Waiting
  <1> QED
    BY <1>1, <1>2, WaitingFinite, FS_RemoveElement

(* Any other step of a task leaves the set alone.                          *)
LEMMA SameWaiting ==
  ASSUME TypeOK, NEW t \in Tasks, pc[t] # "wait", NEW s \in Steps,
         s # "wait", Goto(t, s)
  PROVE  Waiting' = Waiting
  BY DEF Waiting, Goto, TypeOK

(* Every task blocked on vb6824_dma_tx_done_sem is accounted for by the     *)
(* running transfer, the token in the semaphore, a send the driver refused  *)
(* or a give that was lost: for any number of tasks and of sends.           *)
THEOREM Accounting == Spec => []TokenAccounting
<1>1. Init => TokenAccounting
  <2> SUFFICES ASSUME Init PROVE TokenAccounting
    OBVIOUS
  <2>1. Waiting = {}
    BY DEF Init, Waiting
  <2> QED
    BY <2>1, FS_EmptySet DEF Init, TokenAccounting, Running, NoTransfer
<1>2. TypeInv /\ TokenAccounting /\ [Next]_vars => TokenAccounting'
  <2> SUFFICES ASSUME TypeInv, TokenAccounting, [Next]_vars, ~overlapped,
                      ~overlapped'
               PROVE  TokenAccounting'
    <3>1. CASE overlapped
      BY <3>1 DEF Next, TaskStep, DmaStep, vars, TokenAccounting, Waiting,
                  Running
    <3>2. CASE overlapped'
      BY <3>2 DEF TokenAccounting
    <3> QED
      BY <3>1, <3>2
  <2>a. TypeOK /\ Cardinality(Waiting) \in Nat /\ doneSem \in {0, 1}
        /\ rejected \in Nat /\ lostGives \in Nat
    BY WaitingFinite DEF TypeInv, TypeOK
  <2>b. Cardinality(Waiting) = Running + doneSem + rejected + lostGives
    BY DEF TokenAccounting
  <2>1. ASSUME NEW t \in Tasks, FillHeader(t) \/ FillData(t)
               \/ FillChecksum(t) \/ FillJlPacket(t) \/ SendIdle(t)
        PROVE  TokenAccounting'
    <3>1. Waiting' = Waiting
      BY <2>1, <2>a, SameWaiting
         DEF FillHeader, FillData, FillChecksum, FillJlPacket, SendIdle, Steps
    <3>2. UNCHANGED <<dma, doneSem, rejected, lostGives>>
      BY <2>1 DEF FillHeader, FillData, FillChecksum, FillJlPacket, SendIdle,
                  driverVars
    <3> QED
      BY <2>b, <3>1, <3>2 DEF TokenAccounting, Running
  <2>2. ASSUME NEW t \in Tasks, SendBusy(t) PROVE TokenAccounting'
    <3>1. Cardinality(Waiting') = Cardinality(Waiting) + 1
      BY <2>2, <2>a, OneMoreWaiting DEF SendBusy
    <3> QED
      BY <2>2, <2>a, <2>b, <3>1 DEF SendBusy, driverVars, TokenAccounting,
                                    Running
  <2>3. ASSUME NEW t \in Tasks, StartDma(t) PROVE TokenAccounting'
    <3>1. Cardinality(Waiting') = Cardinality(Waiting) + 1
      BY <2>3, <2>a, OneMoreWaiting DEF StartDma
    <3>2. Running = 0 /\ Running' = 1
      BY <2>3 DEF StartDma, Running
    <3> QED
      BY <2>3, <2>a, <2>b, <3>1, <3>2 DEF StartDma, TokenAccounting
  <2>4. ASSUME NEW t \in Tasks, StartDmaNoChannel(t) PROVE TokenAccounting'
    <3>1. Cardinality(Waiting') = Cardinality(Waiting) + 1
      BY <2>4, <2>a, OneMoreWaiting DEF StartDmaNoChannel
    <3> QED
      BY <2>4, <2>a, <2>b, <3>1 DEF StartDmaNoChannel, TokenAccounting,
                                    Running
  <2>5. ASSUME NEW t \in Tasks, StartDmaOverlapping(t) PROVE TokenAccounting'
    BY <2>5 DEF StartDmaOverlapping
  <2>6. ASSUME NEW t \in Tasks, TakeDoneSem(t) PROVE TokenAccounting'
    <3>1. Cardinality(Waiting') = Cardinality(Waiting) - 1
      BY <2>6, <2>a, OneLessWaiting DEF TakeDoneSem
    <3> QED
      BY <2>6, <2>a, <2>b, <3>1 DEF TakeDoneSem, TokenAccounting, Running
  <2>7. CASE DmaRead
    <3>1. dma'.on = dma.on
      BY <2>7, <2>a DEF DmaRead, TypeOK, Transfers
    <3> QED
      BY <2>7, <2>b, <3>1 DEF DmaRead, TokenAccounting, Running, Waiting
  <2>8. CASE DmaComplete
    <3>1. Running = 1 /\ Running' = 0
      BY <2>8 DEF DmaComplete, NoTransfer, Running
    <3>2. Waiting' = Waiting
      BY <2>8 DEF DmaComplete, Waiting
    <3> QED
      BY <2>8, <2>a, <2>b, <3>1, <3>2 DEF DmaComplete, TokenAccounting
  <2>9. CASE UNCHANGED vars
    BY <2>9, <2>b DEF vars, TokenAccounting, Running, Waiting
  <2> QED
    BY <2>1, <2>2, <2>3, <2>4, <2>5, <2>6, <2>7, <2>8, <2>9
       DEF Next, TaskStep, DmaStep, Fill, Send
<1> QED
  BY <1>1, <1>2, TypeInductive, PTL DEF Spec

(* No completion token outlives the sends it belongs to: whenever the       *)
(* semaphore is full some task is waiting for it.                           *)
THEOREM StaleTokenFree == Spec => []NoStaleToken
<1>1. Init => NoStaleToken
  BY DEF Init, NoStaleToken
<1>2. TypeInv /\ NoStaleToken /\ TokenAccounting' /\ TypeInv' /\ [Next]_vars
      => NoStaleToken'
  <2> SUFFICES ASSUME TypeInv, NoStaleToken, TokenAccounting', TypeInv',
                      [Next]_vars, doneSem' = 1
               PROVE  Waiting' # {}
    BY DEF NoStaleToken
  <2>1. CASE ~overlapped'
    <3>1. Cardinality(Waiting') >= 1
      BY <2>1 DEF TokenAccounting, TypeInv, TypeOK, Running
    <3> QED
      BY <3>1, FS_EmptySet
  <2>2. CASE overlapped' /\ ~overlapped
    <3>1. PICK t \in Tasks : StartDmaOverlapping(t)
      BY <2>2 DEF Next, TaskStep, DmaStep, Fill, Send, FillHeader, FillData,
              FillChecksum, FillJlPacket, SendBusy, SendIdle, StartDma,
              StartDmaNoChannel, TakeDoneSem, DmaRead, DmaComplete,
              driverVars, vars
    <3>2. t \in Waiting'
      BY <3>1 DEF StartDmaOverlapping, Goto, Waiting, TypeInv, TypeOK
    <3> QED
      BY <3>2
  <2>3. CASE overlapped
    <3>1. UNCHANGED vars
      BY <2>3 DEF Next, TaskStep, DmaStep
    <3> QED
      BY <3>1 DEF vars, NoStaleToken, Waiting
  <2> QED
    BY <2>1, <2>2, <2>3
<1> QED
  BY <1>1, <1>2, TypeInductive, Accounting, PTL DEF Spec

(* Type correctness of the transmit path: the binary semaphore never holds *)
(* more than one token.                                                    *)
THEOREM TypeCorrect == Spec => []TypeOK
<1>1. TypeInv => TypeOK
  BY DEF TypeInv
<1> QED
  BY <1>1, TypeInductive, PTL

-----------------------------------------------------------------------------
(* The driver's flag is set while a transfer runs, and otherwise only after *)
(* UART_TXGDMA_Init found no channel: so a send is refused only when        *)
(* SharedLink refuses it.                                                   *)
FlagInv == txFlag => dma.on \/ GdmaMayRunOut

LEMMA FlagInductive == Spec => []FlagInv
<1>1. Init => FlagInv
  BY Zenon DEF Init, FlagInv
<1>2. TypeInv /\ FlagInv /\ [Next]_vars => FlagInv'
  <2> SUFFICES ASSUME TypeInv, FlagInv, [Next]_vars PROVE FlagInv'
    OBVIOUS
  <2> USE DEF FlagInv
  <2>1. ASSUME NEW t \in Tasks, TaskStep(t) PROVE FlagInv'
    <3>1. CASE StartDma(t)
      BY <3>1 DEF StartDma
    <3>2. CASE StartDmaNoChannel(t)
      BY <3>2 DEF StartDmaNoChannel
    <3>3. CASE UNCHANGED <<txFlag, dma>>
      BY <3>3
    <3>4. StartDma(t) \/ StartDmaNoChannel(t) \/ UNCHANGED <<txFlag, dma>>
      BY <2>1 DEF TaskStep, Fill, Send, FillHeader, FillData, FillChecksum, FillJlPacket,
         SendBusy, SendIdle, StartDmaOverlapping, TakeDoneSem, driverVars
    <3> QED
      BY <3>1, <3>2, <3>3, <3>4
  <2>2. ASSUME DmaRead PROVE FlagInv'
    BY <2>2 DEF DmaRead, TypeInv, TypeOK, Transfers
  <2>3. ASSUME DmaComplete PROVE FlagInv'
    BY <2>3 DEF DmaComplete
  <2>4. CASE UNCHANGED vars
    BY <2>4 DEF vars
  <2> QED
    BY <2>1, <2>2, <2>3, <2>4 DEF Next, DmaStep
<1> QED
  BY <1>1, <1>2, TypeInductive, PTL DEF Spec

-----------------------------------------------------------------------------
(* A task that goes from one place of its send to another changes its own   *)
(* phase and no other.                                                      *)
LEMMA PhaseMoves ==
  ASSUME TypeInv, NEW t \in Tasks, NEW step \in Steps, Goto(t, step)
  PROVE  /\ [u \in Tasks |-> Phase(u)'] =
              [[u \in Tasks |-> Phase(u)] EXCEPT
                 ![t] = IF step = "idle" THEN "idle" ELSE IF step = "wait" THEN "waiting" ELSE "sending"]
  BY DEF TypeInv, TypeOK, Goto, Phase, Steps

(* No task moves: no phase changes. *)
LEMMA PhaseStays ==
  ASSUME UNCHANGED pc
  PROVE  [u \in Tasks |-> Phase(u)'] = [u \in Tasks |-> Phase(u)]
  BY DEF Phase

(* The transmit path used by any number of tasks (vb6824_send,              *)
(* jl_uart_send_packet, the UART DMA driver) shows its callers SharedLink:  *)
(* every step of the frames, the flag and the DMA is a step of it or none.  *)
THEOREM SharedRefinement == Spec => ImplementsShared
<1>1. Init => Shared!Init
  BY DEF Init, Shared!Init, Phase, NoTransfer
<1>2. TypeInv /\ FlagInv /\ [Next]_vars => [Shared!Next]_Shared!vars
  <2> SUFFICES ASSUME TypeInv, FlagInv, [Next]_vars PROVE [Shared!Next]_Shared!vars
    OBVIOUS
  <2>0. /\ pc \in [Tasks -> Steps] /\ dma \in Transfers /\ doneSem \in {0, 1}
        /\ rejected \in Nat /\ lostGives \in Nat
    BY DEF TypeInv, TypeOK
  <2>1. ASSUME NEW t \in Tasks, ~overlapped, Fill(t) PROVE [Shared!Next]_Shared!vars
    <3>1. CASE FillHeader(t) \/ FillJlPacket(t)
      <4>1. Goto(t, "data") \/ Goto(t, "send")
        BY <3>1 DEF FillHeader, FillJlPacket
      <4>2. Shared!Goto(t, "sending")
        BY <4>1, PhaseMoves DEF Shared!Goto, Steps
      <4>3. Shared!Begin(t)
        BY <3>1, <4>2 DEF FillHeader, FillJlPacket, Shared!Begin, Phase, driverVars
      <4> QED
        BY <2>1, <4>3 DEF Shared!Next
    <3>2. CASE FillData(t) \/ FillChecksum(t)
      <4>1. (Goto(t, "sum") \/ Goto(t, "send")) /\ pc[t] \in {"data", "sum"}
        BY <3>2 DEF FillData, FillChecksum
      <4>2. [u \in Tasks |-> Phase(u)'] = [u \in Tasks |-> Phase(u)]
        BY <4>1, <2>0 DEF Goto, Phase, Steps
      <4> QED
        BY <3>2, <4>2 DEF FillData, FillChecksum, driverVars, Shared!vars
    <3> QED
      BY <2>1, <3>1, <3>2 DEF Fill
  <2>2. ASSUME NEW t \in Tasks, ~overlapped, SendBusy(t) PROVE [Shared!Next]_Shared!vars
    <3>1. Shared!Goto(t, "waiting")
      BY <2>2, PhaseMoves DEF SendBusy, Shared!Goto, Steps
    <3>2. Shared!Refuse(t)
      BY <2>0, <2>2, <3>1 DEF SendBusy, Shared!Refuse, FlagInv, Phase, driverVars
    <3> QED
      BY <2>2, <3>2 DEF Shared!Next, Shared!Progress
  <2>3. ASSUME NEW t \in Tasks, SendIdle(t) PROVE [Shared!Next]_Shared!vars
    <3>1. [u \in Tasks |-> Phase(u)'] = [u \in Tasks |-> Phase(u)]
      BY <2>3, <2>0 DEF SendIdle, Goto, Phase, Steps
    <3> QED
      BY <2>3, <3>1 DEF SendIdle, driverVars, Shared!vars
  <2>4. ASSUME NEW t \in Tasks, ~overlapped, StartDma(t) PROVE [Shared!Next]_Shared!vars
    <3>1. Shared!Goto(t, "waiting")
      BY <2>4, PhaseMoves DEF StartDma, Shared!Goto, Steps
    <3>2. Shared!Start(t)
      BY <2>4, <3>1 DEF StartDma, Shared!Start, Phase
    <3> QED
      BY <2>4, <3>2 DEF Shared!Next, Shared!Progress
  <2>5. ASSUME NEW t \in Tasks, ~overlapped, StartDmaNoChannel(t) PROVE [Shared!Next]_Shared!vars
    <3>1. Shared!Goto(t, "waiting")
      BY <2>5, PhaseMoves DEF StartDmaNoChannel, Shared!Goto, Steps
    <3>2. Shared!Refuse(t)
      BY <2>0, <2>5, <3>1 DEF StartDmaNoChannel, Shared!Refuse, Phase
    <3> QED
      BY <2>5, <3>2 DEF Shared!Next, Shared!Progress
  <2>6. ASSUME NEW t \in Tasks, ~overlapped, StartDmaOverlapping(t) PROVE [Shared!Next]_Shared!vars
    <3>1. Shared!Goto(t, "waiting")
      BY <2>6, PhaseMoves DEF StartDmaOverlapping, Shared!Goto, Steps
    <3>2. Shared!Overlap(t)
      BY <2>6, <3>1 DEF StartDmaOverlapping, Shared!Overlap, Phase
    <3> QED
      BY <2>6, <3>2 DEF Shared!Next, Shared!Progress
  <2>7. ASSUME NEW t \in Tasks, ~overlapped, TakeDoneSem(t) PROVE [Shared!Next]_Shared!vars
    <3>1. Shared!Goto(t, "idle")
      BY <2>7, PhaseMoves DEF TakeDoneSem, Shared!Goto, Steps
    <3>2. Shared!Return(t)
      BY <2>7, <3>1 DEF TakeDoneSem, Shared!Return, Phase
    <3> QED
      BY <2>7, <3>2 DEF Shared!Next
  <2>8. ASSUME DmaRead PROVE [Shared!Next]_Shared!vars
    <3>1. dma'.on = dma.on
      BY <2>0, <2>8 DEF DmaRead, Transfers
    <3> QED
      BY <2>8, <3>1, PhaseStays DEF DmaRead, Shared!vars
  <2>9. ASSUME ~overlapped, DmaComplete PROVE [Shared!Next]_Shared!vars
    <3>1. Shared!Complete
      BY <2>0, <2>9, PhaseStays DEF DmaComplete, NoTransfer, Shared!Complete
    <3> QED
      BY <2>9, <3>1 DEF Shared!Next
  <2>10. CASE UNCHANGED vars
    BY <2>10, PhaseStays DEF vars, Shared!vars
  <2> QED
    BY <2>1, <2>2, <2>3, <2>4, <2>5, <2>6, <2>7, <2>8, <2>9, <2>10
       DEF Next, TaskStep, DmaStep, Send
<1> QED
  BY <1>1, <1>2, TypeInductive, FlagInductive, PTL DEF Spec, ImplementsShared, Shared!Spec
-----------------------------------------------------------------------------
(* What follows is about a task that is alone on the line.                 *)
SendersFrame(i) == <<Sender, i>>

Whole(m) == [len |-> m, parts |-> <<m, m, m>>]

(* The frames on the wire are the sender's, whole and in the order of its  *)
(* sends.                                                                  *)
InOrder == \A i \in 1..Len(wire) : wire[i] = Whole(SendersFrame(i))

(* While the sender has a frame under way it is the next one on the wire;  *)
(* otherwise all its frames have arrived.  The token is in the semaphore   *)
(* exactly between the completion and the return.                          *)
Progress ==
    /\ Len(wire) = IF pc[Sender] = "idle" \/ doneSem = 1
                     THEN sent[Sender] ELSE sent[Sender] - 1
    /\ dma.on \/ doneSem = 1 => pc[Sender] = "wait"
    /\ ~(dma.on /\ doneSem = 1)
    /\ txFlag => pc[Sender] = "wait" /\ doneSem = 0
    /\ ~overlapped

(* The parts of the shared packet that the sender has written hold its     *)
(* current frame, until it has returned.                                   *)
Written ==
    kind[Sender] = "vb" =>
      \A p \in Parts :
        \/ pc[Sender] = "idle"
        \/ pc[Sender] = "data" /\ p # Header
        \/ pc[Sender] = "sum" /\ p = Checksum
        \/ packet[p] = Msg(Sender)

(* The running transfer reads the sender's frame and nothing else.         *)
Transfer ==
    dma.on =>
      /\ dma.msg = Msg(Sender) /\ dma.kind = kind[Sender]
      /\ \A p \in Parts : dma.memory[p] = Msg(Sender)
      /\ Len(dma.out) <= 3
      /\ \A p \in 1..Len(dma.out) : dma.out[p] = Msg(Sender)

LinkInv == SingleSender => InOrder /\ Progress /\ Written /\ Transfer
(* The invariant is kept by every step of the sender and of its transfers. *)
LEMMA LinkStep ==
  ASSUME SingleSender, TypeInv, InOrder, Progress, Written, Transfer, [Next]_vars
  PROVE  (InOrder /\ Progress /\ Written /\ Transfer)'
<1>0. /\ Sender \in Tasks /\ \A t \in Tasks : t = Sender
      /\ pc \in [Tasks -> Steps] /\ kind \in [Tasks -> {"vb", "jl"}]
      /\ sent \in [Tasks -> 0..MaxSends] /\ packet \in [Parts -> Contents]
      /\ dma \in Transfers /\ doneSem \in {0, 1} /\ wire \in Seq(Frames)
  BY DEF SingleSender, TypeInv, TypeOK
<1>1. ASSUME FillHeader(Sender) \/ FillJlPacket(Sender)
      PROVE  (InOrder /\ Progress /\ Written /\ Transfer)'
  <2>1. /\ pc[Sender] = "idle" /\ pc'[Sender] \in {"data", "send"}
        /\ sent'[Sender] = sent[Sender] + 1
        /\ UNCHANGED driverVars
    BY <1>0, <1>1 DEF FillHeader, FillJlPacket, Goto
  <2>2. /\ UNCHANGED <<txFlag, dma, doneSem, wire, overlapped>>
        /\ ~dma.on /\ doneSem = 0 /\ Len(wire) = sent[Sender]
    BY <1>0, <2>1 DEF driverVars, Progress
  <2>3. InOrder' /\ Transfer'
    BY <2>2 DEF InOrder, Transfer
  <2>4. Progress'
    BY <1>0, <2>1, <2>2 DEF Progress
  <2>5. Written'
    BY <1>0, <1>1 DEF FillHeader, FillJlPacket, Goto, Written, Msg, Parts, Header
  <2> QED
    BY <2>3, <2>4, <2>5
<1>2. ASSUME FillData(Sender) \/ FillChecksum(Sender)
      PROVE  (InOrder /\ Progress /\ Written /\ Transfer)'
  <2>1. /\ pc[Sender] \in {"data", "sum"} /\ pc'[Sender] \in {"sum", "send"}
        /\ UNCHANGED <<sent, kind, txFlag, dma, doneSem, wire, overlapped>>
    BY <1>0, <1>2 DEF FillData, FillChecksum, Goto, driverVars
  <2>2. InOrder'
    BY <2>1 DEF InOrder
  <2>3. Progress' /\ Transfer'
    BY <2>1 DEF Progress, Transfer
  <2>4. Written'
    BY <1>0, <1>2 DEF FillData, FillChecksum, Goto, Written, Msg, Parts, Header, Data, Checksum
  <2> QED
    BY <2>2, <2>3, <2>4
<1>3. ASSUME SendIdle(Sender) PROVE (InOrder /\ Progress /\ Written /\ Transfer)'
  <2>1. /\ pc[Sender] = "send" /\ pc'[Sender] = "start"
        /\ UNCHANGED <<sent, kind, packet, txFlag, dma, doneSem, wire, overlapped>>
    BY <1>0, <1>3 DEF SendIdle, Goto, driverVars
  <2>2. InOrder'
    BY <2>1 DEF InOrder
  <2>3. Progress' /\ Transfer'
    BY <2>1 DEF Progress, Transfer
  <2>4. Written'
    BY <2>1 DEF Written, Msg
  <2> QED
    BY <2>2, <2>3, <2>4
<1>4. ASSUME SendBusy(Sender) \/ StartDmaOverlapping(Sender) PROVE FALSE
  BY <1>0, <1>4 DEF SendBusy, StartDmaOverlapping, Progress
<1>5. ASSUME StartDma(Sender) PROVE (InOrder /\ Progress /\ Written /\ Transfer)'
  <2>1. /\ pc[Sender] = "start" /\ pc'[Sender] = "wait" /\ txFlag'
        /\ UNCHANGED <<sent, kind, packet, doneSem, wire, overlapped>>
    BY <1>0, <1>5 DEF StartDma, Goto
  <2>2. Source(Sender) = [p \in Parts |-> Msg(Sender)]
    BY <1>0, <2>1 DEF Source, Written
  <2>3. dma' = [on |-> TRUE, kind |-> kind[Sender], msg |-> Msg(Sender),
                memory |-> Source(Sender), out |-> <<>>]
    BY <1>5 DEF StartDma
  <2>4. InOrder'
    BY <2>1 DEF InOrder
  <2>5. Progress'
    BY <1>0, <2>1, <2>3 DEF Progress
  <2>6. Written'
    BY <2>1 DEF Written, Msg
  <2>7. Transfer'
    BY <2>1, <2>2, <2>3 DEF Transfer, Msg
  <2> QED
    BY <2>4, <2>5, <2>6, <2>7
<1>6. ASSUME StartDmaNoChannel(Sender)
      PROVE  (InOrder /\ Progress /\ Written /\ Transfer)'
  <2>1. /\ pc[Sender] = "start" /\ pc'[Sender] = "wait" /\ txFlag' /\ ~dma.on
        /\ UNCHANGED <<sent, kind, packet, dma, doneSem, wire, overlapped>>
    BY <1>0, <1>6 DEF StartDmaNoChannel, Goto
  <2>2. InOrder'
    BY <2>1 DEF InOrder
  <2>3. Progress' /\ Transfer'
    BY <1>0, <2>1 DEF Progress, Transfer
  <2>4. Written'
    BY <2>1 DEF Written, Msg
  <2> QED
    BY <2>2, <2>3, <2>4
<1>7. ASSUME TakeDoneSem(Sender) PROVE (InOrder /\ Progress /\ Written /\ Transfer)'
  <2>1. /\ pc'[Sender] = "idle" /\ doneSem = 1 /\ doneSem' = 0
        /\ UNCHANGED <<sent, kind, packet, txFlag, dma, wire, overlapped>>
    BY <1>0, <1>7 DEF TakeDoneSem, Goto
  <2>2. InOrder'
    BY <2>1 DEF InOrder
  <2>3. Progress' /\ Transfer'
    BY <1>0, <2>1 DEF Progress, Transfer
  <2>4. Written'
    BY <2>1 DEF Written
  <2> QED
    BY <2>2, <2>3, <2>4
<1>8. ASSUME DmaRead PROVE (InOrder /\ Progress /\ Written /\ Transfer)'
  <2>1. PICK v \in Readable(Len(dma.out) + 1) :
          dma' = [dma EXCEPT !.out = Append(@, v)]
    BY <1>8 DEF DmaRead
  <2>2. /\ dma.on /\ Len(dma.out) + 1 \in Parts /\ Len(dma.out) \in 0..2
        /\ UNCHANGED <<pc, sent, kind, packet, txFlag, doneSem, wire, overlapped>>
    <3>1. Len(dma.out) \in Nat
      BY <1>0 DEF Transfers
    <3>2. Len(dma.out) < 3
      BY <1>8 DEF DmaRead
    <3>3. Len(dma.out) + 1 \in Parts /\ Len(dma.out) \in 0..2
      <4>1. \A n \in Nat : n < 3 => n + 1 \in 1..3 /\ n \in 0..2
        OBVIOUS
      <4> QED
        BY <3>1, <3>2, <4>1 DEF Parts
    <3> QED
      BY <1>8, <3>3 DEF DmaRead
  <2>3. pc[Sender] = "wait"
    BY <2>2 DEF Progress
  <2>4. v = Msg(Sender)
    <3>1. dma.memory[Len(dma.out) + 1] = Msg(Sender)
      BY <2>2 DEF Transfer
    <3>2. CASE kind[Sender] = "vb"
      <4>1. packet[Len(dma.out) + 1] = Msg(Sender)
        BY <2>2, <2>3, <3>2 DEF Written
      <4> QED
        BY <2>1, <2>2, <3>1, <3>2, <4>1 DEF Readable, Transfer
    <3>3. CASE kind[Sender] = "jl"
      <4>1. StillWaiting(dma.msg)
        BY <2>2, <2>3 DEF StillWaiting, Transfer, Msg
      <4> QED
        BY <2>1, <2>2, <3>1, <3>3, <4>1 DEF Readable, Transfer
    <3> QED
      BY <1>0, <3>2, <3>3
  <2>5. /\ dma'.on = dma.on /\ dma'.msg = dma.msg /\ dma'.kind = dma.kind
        /\ dma'.memory = dma.memory /\ dma'.out = Append(dma.out, v)
    BY <1>0, <2>1 DEF Transfers
  <2>6. InOrder' /\ Written'
    BY <2>2 DEF InOrder, Written, Msg
  <2>7. Progress'
    BY <2>2, <2>5 DEF Progress
  <2>8. /\ Len(dma'.out) = Len(dma.out) + 1
        /\ \A p \in 1..Len(dma'.out) : dma'.out[p] = Msg(Sender)
    <3>1. dma.out \in Seq(Contents)
      BY <1>0 DEF Transfers
    <3>2. \A p \in 1..Len(dma.out) : dma.out[p] = Msg(Sender)
      BY <2>2 DEF Transfer
    <3> QED
      BY <2>4, <2>5, <3>1, <3>2
  <2>9. Transfer'
    BY <2>2, <2>5, <2>8 DEF Transfer, Msg
  <2> QED
    BY <2>6, <2>7, <2>9
<1>9. ASSUME DmaComplete PROVE (InOrder /\ Progress /\ Written /\ Transfer)'
  <2>1. /\ dma.on /\ Len(dma.out) = 3 /\ ~dma'.on /\ ~txFlag' /\ doneSem' = 1
        /\ wire' = Append(wire, [len |-> dma.msg, parts |-> dma.out])
        /\ UNCHANGED <<pc, sent, kind, packet, overlapped>>
    BY <1>9 DEF DmaComplete, NoTransfer
  <2>2. pc[Sender] = "wait" /\ doneSem = 0 /\ Len(wire) + 1 = sent[Sender]
    BY <1>0, <2>1 DEF Progress
  <2>3. dma.out = <<Msg(Sender), Msg(Sender), Msg(Sender)>>
    <3>1. dma.out \in Seq(Contents)
      BY <1>0 DEF Transfers
    <3>2. dma.out[1] = Msg(Sender) /\ dma.out[2] = Msg(Sender) /\ dma.out[3] = Msg(Sender)
      BY <2>1 DEF Transfer
    <3> QED
      BY <2>1, <3>1, <3>2
  <2>4. wire' = Append(wire, Whole(SendersFrame(Len(wire) + 1)))
    BY <2>1, <2>2, <2>3 DEF Transfer, Whole, SendersFrame, Msg
  <2>5. Len(wire') = Len(wire) + 1
    BY <1>0, <2>1
  <2>6. InOrder'
    <3> SUFFICES ASSUME NEW i \in 1..Len(wire') PROVE wire'[i] = Whole(SendersFrame(i))
      BY DEF InOrder, Whole, SendersFrame
    <3>1. CASE i \in 1..Len(wire)
      BY <1>0, <2>4, <3>1 DEF InOrder
    <3>2. CASE i = Len(wire) + 1
      BY <1>0, <2>4, <3>2
    <3> QED
      BY <1>0, <2>5, <3>1, <3>2
  <2>7. Progress' /\ Transfer'
    BY <1>0, <2>1, <2>2, <2>5 DEF Progress, Transfer
  <2>8. Written'
    BY <2>1 DEF Written, Msg
  <2> QED
    BY <2>6, <2>7, <2>8
<1>10. CASE UNCHANGED vars
  BY <1>10 DEF vars, InOrder, Progress, Written, Transfer, Msg
<1> QED
  BY <1>0, <1>1, <1>2, <1>3, <1>4, <1>5, <1>6, <1>7, <1>8, <1>9, <1>10
     DEF Next, TaskStep, DmaStep, Fill, Send

(* So it holds throughout, whoever the single sender is.                   *)
LEMMA LinkInductive == Spec => []LinkInv
<1>1. Init => LinkInv
  <2> SUFFICES ASSUME Init, SingleSender PROVE InOrder /\ Progress /\ Written /\ Transfer
    BY DEF LinkInv
  <2>1. Sender \in Tasks
    BY DEF SingleSender
  <2> QED
    BY <2>1 DEF Init, InOrder, Progress, Written, Transfer, NoTransfer
<1>2. TypeInv /\ LinkInv /\ [Next]_vars => LinkInv'
  BY LinkStep DEF LinkInv, SingleSender
<1> QED
  BY <1>1, <1>2, TypeInductive, PTL DEF Spec

(* When one task has the line to itself, vb6824_send and                    *)
(* jl_uart_send_packet return only after their own frame has gone out,      *)
(* complete and unmixed: for any number of sends of either kind, and with   *)
(* or without DMA channels running out.                                     *)
THEOREM AloneReturnMeansSent == ASSUME SingleSender PROVE Spec => ReturnMeansSent
<1>1. ASSUME TypeInv, LinkInv, [Next]_vars, NEW t \in Tasks, pc[t] = "wait", pc'[t] = "idle"
      PROVE  \E i \in 1..Len(wire) : wire[i].len = Msg(t) /\ Intact(wire[i])
  <2>0. /\ t = Sender /\ Sender \in Tasks /\ \A u \in Tasks : u = Sender
        /\ pc \in [Tasks -> Steps] /\ sent \in [Tasks -> 0..MaxSends] /\ wire \in Seq(Frames)
        /\ sent[Sender] >= 1
        /\ InOrder /\ Progress
    BY <1>1 DEF SingleSender, LinkInv, TypeInv, TypeOK, Numbered
  <2>1. TakeDoneSem(Sender)
    BY <1>1, <2>0 DEF Next, TaskStep, DmaStep, Fill, Send, FillHeader, FillData, FillChecksum,
       FillJlPacket, SendBusy, SendIdle, StartDma, StartDmaNoChannel, StartDmaOverlapping,
       DmaRead, DmaComplete, Goto, vars
  <2>2. Len(wire) = sent[Sender] /\ sent[Sender] \in 1..Len(wire)
    BY <2>0, <2>1 DEF TakeDoneSem, Progress
  <2>3. wire[sent[Sender]] = Whole(Msg(Sender))
    BY <2>0, <2>2 DEF InOrder, SendersFrame, Msg
  <2> QED
    BY <2>0, <2>2, <2>3 DEF Whole, Intact
<1>2. TypeInv /\ LinkInv /\ [Next]_vars =>
        [\A t \in Tasks : pc[t] = "wait" /\ pc'[t] = "idle" =>
           \E i \in 1..Len(wire) : wire[i].len = Msg(t) /\ Intact(wire[i])]_vars
  BY <1>1
<1> QED
  BY <1>2, TypeInductive, LinkInductive, PTL DEF Spec, ReturnMeansSent

(* The frames the sender has begun, and those the chip has received, as    *)
(* FrameLink sees them.                                                    *)
Accepted  == [i \in 1..sent[Sender] |-> <<Sender, i>>]
Delivered == [i \in 1..Len(wire) |-> Received(wire[i])]

(* The safety part of FrameLink, the abstract view a single sender has of  *)
(* the voice chip's line: frames are accepted one at a time, and each is   *)
(* received unmixed, in order and once before the next is accepted.        *)
THEOREM AloneIsSafeLink == ASSUME SingleSender PROVE Spec => LinkIsSafe
<1>1. Init => Link!Init
  <2> SUFFICES ASSUME Init PROVE Link!Init
    OBVIOUS
  <2>1. sent[Sender] = 0 /\ Len(wire) = 0
    BY DEF Init, SingleSender
  <2> QED
    BY <2>1 DEF Link!Init
<1>2. TypeInv /\ LinkInv /\ TypeInv' /\ LinkInv' /\ [Next]_vars => [Link!Next]_Link!vars
  <2> SUFFICES ASSUME TypeInv, LinkInv, TypeInv', LinkInv', [Next]_vars
               PROVE  [Link!Next]_Link!vars
    OBVIOUS
  <2>0. /\ Sender \in Tasks /\ \A u \in Tasks : u = Sender
        /\ pc \in [Tasks -> Steps] /\ sent \in [Tasks -> 0..MaxSends] /\ wire \in Seq(Frames)
        /\ sent' \in [Tasks -> 0..MaxSends] /\ wire' \in Seq(Frames)
        /\ doneSem \in {0, 1}
        /\ InOrder /\ Progress /\ InOrder' /\ Progress'
    BY DEF SingleSender, LinkInv, TypeInv, TypeOK
  <2>a. ASSUME NEW m PROVE Received(Whole(m)) = m
    BY DEF Received, Intact, Whole
  <2>1. Delivered = [i \in 1..Len(wire) |-> <<Sender, i>>]
    BY <2>0, <2>a DEF Delivered, InOrder, SendersFrame
  <2>2. Delivered' = [i \in 1..Len(wire') |-> <<Sender, i>>]
    <3>1. \A i \in 1..Len(wire') : wire'[i] = Whole(<<Sender, i>>)
      BY <2>0 DEF InOrder, SendersFrame, Whole
    <3>2. Delivered' = [i \in 1..Len(wire') |-> Received(wire'[i])]
      BY DEF Delivered, Received, Intact
    <3> QED
      BY <2>a, <3>1, <3>2
  <2>3. \A n \in Nat : /\ [i \in 1..n |-> <<Sender, i>>] \in Seq({Sender} \X Nat)
                       /\ Len([i \in 1..n |-> <<Sender, i>>]) = n
                       /\ [i \in 1..(n + 1) |-> <<Sender, i>>] =
                            Append([i \in 1..n |-> <<Sender, i>>], <<Sender, n + 1>>)
    OBVIOUS
  <2>4. ASSUME FillHeader(Sender) \/ FillJlPacket(Sender) PROVE Link!Next
    <3>1. /\ pc[Sender] = "idle" /\ sent[Sender] < MaxSends
          /\ sent'[Sender] = sent[Sender] + 1 /\ wire' = wire
      BY <2>0, <2>4 DEF FillHeader, FillJlPacket, driverVars
    <3>2. Len(Accepted) = Len(Delivered)
      BY <2>0, <2>1, <2>3, <3>1 DEF Accepted, Progress
    <3>3. Accepted' = Append(Accepted, <<Sender, sent[Sender] + 1>>)
      BY <2>0, <2>3, <3>1 DEF Accepted
    <3>4. <<Sender, sent[Sender] + 1>> \in Msgs
      BY <2>0, <3>1 DEF Msgs
    <3>5. Delivered' = Delivered
      BY <2>1, <2>2, <3>1
    <3> QED
      BY <3>2, <3>3, <3>4, <3>5 DEF Link!Next, Link!Accept, Accepted, Delivered
  <2>5. ASSUME DmaComplete PROVE Link!Next
    <3>1. dma.on /\ sent' = sent /\ Len(wire') = Len(wire) + 1 /\ pc' = pc
      BY <2>0, <2>5 DEF DmaComplete
    <3>2. Len(wire) + 1 = sent[Sender]
      BY <2>0, <3>1 DEF Progress
    <3>3. Len(Delivered) = Len(wire) /\ Len(Accepted) = sent[Sender]
      BY <2>0, <2>1, <2>3 DEF Accepted
    <3>4. Accepted[Len(Delivered) + 1] = <<Sender, Len(wire) + 1>>
      BY <2>0, <3>2, <3>3 DEF Accepted
    <3>5. Delivered' = Append(Delivered, <<Sender, Len(wire) + 1>>)
      BY <2>0, <2>1, <2>2, <2>3, <3>1
    <3>6. Accepted' = Accepted
      BY <3>1 DEF Accepted
    <3>7. /\ Len(Delivered) < Len(Accepted)
          /\ Delivered' = Append(Delivered, Accepted[Len(Delivered) + 1])
      BY <2>0, <3>2, <3>3, <3>4, <3>5
    <3> QED
      BY <3>6, <3>7 DEF Link!Next, Link!Deliver, Accepted, Delivered
  <2>6. ASSUME UNCHANGED <<sent, wire>> PROVE UNCHANGED Link!vars
    BY <2>6 DEF Link!vars, Received, Intact
  <2>7. \/ FillHeader(Sender) \/ FillJlPacket(Sender) \/ DmaComplete
        \/ UNCHANGED <<sent, wire>>
    BY <2>0 DEF Next, TaskStep, DmaStep, Fill, Send, FillData, FillChecksum,
       SendBusy, SendIdle, StartDma, StartDmaNoChannel, StartDmaOverlapping,
       TakeDoneSem, DmaRead, driverVars, vars
  <2> QED
    BY <2>4, <2>5, <2>6, <2>7
<1> QED
  BY <1>1, <1>2, TypeInductive, LinkInductive, PTL DEF Spec, LinkIsSafe
=============================================================================
