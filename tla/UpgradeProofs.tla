---------------------------- MODULE UpgradeProofs ----------------------------
(***************************************************************************)
(* Proofs about the upgrade task alone (JlOta) and together with the chip  *)
(* (Upgrade): type correctness, the protocol spoken to the chip, the       *)
(* release of the main task and what it knows then, for any number of      *)
(* updates, packets and socket slots, and any script of the loader.        *)
(*                                                                         *)
(* A step of the upgrade task is the same in both specifications, so what  *)
(* it keeps is proved once; they differ in how packets arrive.             *)
(***************************************************************************)
EXTENDS Upgrade, TLAPS

USE JlOtaAssumption

(* The bounds of the model are positive numbers.                           *)
LEMMA Bounds ==
  /\ MaxTries \in Nat /\ MaxTries > 0
  /\ ProbeEvery \in Nat /\ ProbeEvery > 0
  /\ RpcSlots \in Nat /\ RpcSlots > 0
  /\ MaxAttempts \in Nat /\ MaxPackets \in Nat
  OBVIOUS

(* Taking the first datagram off the socket.                               *)
LEMMA HeadTail ==
  ASSUME NEW S, NEW q \in Seq(S), q # <<>>
  PROVE  Head(q) \in S /\ Tail(q) \in Seq(S) /\ Len(Tail(q)) = Len(q) - 1
         /\ Len(q) \in Nat
  OBVIOUS

(* Before the version loop is left, fewer than MaxTries requests were made.*)
TriesInv == pc \in {"setup", "version"} => tries < MaxTries

TypeInv == TypeOK /\ TriesInv

(* The UART runs at the upgrade rate exactly when the receive side listens  *)
(* for upgrade packets, unless the request to upgrade was the last thing    *)
(* the task could send; both hold throughout the poll loop.                 *)
ProtocolInv ==
    /\ baud = JlBaud => isOtaMode
    /\ pc # "stranded" \/ said # "upgrade" => (isOtaMode => baud = JlBaud)
    /\ pc \in {"setup", "version"} => ~isOtaMode
    /\ InUpdate => isOtaMode
    /\ said \in JlWords => isOtaMode /\ baud = JlBaud
    /\ said = "version" => ~isOtaMode

(* Whenever the outer loop may be left, no update was begun or the latest   *)
(* one has answered a STOP.                                                 *)
ReleaseInv ==
    /\ mainRuns => pc = "exit"
    /\ pc \in {"setup", "version"} => attempts = 0
    /\ pc \in {"info", "decide"} /\ otaCompleted = 1
         => attempts = 0 \/ stopCode # NoCode
    /\ pc = "exit" => attempts = 0 \/ stopCode # NoCode

(* A packet may have been put on the socket, and the task has not moved.    *)
Arrives(p) ==
    /\ rpc' \in {rpc, IF Len(rpc) < RpcSlots THEN Append(rpc, p) ELSE rpc}
    /\ packets' \in 0..MaxPackets
    /\ UNCHANGED <<pc, tries, answer, otaCompleted, isOtaMode, baud, said, loopVars, attempts,
                   stopCode, mainRuns>>

HostStep == OtaStep \/ MainProceeds \/ \E p \in Packets : Arrives(p)

(* The steps of JlOta are such steps.                                       *)
LEMMA StepsOfTheHost == TypeInv /\ [Next]_vars => HostStep \/ UNCHANGED vars
<1>1. ASSUME NEW p \in Packets, TypeInv, ChipSends(p) PROVE Arrives(p)
  BY <1>1, Bounds DEF ChipSends, Arrives, TypeInv, TypeOK
<1> QED
  BY <1>1 DEF Next, HostStep

(* The types hold at the start, and a step of the upgrade task keeps them.  *)
LEMMA TypeInit == Init => TypeInv
<1> SUFFICES ASSUME Init PROVE TypeInv
  OBVIOUS
<1>1. rpc \in Seq(Packets) /\ Len(rpc) <= RpcSlots
  BY Bounds DEF Init
<1>2. isOtaMode \in BOOLEAN /\ modeEntered \in BOOLEAN /\ mainRuns \in BOOLEAN
  BY Zenon DEF Init
<1>3. answer \in Answers
  BY DEF Init, Answers
<1>4. tries \in 0..MaxTries /\ retryCount \in 0..(ProbeEvery - 1)
      /\ packets \in 0..MaxPackets /\ attempts \in 0..MaxAttempts /\ TriesInv
  BY Bounds DEF Init, TriesInv
<1>5. otaCompleted \in {0, 1} /\ said \in Words
      /\ lastOpcode \in Opcodes \cup {"none"}
      /\ stopCode \in Codes \cup {NoCode} /\ baud \in {VoiceBaud, JlBaud}
  BY DEF Init, Words
<1> QED
  BY <1>1, <1>2, <1>3, <1>4, <1>5 DEF Init, TypeInv, TypeOK

LEMMA TypeStep == TypeInv /\ HostStep => TypeInv'
<1> SUFFICES ASSUME TypeInv, HostStep PROVE TypeInv'
  OBVIOUS
<1> USE Bounds DEF TypeInv, TypeOK, TriesInv, loopVars, envVars, LoopEnd,
                   UpdateReturns, UpdateFails
<1>1. ASSUME NEW ok \in BOOLEAN, Setup(ok) PROVE TypeInv'
  BY <1>1 DEF Setup
<1>2. ASSUME NEW ok \in BOOLEAN, GetVersion(ok) PROVE TypeInv'
  BY <1>2 DEF GetVersion, Words
<1>3. ASSUME NEW ok \in BOOLEAN, Connect(ok) PROVE TypeInv'
  BY <1>3 DEF Connect
<1>4. ASSUME NEW ok \in BOOLEAN, FirmwareOffset(ok) PROVE TypeInv'
  <2>1. CASE ok
    <3>1. modeEntered' \in BOOLEAN
      BY <1>4, <2>1, Zenon DEF FirmwareOffset
    <3>2. retryCount' \in 0..(ProbeEvery - 1) /\ lastOpcode' \in {"none"}
      BY <1>4, <2>1 DEF FirmwareOffset
    <3> QED
      BY <1>4, <2>1, <3>1, <3>2 DEF FirmwareOffset
  <2>2. CASE ~ok
    BY <1>4, <2>2 DEF FirmwareOffset
  <2> QED
    BY <2>1, <2>2
<1>5. ASSUME NEW a \in Answers, RequestUpdateInfo(a) PROVE TypeInv'
  BY <1>5 DEF RequestUpdateInfo
<1>6. CASE NoUpdate
  <2>1. answer' \in Answers
    BY <1>6 DEF NoUpdate, Answers
  <2> QED
    BY <1>6, <2>1 DEF NoUpdate
<1>7. CASE Update
  <2>1. answer' \in Answers
    BY <1>7 DEF Update, Answers
  <2> QED
    BY <1>7, <2>1 DEF Update
<1>8. CASE JlOtaInit
  BY <1>8 DEF JlOtaInit, Words
<1>9. CASE Poll
  BY <1>9 DEF Poll, Words, JlWords
<1>10. CASE SelectFails
  BY <1>10 DEF SelectFails
<1>11. CASE SelectTimeout
  BY <1>11 DEF SelectTimeout
<1>12. ASSUME NEW o \in ReadOutcomes, HandlePacket(o) PROVE TypeInv'
  <2>1. Head(rpc) \in Packets /\ Tail(rpc) \in Seq(Packets)
        /\ Len(Tail(rpc)) <= RpcSlots
    <3>1. rpc \in Seq(Packets) /\ rpc # <<>> /\ Len(rpc) <= RpcSlots
      BY <1>12 DEF HandlePacket
    <3> QED
      BY <3>1, HeadTail
  <2>2. Head(rpc).op \in Opcodes /\ Head(rpc).code \in Codes \cup {NoCode}
    BY <2>1 DEF Packets, Opcodes
  <2>3. said' \in Words
    BY <1>12, <2>2 DEF HandlePacket, Accepted, Words, JlWords, Opcodes
  <2>4. modeEntered' \in BOOLEAN
    <3>1. modeEntered' = (modeEntered \/ Accepted(Head(rpc)))
      BY <1>12, Zenon DEF HandlePacket
    <3> QED
      BY <3>1, Zenon DEF Accepted
  <2>5. retryCount' \in 0..(ProbeEvery - 1)
    <3>1. retryCount' = IF Head(rpc).op = "START" THEN 0 ELSE retryCount
      BY <1>12, Zenon DEF HandlePacket
    <3> QED
      BY <3>1
  <2>6. stopCode' \in Codes \cup {NoCode} /\ lastOpcode' \in Opcodes
    BY <1>12, <2>2 DEF HandlePacket
  <2>7. otaCompleted' \in {0, 1} /\ pc' \in {"poll", "info", "exit"}
    BY <1>12 DEF HandlePacket
  <2> QED
    BY <1>12, <2>1, <2>3, <2>4, <2>5, <2>6, <2>7 DEF HandlePacket
<1>13. CASE MainProceeds
  BY <1>13 DEF MainProceeds
<1>14. ASSUME NEW p \in Packets, Arrives(p) PROVE TypeInv'
  <2>1. rpc' \in Seq(Packets) /\ Len(rpc') <= RpcSlots
    BY <1>14 DEF Arrives
  <2> QED
    BY <1>14, <2>1 DEF Arrives
<1>15. CASE ServerSilent
  BY <1>15 DEF ServerSilent
<1>16. ASSUME NEW w \in Words, SendStranded(w) PROVE TypeInv'
  <2>1. rpc' \in Seq(Packets) /\ Len(rpc') <= RpcSlots
    <3>1. CASE rpc' = rpc
      BY <3>1
    <3>2. CASE rpc # <<>> /\ rpc' = Tail(rpc)
      BY <3>2, HeadTail
    <3> QED
      BY <1>16, <3>1, <3>2 DEF SendStranded
  <2>2. isOtaMode' \in BOOLEAN
    <3>1. isOtaMode' = (isOtaMode \/ w = "upgrade")
      BY <1>16, Zenon DEF SendStranded
    <3> QED
      BY <3>1, Zenon
  <2>3. /\ pc' = "stranded" /\ said' \in Words
        /\ UNCHANGED <<tries, answer, otaCompleted, baud, loopVars, packets, mainRuns, attempts,
                       stopCode>>
    BY <1>16 DEF SendStranded
  <2> QED
    BY <2>1, <2>2, <2>3
<1> QED
  BY <1>1, <1>2, <1>3, <1>4, <1>5, <1>6, <1>7, <1>8, <1>9, <1>10, <1>11,
     <1>12, <1>13, <1>14, <1>15, <1>16 DEF HostStep, OtaStep

(* Type correctness of the upgrade task.                                    *)
LEMMA TypeInductive == Spec => []TypeInv
<1>1. TypeInv /\ [Next]_vars => TypeInv'
  <2>1. TypeInv /\ UNCHANGED vars => TypeInv'
    BY DEF vars, loopVars, envVars, TypeInv, TypeOK, TriesInv
  <2> QED
    BY <2>1, TypeStep, StepsOfTheHost
<1> QED
  BY <1>1, TypeInit, PTL DEF Spec

-----------------------------------------------------------------------------
(* Rate and receive mode change together, at jl_ota_init; a step of the    *)
(* upgrade task keeps what follows from that.                               *)
LEMMA ProtocolInit == Init => ProtocolInv
  BY DEF Init, ProtocolInv, VoiceBaud, JlBaud, InUpdate, JlWords

LEMMA ProtocolStep == TypeInv /\ ProtocolInv /\ HostStep => ProtocolInv'
<1> SUFFICES ASSUME TypeInv, ProtocolInv, HostStep PROVE ProtocolInv'
  OBVIOUS
<1> USE DEF ProtocolInv, TypeInv, TypeOK, loopVars, envVars, LoopEnd,
            UpdateReturns, UpdateFails, InUpdate, VoiceBaud, JlBaud
<1>1. ASSUME NEW ok \in BOOLEAN, Setup(ok) \/ GetVersion(ok) PROVE ProtocolInv'
  BY <1>1 DEF Setup, GetVersion, JlWords
<1>2. ASSUME NEW ok \in BOOLEAN, Connect(ok) \/ FirmwareOffset(ok)
      PROVE  ProtocolInv'
  BY <1>2 DEF Connect, FirmwareOffset
<1>3. CASE JlOtaInit
  BY <1>3 DEF JlOtaInit, JlWords
<1>4. CASE Poll
  BY <1>4 DEF Poll, JlWords
<1>5. ASSUME NEW o \in ReadOutcomes, HandlePacket(o) PROVE ProtocolInv'
  <2>1. isOtaMode /\ baud = JlBaud /\ UNCHANGED <<isOtaMode, baud>>
    BY <1>5 DEF HandlePacket
  <2>2. said' = said \/ said' # "version"
    BY <1>5 DEF HandlePacket, Accepted
  <2>3. pc' \in {"poll", "info", "exit"}
    BY <1>5 DEF HandlePacket
  <2> QED
    BY <2>1, <2>2, <2>3
<1>6. CASE NoUpdate \/ Update \/ SelectFails \/ SelectTimeout \/ MainProceeds
  BY <1>6 DEF NoUpdate, Update, SelectFails, SelectTimeout, MainProceeds
<1>7. ASSUME NEW a \in Answers, RequestUpdateInfo(a) PROVE ProtocolInv'
  BY <1>7 DEF RequestUpdateInfo
<1>8. ASSUME NEW p \in Packets, Arrives(p) PROVE ProtocolInv'
  BY <1>8 DEF Arrives
<1>9. CASE ServerSilent
  BY <1>9 DEF ServerSilent
<1>10. ASSUME NEW w \in Words, SendStranded(w) PROVE ProtocolInv'
  BY <1>10 DEF SendStranded, Accepted, JlWords
<1> QED
  BY <1>1, <1>2, <1>3, <1>4, <1>5, <1>6, <1>7, <1>8, <1>9, <1>10 DEF HostStep, OtaStep

(* ... and so it always holds.                                              *)
LEMMA ProtocolInductive == Spec => []ProtocolInv
<1>1. TypeInv /\ ProtocolInv /\ [Next]_vars => ProtocolInv'
  <2>1. ProtocolInv /\ UNCHANGED vars => ProtocolInv'
    BY DEF vars, loopVars, envVars, ProtocolInv, InUpdate
  <2> QED
    BY <2>1, ProtocolStep, StepsOfTheHost
<1> QED
  BY <1>1, ProtocolInit, TypeInductive, PTL DEF Spec

(* The chip is only ever spoken to in the protocol, at the rate and with    *)
(* the receive mode that belong together.                                   *)
THEOREM OneProtocol == Spec => []SpeaksOneProtocol
<1>1. ProtocolInv /\ TypeInv => SpeaksOneProtocol
  BY DEF ProtocolInv, TypeInv, TypeOK, SpeaksOneProtocol
<1> QED
  BY <1>1, ProtocolInductive, TypeInductive, PTL

-----------------------------------------------------------------------------
(* The outer loop is left only when ReleaseInv allows it.                   *)
LEMMA ReleaseInit == Init => ReleaseInv
  BY DEF Init, ReleaseInv

LEMMA ReleaseStep == TypeInv /\ ReleaseInv /\ HostStep => ReleaseInv'
<1> SUFFICES ASSUME TypeInv, ReleaseInv, HostStep PROVE ReleaseInv'
  OBVIOUS
<1> USE DEF ReleaseInv, TypeInv, TypeOK, loopVars, envVars, LoopEnd,
            UpdateReturns, UpdateFails, NoCode
<1>1. ASSUME NEW ok \in BOOLEAN, Setup(ok) \/ GetVersion(ok) PROVE ReleaseInv'
  BY <1>1 DEF Setup, GetVersion
<1>2. ASSUME NEW ok \in BOOLEAN, Connect(ok) \/ FirmwareOffset(ok)
      PROVE  ReleaseInv'
  BY <1>2 DEF Connect, FirmwareOffset
<1>3. CASE JlOtaInit \/ Poll \/ SelectFails \/ SelectTimeout
  BY <1>3 DEF JlOtaInit, Poll, SelectFails, SelectTimeout
<1>4. ASSUME NEW o \in ReadOutcomes, HandlePacket(o) PROVE ReleaseInv'
  <2>1. Head(rpc) \in Packets
    BY <1>4, HeadTail DEF HandlePacket
  <2>2. Head(rpc).op = "STOP" => Head(rpc).code # NoCode
    BY <2>1 DEF Packets, Codes
  <2>3. ~mainRuns /\ ~mainRuns'
    BY <1>4 DEF HandlePacket
  <2>4. CASE Head(rpc).op = "STOP" /\ Accepted(Head(rpc))
    BY <1>4, <2>2, <2>3, <2>4 DEF HandlePacket
  <2>5. CASE ~(Head(rpc).op = "STOP" /\ Accepted(Head(rpc)))
    <3>1. pc' = "poll" \/ (pc' = "info" /\ otaCompleted' = 0)
      BY <1>4, <2>5 DEF HandlePacket
    <3> QED
      BY <2>3, <3>1
  <2> QED
    BY <2>4, <2>5
<1>5. CASE NoUpdate
  BY <1>5 DEF NoUpdate
<1>6. CASE Update
  BY <1>6 DEF Update
<1>7. ASSUME NEW a \in Answers, RequestUpdateInfo(a) PROVE ReleaseInv'
  BY <1>7 DEF RequestUpdateInfo
<1>8. ASSUME NEW p \in Packets, Arrives(p) PROVE ReleaseInv'
  BY <1>8 DEF Arrives
<1>9. CASE MainProceeds
  BY <1>9 DEF MainProceeds
<1>10. CASE ServerSilent \/ \E w \in Words : SendStranded(w)
  BY <1>10 DEF ServerSilent, SendStranded
<1> QED
  BY <1>1, <1>2, <1>3, <1>4, <1>5, <1>6, <1>7, <1>8, <1>9, <1>10
     DEF HostStep, OtaStep

(* ... and so it always holds.                                              *)
LEMMA ReleaseInductive == Spec => []ReleaseInv
<1>1. TypeInv /\ ReleaseInv /\ [Next]_vars => ReleaseInv'
  <2>1. ReleaseInv /\ UNCHANGED vars => ReleaseInv'
    BY DEF vars, loopVars, envVars, ReleaseInv
  <2> QED
    BY <2>1, ReleaseStep, StepsOfTheHost
<1> QED
  BY <1>1, ReleaseInit, TypeInductive, PTL DEF Spec

(* Once an update was begun, vb6824_wait_for_ota_exited returns only after  *)
(* an update that answered a STOP of the chip.                              *)
THEOREM Released == Spec => []ReleasedAfterStop
<1>1. ReleaseInv => ReleasedAfterStop
  BY DEF ReleaseInv, ReleasedAfterStop
<1> QED
  BY <1>1, ReleaseInductive, TypeInductive, PTL

(* Type correctness of the upgrade task: the probe counter stays below its *)
(* limit and the socket within its slots.                                  *)
THEOREM TypeCorrect == Spec => []TypeOK
<1>1. TypeInv => TypeOK
  BY DEF TypeInv
<1> QED
  BY <1>1, TypeInductive, PTL
-----------------------------------------------------------------------------
(* The upgrade task together with the chip.                                 *)

(* Nothing is upgraded before an update was begun.                          *)
BegunInv ==
    /\ pc \in {"connect", "init"} \/ isOtaMode => attempts > 0
    /\ stopCode # NoCode => pc = "exit" /\ isOtaMode

(* The loader is entered once, when the rate changes, and from then on only *)
(* comes nearer to its STOP; a verdict is given there and stays.            *)
LoaderInv ==
    /\ chip = "loader" => isOtaMode /\ at > 0
    /\ verdict # NoCode /\ chip = "loader" => Stopping

(* A STOP on the socket, or answered, is the one and only the chip makes,   *)
(* of whichever attempt.                                                    *)
Final(code) == code = verdict /\ code # NoCode /\ (chip = "loader" => Stopping)
StopInv ==
    /\ rpc # <<>> => isOtaMode
    /\ \A i \in 1..Len(rpc) : rpc[i].op = "STOP" => Final(rpc[i].code)
    /\ stopCode # NoCode => Final(stopCode)

UpgradeIInv ==
    /\ TypeInv /\ ProtocolInv /\ ReleaseInv
    /\ UpgradeTypeOK /\ BegunInv /\ LoaderInv /\ StopInv

(* What the loader waits for is an opcode, and no request to upgrade.       *)
LEMMA WantedOpcode ==
  ASSUME ChipTypes, LoaderInv, chip = "loader"
  PROVE  /\ Stopping => Wanted = "STOP"
         /\ ~Stopping => Wanted \in Opcodes \ {"STOP", "unknown"}
  BY UpgradeAssumption DEF ChipTypes, LoaderInv, Wanted, Stopping

(* The steps of the composition that move the upgrade task are HostSteps.   *)
LEMMA StepsOfTheUpgrade == UpgradeIInv /\ UpgradeNext => HostStep \/ UNCHANGED vars
<1> SUFFICES ASSUME UpgradeIInv, UpgradeNext PROVE HostStep \/ UNCHANGED vars
  OBVIOUS
<1>1. ASSUME OtaTask PROVE OtaStep
  BY <1>1 DEF OtaTask, Quietly, AskServer, HostFails, HostHangs, EnterUpgrade, PollChip,
     AnswerPacket, OtaStep, ReadOutcomes
<1>2. ASSUME NEW p \in Packets, Forward(p) PROVE Arrives(p)
  BY <1>2 DEF Forward, Arrives, UpgradeIInv, TypeInv, TypeOK
<1>3. CASE LoaderAsks
  <2>1. [op |-> Wanted, lengthOk |-> TRUE, code |-> NoCode] \in Packets
    BY <1>3, WantedOpcode DEF LoaderAsks, UpgradeIInv, UpgradeTypeOK, Opcodes, Packets
  <2> QED
    BY <1>2, <1>3, <2>1 DEF LoaderAsks, HostStep
<1>4. CASE LoaderStops
  <2>1. verdict' \in Codes
    BY <1>4 DEF LoaderStops, UpgradeIInv, UpgradeTypeOK, ChipTypes
  <2>2. [op |-> "STOP", lengthOk |-> TRUE, code |-> verdict'] \in Packets
    BY <2>1 DEF Packets
  <2> QED
    BY <1>2, <1>4, <2>2 DEF LoaderStops, HostStep
<1>5. CASE LoaderAlive
  <2>1. [op |-> "KEEPALIVE", lengthOk |-> TRUE, code |-> NoCode] \in Packets
    BY DEF Packets
  <2> QED
    BY <1>2, <1>5, <2>1 DEF LoaderAlive, HostStep
<1>6. CASE LoaderGivesUp \/ ChipRestarts
  BY <1>6 DEF LoaderGivesUp, ChipRestarts
<1> QED
  BY <1>1, <1>3, <1>4, <1>5, <1>6 DEF UpgradeNext, MainReleased, HostStep

(* A step of the upgrade task keeps BegunInv: an update is counted before   *)
(* jl_ota_init, and a STOP ends the outer loop.                             *)
LEMMA BegunStep ==
  TypeInv /\ ProtocolInv /\ ReleaseInv /\ BegunInv /\ HostStep => BegunInv'
<1> SUFFICES ASSUME TypeInv, ProtocolInv, ReleaseInv, BegunInv, HostStep PROVE BegunInv'
  OBVIOUS
<1> USE DEF BegunInv, ProtocolInv, ReleaseInv, TypeInv, TypeOK, loopVars, envVars, LoopEnd,
            UpdateReturns, UpdateFails, InUpdate, NoCode
<1>1. ASSUME NEW ok \in BOOLEAN,
             Setup(ok) \/ GetVersion(ok) \/ Connect(ok) \/ FirmwareOffset(ok)
      PROVE  BegunInv'
  BY <1>1 DEF Setup, GetVersion, Connect, FirmwareOffset
<1>2. ASSUME NEW a \in Answers, RequestUpdateInfo(a) PROVE BegunInv'
  BY <1>2 DEF RequestUpdateInfo
<1>3. CASE NoUpdate \/ Update
  BY <1>3, Bounds DEF NoUpdate, Update
<1>4. CASE JlOtaInit \/ Poll \/ SelectFails \/ SelectTimeout
  BY <1>4 DEF JlOtaInit, Poll, SelectFails, SelectTimeout
<1>5. ASSUME NEW o \in ReadOutcomes, HandlePacket(o) PROVE BegunInv'
  <2>1. isOtaMode /\ UNCHANGED <<isOtaMode, attempts>> /\ stopCode = NoCode
    BY <1>5 DEF HandlePacket
  <2>2. stopCode' # NoCode => pc' = "exit"
    <3>1. CASE Head(rpc).op = "STOP" /\ Accepted(Head(rpc))
      BY <1>5, <3>1 DEF HandlePacket
    <3>2. CASE ~(Head(rpc).op = "STOP" /\ Accepted(Head(rpc)))
      <4>1. stopCode' = stopCode
        BY <1>5, <3>2 DEF HandlePacket
      <4> QED
        BY <2>1, <4>1
    <3> QED
      BY <3>1, <3>2
  <2>3. pc' \in {"poll", "info", "exit"}
    BY <1>5 DEF HandlePacket
  <2> QED
    BY <2>1, <2>2, <2>3
<1>6. CASE MainProceeds
  BY <1>6 DEF MainProceeds
<1>7. ASSUME NEW p \in Packets, Arrives(p) PROVE BegunInv'
  BY <1>7 DEF Arrives
<1>8. CASE ServerSilent \/ \E w \in Words : SendStranded(w)
  BY <1>8 DEF ServerSilent, SendStranded
<1> QED
  BY <1>1, <1>2, <1>3, <1>4, <1>5, <1>6, <1>7, <1>8 DEF HostStep, OtaStep

(* A word of the upgrade protocol, or any word at the upgrade rate: the     *)
(* loader may come one step nearer to its STOP, or leave with its verdict.  *)
LEMMA LineKeeps ==
  ASSUME ChipTypes, LoaderInv, NEW word, Line(word), baud = JlBaud
  PROVE  /\ ChipTypes' /\ verdict' = verdict
         /\ chip' = "loader" => chip = "loader" /\ at' > 0 /\ (Stopping => Stopping')
<1>1. CASE Hears(word, baud) /\ UNCHANGED <<faults, resets>>
  BY <1>1 DEF Hears, ChipTypes, LoaderInv, Stopping, VoiceBaud, JlBaud
<1>2. CASE Fault /\ UNCHANGED <<chip, at, verdict, resets>>
  BY <1>2, UpgradeAssumption DEF Fault, ChipTypes, LoaderInv, Stopping
<1> QED
  BY <1>1, <1>2 DEF Line

(* What is on the socket after a packet was taken or has arrived.           *)
LEMMA StopsInTail ==
  ASSUME rpc \in Seq(Packets), rpc # <<>>, StopInv
  PROVE  /\ Head(rpc).op = "STOP" => Final(Head(rpc).code)
         /\ \A i \in 1..Len(Tail(rpc)) : Tail(rpc)[i].op = "STOP" => Final(Tail(rpc)[i].code)
  BY DEF StopInv

(* The chip's verdict stays and it does not go back: every STOP stays       *)
(* final, whether on the socket or answered.                                *)
LEMMA StopsStay ==
  ASSUME TypeInv, StopInv, isOtaMode' = isOtaMode \/ isOtaMode', verdict' = verdict,
         chip' = "loader" => chip = "loader" /\ (Stopping => Stopping'),
         rpc' = rpc \/ (rpc # <<>> /\ rpc' = Tail(rpc)),
         \/ stopCode' \in {stopCode, NoCode}
         \/ rpc # <<>> /\ Head(rpc).op = "STOP" /\ stopCode' = Head(rpc).code
  PROVE  StopInv'
<1>1. \A c : Final(c) => c = verdict' /\ c # NoCode /\ (chip' = "loader" => Stopping')
  BY DEF Final
<1>2. rpc \in Seq(Packets)
  BY DEF TypeInv, TypeOK
<1>3. rpc' # <<>> => isOtaMode'
  BY DEF StopInv
<1>4. \A i \in 1..Len(rpc') : rpc'[i].op = "STOP" => Final(rpc'[i].code)
  BY <1>2, StopsInTail DEF StopInv
<1>5. stopCode' # NoCode => Final(stopCode')
  BY <1>2, StopsInTail DEF StopInv
<1> QED
  BY <1>1, <1>3, <1>4, <1>5 DEF StopInv, Final

(* The steps of the upgrade task, as far as the chip can tell.              *)
LEMMA HandledPacket ==
  ASSUME NEW o \in ReadOutcomes, HandlePacket(o)
  PROVE  /\ pc = "select" /\ rpc # <<>> /\ rpc' = Tail(rpc) /\ UNCHANGED <<isOtaMode, baud>>
         /\ \/ stopCode' = stopCode
            \/ Head(rpc).op = "STOP" /\ stopCode' = Head(rpc).code
  BY DEF HandlePacket

Silence == HostHangs /\ ServerSilent

(* Steps that neither reach the chip nor take more than one packet.         *)
LEMMA QuietStep ==
  ASSUME Quietly \/ AskServer \/ HostFails \/ MainReleased \/ Silence
  PROVE  /\ UNCHANGED <<chip, at, verdict, resets, isOtaMode>>
         /\ rpc' = rpc \/ (rpc # <<>> /\ rpc' = Tail(rpc))
         /\ \/ stopCode' \in {stopCode, NoCode}
            \/ rpc # <<>> /\ Head(rpc).op = "STOP" /\ stopCode' = Head(rpc).code
         /\ faults' = faults \/ (faults > 0 /\ faults' = faults - 1)
<1> USE DEF envVars, loopVars, chipVars, UpdateReturns, UpdateFails
<1>1. CASE Quietly
  <2>1. CASE rpc # <<>> /\ ~Accepted(Head(rpc)) /\ HandlePacket("sent")
    BY <1>1, <2>1, HandledPacket DEF Quietly, ReadOutcomes
  <2>2. CASE Setup(TRUE) \/ (\E answered \in BOOLEAN : GetVersion(answered)) \/ NoUpdate \/ Update
             \/ Connect(TRUE) \/ FirmwareOffset(TRUE) \/ SelectTimeout
    BY <1>1, <2>2 DEF Quietly, Setup, GetVersion, NoUpdate, Update, Connect, FirmwareOffset,
       SelectTimeout
  <2> QED
    BY <1>1, <2>1, <2>2 DEF Quietly
<1>2. CASE AskServer
  BY <1>2 DEF AskServer, RequestUpdateInfo, Fault
<1>3. CASE HostFails
  <2>1. CASE HandlePacket("http failed") \/ HandlePacket("no memory")
    BY <1>3, <2>1, HandledPacket DEF HostFails, Fault, ReadOutcomes
  <2>2. CASE Connect(FALSE) \/ FirmwareOffset(FALSE) \/ SelectFails
    BY <1>3, <2>2 DEF HostFails, Fault, Connect, FirmwareOffset, SelectFails
  <2> QED
    BY <1>3, <2>1, <2>2 DEF HostFails
<1>4. CASE MainReleased
  BY <1>4 DEF MainReleased, MainProceeds
<1>5. CASE Silence
  BY <1>5 DEF Silence, HostHangs, ServerSilent, SendStranded
<1> QED
  BY <1>1, <1>2, <1>3, <1>4, <1>5

(* A packet of the loader: a STOP that was final stays so, and the packet   *)
(* itself is no STOP or a final one.                                        *)
LEMMA Forwarded ==
  ASSUME TypeInv, StopInv, NEW p, Forward(p),
         \A c : Final(c) => c = verdict' /\ (chip' = "loader" => Stopping'),
         p.op = "STOP" => /\ p.code = verdict' /\ p.code # NoCode
                          /\ chip' = "loader" => Stopping'
  PROVE  StopInv'
<1>1. rpc \in Seq(Packets)
  BY DEF TypeInv, TypeOK
<1>2. rpc' \in {rpc, Append(rpc, p)} /\ UNCHANGED stopCode /\ isOtaMode'
  BY DEF Forward
<1>3. ASSUME NEW i \in 1..Len(rpc'), rpc'[i].op = "STOP"
      PROVE  rpc'[i].code = verdict' /\ rpc'[i].code # NoCode /\ (chip' = "loader" => Stopping')
  <2>1. CASE rpc' = rpc \/ i <= Len(rpc)
    <3>1. i \in 1..Len(rpc) /\ rpc'[i] = rpc[i]
      <4>1. CASE rpc' = rpc
        BY <1>3, <4>1
      <4>2. CASE rpc' = Append(rpc, p) /\ i <= Len(rpc)
        BY <1>1, <1>3, <4>2
      <4> QED
        BY <1>2, <2>1, <4>1, <4>2
    <3>2. Final(rpc[i].code)
      BY <1>3, <3>1 DEF StopInv
    <3> QED
      BY <3>1, <3>2 DEF Final
  <2>2. CASE rpc' = Append(rpc, p) /\ ~(i <= Len(rpc))
    <3>1. rpc'[i] = p
      BY <1>1, <1>3, <2>2
    <3> QED
      BY <1>3, <3>1
  <2> QED
    BY <1>2, <2>1, <2>2
<1>4. stopCode' # NoCode => stopCode' = verdict' /\ (chip' = "loader" => Stopping')
  BY <1>2 DEF StopInv
<1> QED
  BY <1>2, <1>3, <1>4 DEF StopInv, Final

(* Every step keeps what is known of the chip and of the STOPs it makes.    *)
LEMMA ChipStep == UpgradeIInv /\ UpgradeNext => ChipTypes' /\ LoaderInv' /\ StopInv'
<1> SUFFICES ASSUME UpgradeIInv, UpgradeNext PROVE ChipTypes' /\ LoaderInv' /\ StopInv'
  OBVIOUS
<1>0. /\ TypeInv /\ ProtocolInv /\ BegunInv /\ ChipTypes /\ LoaderInv /\ StopInv
      /\ rpc \in Seq(Packets)
  BY DEF UpgradeIInv, UpgradeTypeOK, TypeInv, TypeOK
<1>1. CASE Quietly \/ AskServer \/ HostFails \/ MainReleased \/ Silence
  <2>1. ChipTypes'
    <3>1. UNCHANGED <<chip, at, verdict, resets>>
      BY <1>1, QuietStep
    <3>2. faults \in 0..MaxFaults /\ MaxFaults \in Nat
      BY <1>0, UpgradeAssumption DEF ChipTypes
    <3>3. faults' = faults \/ (faults > 0 /\ faults' = faults - 1)
      BY <1>1, QuietStep
    <3>4. faults' \in 0..MaxFaults
      BY <3>2, <3>3
    <3> QED
      BY <1>0, <3>1, <3>4 DEF ChipTypes
  <2>2. LoaderInv'
    BY <1>0, <1>1, QuietStep DEF LoaderInv, Stopping
  <2>3. Stopping' = Stopping
    BY <1>1, QuietStep DEF Stopping
  <2>4. StopInv'
    BY <1>0, <1>1, <2>3, QuietStep, StopsStay
  <2> QED
    BY <2>1, <2>2, <2>4
<1>2. CASE PollChip
  <2>1. UNCHANGED <<isOtaMode, rpc, stopCode>> /\ isOtaMode /\ baud = JlBaud
    BY <1>0, <1>2 DEF PollChip, Poll, ProtocolInv, InUpdate, envVars
  <2>2. \/ \E word : Line(word)
        \/ UNCHANGED <<chip, at, verdict, resets, faults>>
    BY <1>2 DEF PollChip
  <2>3. /\ ChipTypes' /\ verdict' = verdict
        /\ chip' = "loader" => chip = "loader" /\ at' > 0 /\ (Stopping => Stopping')
    <3>1. CASE UNCHANGED <<chip, at, verdict, resets, faults>>
      BY <1>0, <3>1 DEF ChipTypes, LoaderInv, Stopping
    <3>2. CASE \E word : Line(word)
      BY <1>0, <2>1, <3>2, LineKeeps DEF ProtocolInv
    <3> QED
      BY <2>2, <3>1, <3>2
  <2>4. LoaderInv'
    BY <1>0, <2>1, <2>3 DEF LoaderInv
  <2>5. StopInv'
    BY <1>0, <2>1, <2>3, StopsStay
  <2> QED
    BY <2>3, <2>4, <2>5
<1>3. CASE AnswerPacket
  <2>1. HandlePacket("sent") /\ Line(Head(rpc).op) /\ "sent" \in ReadOutcomes
    BY <1>3 DEF AnswerPacket, ReadOutcomes
  <2>2. isOtaMode /\ baud = JlBaud
    BY <1>0, <2>1, HandledPacket DEF StopInv, ProtocolInv
  <2>3. /\ ChipTypes' /\ verdict' = verdict
        /\ chip' = "loader" => chip = "loader" /\ at' > 0 /\ (Stopping => Stopping')
    BY <1>0, <2>1, <2>2, LineKeeps
  <2>4. LoaderInv'
    BY <1>0, <2>1, <2>2, <2>3, HandledPacket DEF LoaderInv
  <2>5. StopInv'
    BY <1>0, <2>1, <2>2, <2>3, HandledPacket, StopsStay
  <2> QED
    BY <2>3, <2>4, <2>5
<1>4. ASSUME isOtaMode', UNCHANGED <<rpc, stopCode>>, Line("upgrade"), pc = "init"
      PROVE  ChipTypes' /\ LoaderInv' /\ StopInv'
  <2>1. isOtaMode' /\ UNCHANGED <<rpc, stopCode>> /\ Line("upgrade")
    BY <1>4
  <2>2. CASE isOtaMode
    <3>1. /\ ChipTypes' /\ verdict' = verdict
          /\ chip' = "loader" => chip = "loader" /\ at' > 0 /\ (Stopping => Stopping')
      BY <1>0, <1>4, <2>1, <2>2, LineKeeps DEF ProtocolInv
    <3>2. LoaderInv'
      BY <1>0, <2>1, <3>1 DEF LoaderInv
    <3>3. StopInv'
      BY <1>0, <2>1, <3>1, StopsStay
    <3> QED
      BY <3>1, <3>2, <3>3
  <2>3. CASE ~isOtaMode
    <3>1. chip = "app" /\ rpc = <<>> /\ stopCode = NoCode
      BY <1>0, <2>3 DEF LoaderInv, StopInv, BegunInv, ChipTypes
    <3>2. StopInv'
      BY <2>1, <3>1 DEF StopInv
    <3>3. \/ chip' = "loader" /\ at' = 1 /\ verdict' = NoCode
          \/ UNCHANGED <<chip, at, verdict>>
      BY <2>1, <3>1 DEF Line, Hears
    <3>4. LoaderInv'
      BY <2>1, <3>1, <3>3 DEF LoaderInv
    <3>5. UNCHANGED resets /\ faults' \in 0..MaxFaults
      BY <1>0, <2>1, UpgradeAssumption DEF Line, Fault, ChipTypes
    <3>6. ChipTypes'
      <4>1. Len(Script) \in Nat
        BY UpgradeAssumption
      <4>2. 1 \in 0..(Len(Script) + 1)
        BY <4>1
      <4>3. ChipTypes
        BY <1>0
      <4> QED
        BY <3>3, <3>5, <4>2, <4>3 DEF ChipTypes
    <3> QED
      BY <3>2, <3>4, <3>6
  <2> QED
    BY <2>2, <2>3
<1>5. ASSUME NEW p, Forward(p)
      PROVE  UNCHANGED <<chip, at, resets, isOtaMode>> /\ faults' \in 0..MaxFaults
             /\ Stopping' = Stopping
  BY <1>0, <1>5, UpgradeAssumption DEF Forward, Fault, ChipTypes, Stopping
<1>6. CASE LoaderAsks \/ LoaderAlive
  <2>1. PICK p : Forward(p) /\ p.op # "STOP" /\ UNCHANGED verdict
    BY <1>0, <1>6, WantedOpcode DEF LoaderAsks, LoaderAlive
  <2>2. ChipTypes' /\ LoaderInv'
    BY <1>0, <1>5, <2>1 DEF ChipTypes, LoaderInv
  <2>3. StopInv'
    BY <1>0, <1>5, <2>1, Forwarded DEF Final
  <2> QED
    BY <2>2, <2>3
<1>7. CASE LoaderStops
  <2>1. PICK p : Forward(p) /\ p.op = "STOP" /\ p.code = verdict'
    BY <1>7 DEF LoaderStops
  <2>2. /\ Stopping /\ verdict' \in Codes
        /\ verdict # NoCode => verdict' = verdict
    BY <1>0, <1>7 DEF LoaderStops, ChipTypes
  <2>3. ChipTypes' /\ LoaderInv'
    BY <1>0, <1>5, <2>1, <2>2 DEF ChipTypes, LoaderInv
  <2>4. verdict' # NoCode
    BY <2>2 DEF Codes, NoCode
  <2>5. \A c : Final(c) => c = verdict' /\ (chip' = "loader" => Stopping')
    BY <1>5, <2>1, <2>2 DEF Final
  <2>6. StopInv'
    BY <1>0, <1>5, <2>1, <2>2, <2>4, <2>5, Forwarded
  <2> QED
    BY <2>3, <2>6
<1>8. CASE LoaderGivesUp
  <2>1. UNCHANGED <<rpc, stopCode, isOtaMode, chip, resets, faults>> /\ ~Stopping
        /\ chip = "loader" /\ at' = Len(Script) + 1 /\ verdict' = "failure"
    BY <1>8 DEF LoaderGivesUp, vars, envVars
  <2>2. \A c : ~Final(c)
    BY <2>1 DEF Final
  <2>3. StopInv'
    BY <1>0, <2>1, <2>2 DEF StopInv
  <2>4. ChipTypes'
    BY <1>0, <2>1, UpgradeAssumption DEF ChipTypes, Codes
  <2>5. LoaderInv'
    BY <1>0, <2>1, UpgradeAssumption DEF LoaderInv, Stopping
  <2> QED
    BY <2>3, <2>4, <2>5
<1>9. CASE ChipRestarts
  <2>1. UNCHANGED <<rpc, stopCode, isOtaMode, verdict, faults>> /\ chip' = "app" /\ at' = 0
        /\ resets < MaxResets /\ resets' = resets + 1
    BY <1>9 DEF ChipRestarts, vars, envVars
  <2>2. ChipTypes' /\ LoaderInv'
    BY <1>0, <2>1, UpgradeAssumption DEF ChipTypes, LoaderInv
  <2>3. StopInv'
    BY <1>0, <2>1, StopsStay
  <2> QED
    BY <2>2, <2>3
<1>10. CASE EnterUpgrade
  <2>1. isOtaMode' /\ UNCHANGED <<rpc, stopCode>> /\ Line("upgrade") /\ pc = "init"
    BY <1>10 DEF EnterUpgrade, JlOtaInit, envVars
  <2> QED
    BY <1>4, <2>1
<1>11. CASE HostHangs /\ ~ServerSilent
  <2>1. PICK word \in Words : SendStranded(word) /\ Line(word)
    BY <1>11 DEF HostHangs
  <2>2. /\ isOtaMode => isOtaMode' /\ UNCHANGED stopCode
        /\ rpc' = rpc \/ (rpc # <<>> /\ rpc' = Tail(rpc))
    BY <2>1 DEF SendStranded
  <2>3. CASE pc = "init"
    <3>1. isOtaMode' /\ UNCHANGED <<rpc, stopCode>> /\ word = "upgrade"
      BY <2>1, <2>3 DEF SendStranded
    <3> QED
      BY <1>4, <2>1, <2>3, <3>1
  <2>4. CASE pc = "version"
    <3>1. ~isOtaMode /\ word = "version" /\ UNCHANGED <<rpc, stopCode, isOtaMode>>
      BY <1>0, <2>1, <2>4 DEF SendStranded, ProtocolInv, TypeInv, TypeOK
    <3>2. chip = "app" /\ UNCHANGED <<chip, at, verdict, resets>>
      BY <1>0, <2>1, <3>1 DEF LoaderInv, ChipTypes, Line, Hears
    <3>3. faults' \in 0..MaxFaults
      BY <1>0, <2>1, UpgradeAssumption DEF Line, Fault, ChipTypes
    <3>4. ChipTypes' /\ LoaderInv'
      BY <1>0, <3>1, <3>2, <3>3 DEF ChipTypes, LoaderInv
    <3>5. StopInv'
      BY <1>0, <3>1, <3>2, StopsStay
    <3> QED
      BY <3>4, <3>5
  <2>5. CASE pc \in {"poll", "select"}
    <3>1. isOtaMode /\ isOtaMode' /\ baud = JlBaud
      BY <1>0, <2>2, <2>5 DEF ProtocolInv, InUpdate
    <3>2. /\ ChipTypes' /\ verdict' = verdict
          /\ chip' = "loader" => chip = "loader" /\ at' > 0 /\ (Stopping => Stopping')
      BY <1>0, <2>1, <3>1, LineKeeps
    <3>3. LoaderInv'
      BY <1>0, <3>1, <3>2 DEF LoaderInv
    <3>4. StopInv'
      BY <1>0, <2>2, <3>1, <3>2, StopsStay
    <3> QED
      BY <3>2, <3>3, <3>4
  <2> QED
    BY <2>1, <2>3, <2>4, <2>5 DEF SendStranded
<1> QED
  BY <1>1, <1>2, <1>3, <1>10, <1>11, <1>6, <1>7, <1>8, <1>9 DEF UpgradeNext, OtaTask, Silence

(* The two flags stay truth values.                                         *)
LEMMA FlagStep == UpgradeIInv /\ UpgradeNext => ({wedged, missed} \subseteq BOOLEAN)'
<1> SUFFICES ASSUME UpgradeIInv, UpgradeNext PROVE wedged' \in BOOLEAN /\ missed' \in BOOLEAN
  OBVIOUS
<1>1. wedged \in BOOLEAN /\ missed \in BOOLEAN
  BY DEF UpgradeIInv, UpgradeTypeOK
<1>2. CASE EnterUpgrade
  BY <1>1, <1>2, Zenon DEF EnterUpgrade
<1>3. CASE ChipRestarts
  BY <1>1, <1>3, Zenon DEF ChipRestarts
<1>4. CASE UNCHANGED <<wedged, missed>>
  BY <1>1, <1>4, Zenon
<1> QED
  BY <1>2, <1>3, <1>4 DEF UpgradeNext, OtaTask, Quietly, AskServer, HostFails, HostHangs, PollChip,
     AnswerPacket, MainReleased, LoaderAsks, LoaderGivesUp, LoaderStops, LoaderAlive, Forward,
     chipVars

(* The inductive invariant of the composition always holds.                *)
LEMMA UpgradeInductive == UpgradeSpec => []UpgradeIInv
<1>1. UpgradeInit => UpgradeIInv
  <2> SUFFICES ASSUME UpgradeInit PROVE UpgradeIInv
    OBVIOUS
  <2>1. TypeInv /\ ProtocolInv /\ ReleaseInv
    BY TypeInit, ProtocolInit, ReleaseInit DEF UpgradeInit
  <2>2. UpgradeTypeOK
    <3>1. ChipTypes
      BY UpgradeAssumption DEF UpgradeInit, ChipTypes
    <3>2. {wedged, missed} \subseteq BOOLEAN
      BY Zenon DEF UpgradeInit
    <3> QED
      BY <2>1, <3>1, <3>2 DEF UpgradeTypeOK, TypeInv
  <2>3. BegunInv /\ LoaderInv /\ StopInv
    BY DEF UpgradeInit, Init, BegunInv, LoaderInv, StopInv
  <2> QED
    BY <2>1, <2>2, <2>3 DEF UpgradeIInv
<1>2. UpgradeIInv /\ [UpgradeNext]_upgradeVars => UpgradeIInv'
  <2> SUFFICES ASSUME UpgradeIInv, [UpgradeNext]_upgradeVars PROVE UpgradeIInv'
    OBVIOUS
  <2>1. CASE UpgradeNext
    <3>1. TypeInv /\ ProtocolInv /\ ReleaseInv /\ BegunInv
      BY DEF UpgradeIInv
    <3>2. CASE HostStep
      <4>1. TypeInv' /\ ProtocolInv' /\ ReleaseInv' /\ BegunInv'
        BY <3>1, <3>2, TypeStep, ProtocolStep, ReleaseStep, BegunStep
      <4> QED
        BY <2>1, <4>1, ChipStep, FlagStep DEF UpgradeIInv, UpgradeTypeOK, TypeInv
    <3>3. CASE UNCHANGED vars
      <4>1. TypeInv' /\ ProtocolInv' /\ ReleaseInv' /\ BegunInv'
        BY <3>1, <3>3 DEF TypeInv, TypeOK, TriesInv, ProtocolInv, InUpdate, ReleaseInv, BegunInv,
           vars, loopVars, envVars
      <4> QED
        BY <2>1, <4>1, ChipStep, FlagStep DEF UpgradeIInv, UpgradeTypeOK, TypeInv
    <3> QED
      BY <2>1, <3>2, <3>3, StepsOfTheUpgrade
  <2>2. CASE UNCHANGED upgradeVars
    BY <2>2 DEF upgradeVars, chipVars, vars, loopVars, envVars, UpgradeIInv, UpgradeTypeOK,
       TypeInv, TypeOK, TriesInv, ProtocolInv, InUpdate, ReleaseInv, BegunInv, LoaderInv, StopInv,
       ChipTypes, Final, Stopping
  <2> QED
    BY <2>1, <2>2
<1> QED
  BY <1>1, <1>2, PTL DEF UpgradeSpec

(* The composition keeps its types, and vb6824_wait_for_ota_exited does not *)
(* return while the loader is in the middle of an upgrade, whatever failed  *)
(* attempts, lost answers and packets left over came before.                *)
THEOREM HeldDuringUpgrade == UpgradeSpec => []UpgradeInv
<1>1. UpgradeIInv => UpgradeInv
  BY DEF UpgradeIInv, UpgradeInv, NotReleasedInLoader, ReleaseInv, BegunInv, LoaderInv, StopInv,
     Final, UpgradeTypeOK, TypeOK
<1> QED
  BY <1>1, UpgradeInductive, PTL

(* The code of the STOP that jl_do_ota_update answered last is the verdict  *)
(* of the chip, of whichever attempt the packet was left over.              *)
THEOREM TrueOutcome == UpgradeSpec => []OutcomeIsTheChips
<1>1. UpgradeIInv => OutcomeIsTheChips
  BY DEF UpgradeIInv, OutcomeIsTheChips, ReleaseInv, StopInv, Final, UpgradeTypeOK, TypeOK
<1> QED
  BY <1>1, UpgradeInductive, PTL

(* jl_ota_init is never undone: when the main task goes on, host and chip   *)
(* understand each other exactly if no upgrade was completed.               *)
THEOREM InStep == UpgradeSpec => []InStepUnlessUpgraded
<1>1. UpgradeIInv => InStepUnlessUpgraded
  BY DEF UpgradeIInv, InStepUnlessUpgraded, Together, ReleaseInv, BegunInv, LoaderInv,
     ProtocolInv, UpgradeTypeOK, ChipTypes, TypeOK, VoiceBaud, JlBaud
<1> QED
  BY <1>1, UpgradeInductive, PTL
=============================================================================
