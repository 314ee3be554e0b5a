-------------------------------- MODULE JlOta --------------------------------
(***************************************************************************)
(* The task that upgrades the voice chip: jl_ota_routine(), the request    *)
(* for update information, jl_do_ota_update() with its poll loop over the  *)
(* chip and the HTTP server, and the main task waiting for all of it in    *)
(* vb6824_wait_for_ota_exited() (example/qwen/vb6824.c).                   *)
(*                                                                         *)
(* The update server, the firmware server and the chip are environment:    *)
(* each may answer anything the code tells apart, or nothing.              *)
(***************************************************************************)
EXTENDS Integers, Sequences

CONSTANTS
    MaxTries,       \* 5, version requests before going on without a version
    ProbeEvery,     \* 3, silent polls of the chip before it is probed
    RpcSlots,       \* datagrams the loopback socket can hold
    MaxAttempts,    \* bound: updates the server offers
    MaxPackets      \* bound: packets the chip sends

ASSUME JlOtaAssumption ==
    {MaxTries, ProbeEvery, RpcSlots, MaxAttempts, MaxPackets} \subseteq Nat \ {0}

VARIABLES
    pc,             \* where jl_ota_routine is
    tries,          \* i of vb6824_get_version
    answer,         \* result: the server's answer being looked at
    otaCompleted,   \* ota_completed of jl_ota_routine
    isOtaMode,      \* f_is_ota_mode
    baud,           \* the rate the UART is set to
    said,           \* the last thing sent to the chip
    lastOpcode, modeEntered, retryCount,    \* locals of jl_do_ota_update
    rpc,            \* datagrams waiting on the rpc_responder_socket
    packets,        \* number of packets the chip has sent
    attempts,       \* number of updates begun
    stopCode,       \* history: code of the STOP answered by this update
    mainRuns        \* the main task is past vb6824_wait_for_ota_exited

loopVars == <<lastOpcode, modeEntered, retryCount>>
envVars  == <<rpc, packets, mainRuns>>
vars     == <<pc, tries, answer, otaCompleted, isOtaMode, baud, said, loopVars, envVars,
              attempts, stopCode>>

-----------------------------------------------------------------------------
VoiceBaud == "2000000"
JlBaud    == "9600"

Opcodes == {"START", "READ", "STOP", "LEN", "KEEPALIVE", "unknown"}
Codes   == {"success", "failure"}       \* the Err_code byte of a STOP
NoCode  == "none"

(* A packet of the chip: opcode, whether its length is the one the code     *)
(* insists on for that opcode, and the code a STOP carries.                 *)
Packets ==
    [op : {"START", "KEEPALIVE", "unknown"}, lengthOk : {TRUE}, code : {NoCode}]
    \cup [op : {"READ", "LEN"}, lengthOk : BOOLEAN, code : {NoCode}]
    \cup [op : {"STOP"}, lengthOk : BOOLEAN, code : Codes]

(* What jl_ota_request_update_info may bring back: nothing, or a JSON value *)
(* that is or is no object.  "success" may be the literal true, the number  *)
(* 1 or something else; "data" may hold the five fields the code reads, the *)
(* four fields its comment names, or be no object.                          *)
NoAnswer == [result |-> "NULL", success |-> "false", data |-> "null"]
Answers  ==
    {NoAnswer, [NoAnswer EXCEPT !.result = "other"]} \cup
    [result : {"object"}, success : {"true", "1", "false"},
     data : {"name host port path tlsEnabled", "host port path tls", "null"}]

JlWords == {"probe", "START", "READ", "STOP", "LEN", "KEEPALIVE"}
Words   == {"nothing", "version", "upgrade"} \cup JlWords

Init ==
    /\ pc = "setup"
    /\ tries = 0
    /\ answer = NoAnswer
    /\ otaCompleted = 1
    /\ isOtaMode = FALSE
    /\ baud = VoiceBaud
    /\ said = "nothing"
    /\ lastOpcode = "none" /\ modeEntered = FALSE /\ retryCount = 0
    /\ rpc = <<>> /\ packets = 0 /\ mainRuns = FALSE
    /\ attempts = 0
    /\ stopCode = NoCode

-----------------------------------------------------------------------------
(* Mutant: the rate is set to the upgrade's. *)
SetupUpgradeRate(ok) ==
    /\ pc = "setup"
    /\ pc' = IF ok THEN "version" ELSE "exit"
    /\ baud' = JlBaud
    /\ UNCHANGED <<tries, answer, otaCompleted, isOtaMode, said, loopVars, envVars,
                   attempts, stopCode>>

(* jl_ota_routine: settings read, sockets opened.  Missing settings or any  *)
(* failure end the task, after the exit semaphore was given.                *)
Setup(ok) ==
    /\ pc = "setup"
    /\ pc' = IF ok THEN "version" ELSE "exit"
    /\ baud' = VoiceBaud
    /\ UNCHANGED <<tries, answer, otaCompleted, isOtaMode, said, loopVars, envVars,
                   attempts, stopCode>>

(* vb6824_get_version: ask, wait 3 s for an answer, ask again. *)
GetVersion(answered) ==
    /\ pc = "version"
    /\ said' = "version"
    /\ tries' = tries + 1
    /\ pc' = IF answered \/ tries' = MaxTries THEN "info" ELSE "version"
    /\ UNCHANGED <<answer, otaCompleted, isOtaMode, baud, loopVars, envVars,
                   attempts, stopCode>>

-----------------------------------------------------------------------------
(* jl_ota_request_update_info: the POST to the update server. *)
RequestUpdateInfo(a) ==
    /\ pc = "info"
    /\ answer' = a
    /\ pc' = "decide"
    /\ UNCHANGED <<tries, otaCompleted, isOtaMode, baud, said, loopVars, envVars,
                   attempts, stopCode>>

(* cJSON_IsTrue holds of the literal true only. *)
OffersUpdate(a) ==
    /\ a.result = "object"
    /\ a.success = "true"
    /\ a.data = "name host port path tlsEnabled"

(* Mutant: the loop condition is inverted. *)
LoopEndInverted(completed) == pc' = IF completed = 1 THEN "info" ELSE "exit"

(* } while (!ota_completed); the exit semaphore is given behind the loop. *)
LoopEnd(completed) == pc' = IF completed = 0 THEN "info" ELSE "exit"

(* No update is to be done: ota_completed keeps the value it had. *)
NoUpdate ==
    /\ pc = "decide" /\ ~OffersUpdate(answer)
    /\ LoopEnd(otaCompleted)
    /\ answer' = NoAnswer
    /\ UNCHANGED <<tries, otaCompleted, isOtaMode, baud, said, loopVars, envVars,
                   attempts, stopCode>>

Update ==
    /\ pc = "decide" /\ OffersUpdate(answer)
    /\ attempts < MaxAttempts
    /\ attempts' = attempts + 1
    /\ stopCode' = NoCode
    /\ answer' = NoAnswer
    /\ pc' = "connect"
    /\ UNCHANGED <<tries, otaCompleted, isOtaMode, baud, said, loopVars, envVars>>

(* Mutant: a failed update leaves ota_completed as it was. *)
UpdateReturnsKeeping(completed) ==
    /\ otaCompleted' = IF completed = 1 THEN 1 ELSE otaCompleted
    /\ LoopEnd(otaCompleted')

(* jl_do_ota_update returns, 1 only after a STOP. *)
UpdateReturns(completed) ==
    /\ otaCompleted' = completed
    /\ LoopEnd(completed)

UpdateFails == UpdateReturns(0) /\ UNCHANGED <<loopVars, said, stopCode>>

(* Mutant: a connection that fails counts as an update done. *)
ConnectCompletes(ok) ==
    /\ pc = "connect"
    /\ IF ok THEN pc' = "init" /\ UNCHANGED <<otaCompleted, loopVars, said, stopCode>>
             ELSE UpdateReturns(1) /\ UNCHANGED <<loopVars, said, stopCode>>
    /\ UNCHANGED <<tries, answer, isOtaMode, baud, envVars, attempts>>

(* httpc_conn_new, httpc_conn_connect. *)
Connect(ok) ==
    /\ pc = "connect"
    /\ IF ok THEN pc' = "init" /\ UNCHANGED <<otaCompleted, loopVars, said, stopCode>>
             ELSE UpdateFails
    /\ UNCHANGED <<tries, answer, isOtaMode, baud, envVars, attempts>>

(* Mutant: the receive side is not switched. *)
JlOtaInitRateOnly ==
    /\ pc = "init"
    /\ said' = "upgrade" /\ baud' = JlBaud
    /\ pc' = "offset"
    /\ UNCHANGED <<tries, answer, otaCompleted, isOtaMode, loopVars, envVars, attempts,
                   stopCode>>

(* jl_ota_init: the receive side is switched first, then the chip is told,  *)
(* then the rate is changed.                                                *)
JlOtaInit ==
    /\ pc = "init"
    /\ isOtaMode' = TRUE
    /\ said' = "upgrade"
    /\ baud' = JlBaud
    /\ pc' = "offset"
    /\ UNCHANGED <<tries, answer, otaCompleted, loopVars, envVars, attempts, stopCode>>

(* get_axk_ota_firmware_offset reads the first 64 bytes of the firmware. *)
FirmwareOffset(ok) ==
    /\ pc = "offset"
    /\ IF ok
       THEN /\ lastOpcode' = "none" /\ modeEntered' = FALSE /\ retryCount' = 0
            /\ pc' = "poll"
            /\ UNCHANGED <<otaCompleted, said, stopCode>>
       ELSE UpdateFails
    /\ UNCHANGED <<tries, answer, isOtaMode, baud, envVars, attempts>>

-----------------------------------------------------------------------------

(* The top of the poll loop: a chip that never spoke is probed with opcode  *)
(* 6 on every third pass; START is repeated until the next packet comes.    *)
Poll ==
    /\ pc = "poll"
    /\ LET probe == ~modeEntered /\ retryCount + 1 = ProbeEvery
           start == lastOpcode = "START"
       IN  /\ retryCount' = IF modeEntered THEN retryCount
                            ELSE IF probe THEN 0 ELSE retryCount + 1
           /\ said' = IF start THEN "START" ELSE IF probe THEN "probe" ELSE said
    /\ pc' = "select"
    /\ UNCHANGED <<tries, answer, otaCompleted, isOtaMode, baud, lastOpcode,
                   modeEntered, envVars, attempts, stopCode>>

(* select() fails or reports an error on a socket, or the HTTP connection   *)
(* turns readable and its header cannot be read: the loop is left.          *)
SelectFails ==
    /\ pc = "select"
    /\ UpdateFails
    /\ UNCHANGED <<tries, answer, isOtaMode, baud, envVars, attempts>>

(* select() times out after 1 s, or only the HTTP connection is drained. *)
SelectTimeout ==
    /\ pc = "select" /\ rpc = <<>>
    /\ pc' = "poll"
    /\ UNCHANGED <<tries, answer, otaCompleted, isOtaMode, baud, said, loopVars,
                   envVars, attempts, stopCode>>

(* Mutant: a STOP is taken to carry no code. *)
AcceptedBareStop(p) == \/ p.op \in {"START", "KEEPALIVE"}
                       \/ p.op \in {"READ", "LEN"} /\ p.lengthOk
                       \/ p.op = "STOP" /\ ~p.lengthOk

(* The packets the switch accepts; the others change last_opcode only. *)
Accepted(p) == \/ p.op \in {"START", "KEEPALIVE"}
               \/ p.op \in {"READ", "STOP", "LEN"} /\ p.lengthOk

(* A READ is answered with firmware fetched over HTTP; the fetch fails and  *)
(* ends the update, or no memory is left and the READ goes unanswered.      *)
ReadOutcomes == {"sent", "http failed", "no memory"}

(* Receiving a packet of the chip, and the switch on its opcode. *)
HandlePacket(outcome) ==
    /\ pc = "select" /\ rpc # <<>>
    /\ LET p    == Head(rpc)
           read == p.op = "READ" /\ Accepted(p)
           stop == p.op = "STOP" /\ Accepted(p)
       IN  /\ ~read => outcome = "sent"
           /\ lastOpcode' = p.op
           /\ modeEntered' = (modeEntered \/ Accepted(p))
           /\ retryCount' = IF p.op = "START" THEN 0 ELSE retryCount
           /\ said' = IF Accepted(p) /\ outcome = "sent" THEN p.op ELSE said
           /\ stopCode' = IF stop THEN p.code ELSE stopCode
           /\ IF stop THEN UpdateReturns(1)
              ELSE IF outcome = "http failed" THEN UpdateReturns(0)
              ELSE pc' = "poll" /\ UNCHANGED otaCompleted
    /\ rpc' = Tail(rpc)
    /\ UNCHANGED <<tries, answer, isOtaMode, baud, packets, attempts, mainRuns>>

-----------------------------------------------------------------------------
(* An HTTP call that never returns.  Both connections are made with timeout *)
(* 0, for which no receive timeout is set on the socket: a server that      *)
(* accepts and then keeps silent holds the task in the TLS handshake, the   *)
(* answer to the POST, the first 64 bytes, a READ, or the header it reads   *)
(* when the connection turns readable.                                      *)
ServerSilent ==
    /\ pc \in {"info", "connect", "offset", "select"}
    /\ pc' = "silent"
    /\ UNCHANGED <<tries, answer, otaCompleted, isOtaMode, baud, said, loopVars, envVars,
                   attempts, stopCode>>

(* A send whose completion went to another sender it collided with          *)
(* (Vb6824Tx): the word has been handed over, the task waits for ever.      *)
SendStranded(word) ==
    /\ \/ pc = "version" /\ word = "version" /\ UNCHANGED rpc
       \/ pc = "init" /\ word = "upgrade" /\ UNCHANGED rpc
       \/ pc = "poll" /\ UNCHANGED rpc
          /\ \/ word = "probe" /\ ~modeEntered /\ retryCount + 1 = ProbeEvery
             \/ word = "START" /\ lastOpcode = "START"
       \/ /\ pc = "select" /\ rpc # <<>> /\ Accepted(Head(rpc))
          /\ word = Head(rpc).op
          /\ rpc' = Tail(rpc)
    /\ said' = word
    /\ isOtaMode' = (isOtaMode \/ word = "upgrade")
    /\ pc' = "stranded"
    /\ UNCHANGED <<tries, answer, otaCompleted, baud, loopVars, packets, mainRuns, attempts,
                   stopCode>>

-----------------------------------------------------------------------------
(* External: a packet of the chip, parsed and forwarded by the receive task *)
(* (which does so in OTA mode only), at the rate of the chip's loader; a    *)
(* full socket drops it.                                                    *)
ChipSends(p) ==
    /\ isOtaMode /\ baud = JlBaud /\ packets < MaxPackets
    /\ packets' = packets + 1
    /\ rpc' = IF Len(rpc) < RpcSlots THEN Append(rpc, p) ELSE rpc
    /\ UNCHANGED <<pc, tries, answer, otaCompleted, isOtaMode, baud, said, loopVars,
                   attempts, stopCode, mainRuns>>

(* vb6824_wait_for_ota_exited in the main task. *)
MainProceeds ==
    /\ pc = "exit" /\ ~mainRuns
    /\ mainRuns' = TRUE
    /\ UNCHANGED <<pc, tries, answer, otaCompleted, isOtaMode, baud, said, loopVars,
                   rpc, packets, attempts, stopCode>>

OtaStep ==
    \/ \E ok \in BOOLEAN : Setup(ok) \/ GetVersion(ok) \/ Connect(ok)
                           \/ FirmwareOffset(ok)
    \/ \E a \in Answers : RequestUpdateInfo(a)
    \/ NoUpdate \/ Update
    \/ JlOtaInit \/ Poll \/ SelectFails \/ SelectTimeout
    \/ \E o \in ReadOutcomes : HandlePacket(o)
    \/ ServerSilent \/ \E word \in Words : SendStranded(word)

Next == OtaStep \/ MainProceeds \/ \E p \in Packets : ChipSends(p)

Spec == Init /\ [][Next]_vars

(* The two tasks are scheduled.  That a call returns is not assumed: one    *)
(* that does not is a step too (ServerSilent, SendStranded), and the last.  *)
(* Chip and servers owe nothing.                                            *)
FairSpec == Spec /\ WF_vars(OtaStep) /\ WF_vars(MainProceeds)

-----------------------------------------------------------------------------
TypeOK ==
    /\ pc \in {"setup", "version", "info", "decide", "connect", "init", "offset", "poll",
               "select", "exit", "silent", "stranded"}
    /\ tries \in 0..MaxTries
    /\ answer \in Answers
    /\ otaCompleted \in {0, 1}
    /\ isOtaMode \in BOOLEAN
    /\ baud \in {VoiceBaud, JlBaud}
    /\ said \in Words
    /\ lastOpcode \in Opcodes \cup {"none"}
    /\ modeEntered \in BOOLEAN
    /\ retryCount \in 0..(ProbeEvery - 1)
    /\ rpc \in Seq(Packets) /\ Len(rpc) <= RpcSlots
    /\ packets \in 0..MaxPackets
    /\ attempts \in 0..MaxAttempts
    /\ stopCode \in Codes \cup {NoCode}
    /\ mainRuns \in BOOLEAN

InUpdate == pc \in {"offset", "poll", "select"}

(* Once an update has been begun, the main task is released only after an   *)
(* update whose STOP was answered: a broken connection, a failed read or a  *)
(* refused offer in between never lets the voice application start against  *)
(* a chip that is still in its upgrade loader.                              *)
ReleasedAfterStop == mainRuns => attempts = 0 \/ stopCode # NoCode

(* The chip is spoken to in its upgrade protocol only at the upgrade rate   *)
(* and with the receive side listening for upgrade packets, and is asked    *)
(* for its version only before any of that.                                 *)
SpeaksOneProtocol ==
    /\ said \in JlWords => isOtaMode /\ baud = JlBaud
    /\ said = "version" => ~isOtaMode /\ baud = VoiceBaud

(* The upgrade task is in a call that never returns. *)
Hung == pc \in {"silent", "stranded"}

(* The check for an update ends: a boot without an update to do releases    *)
(* the main task, whatever the servers answer or fail to accept.  Only a    *)
(* server that accepts a connection and then says nothing, or a request for *)
(* the version that collides with another sender, keeps the boot for ever.  *)
CheckEnds == <>(attempts > 0 \/ mainRuns \/ Hung)
=============================================================================
