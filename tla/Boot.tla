-------------------------------- MODULE Boot --------------------------------
(***************************************************************************)
(* Start-up of example/qwen: the tasks that run before the dialog does and *)
(* meet on the link to the voice chip and on the version queue.            *)
(*                                                                         *)
(*   main    qwen_sdk_init_routine up to vb6824_wait_for_ota_exited        *)
(*   ota     jl_ota_routine: asks the chip's version, asks the server for  *)
(*           an update and makes it (Upgrade has the update in detail)     *)
(*   recv    vb6824_recv_routine: posts versions, has the wake word        *)
(*           answered with a sound                                         *)
(*   player  player_routine, with that sound                               *)
(*                                                                         *)
(* Nothing orders main and ota until main waits for ota's exit: ota does   *)
(* not call ota_wait_for_wifi_connection, and main looks for the network   *)
(* once a second.  Version strings are numbered as they are allocated.     *)
(***************************************************************************)
EXTENDS Naturals, Sequences

CONSTANTS
    MaxTries,       \* version requests, 5 in the code
    Chunks,         \* sends of 320 bytes a sound takes
    MaxPackets,     \* bound: answers sent during one attempt at the update
    MaxWakes        \* bound: wake words

ASSUME BootAssumption ==
    {MaxTries, Chunks, MaxPackets} \subseteq Nat \ {0} /\ MaxWakes \in Nat

VARIABLES
    online,         \* the Wi-Fi station has an address
    sntp, timed,    \* sntp_init was called; timestamp_inited
    main,
    ota, tries,     \* jl_ota_routine, and the version requests it has made
    version,        \* the string it holds, 0 for none
    exited,         \* jl_ota_exited_sem
    isOtaMode,      \* f_is_ota_mode
    packets,        \* answers sent in this attempt
    recv, posting,  \* the receive task, and the string it is about to post
    versionQ,       \* vb6824_version_queue
    mb,             \* voice frames in vb6824_recv_frame_mb
    owed,           \* requests the chip has still to answer
    left,           \* sends left of the player's sound
    allocated, freed,   \* history: strings allocated; how often each was freed
    stray,          \* history: voice frames sent since the switch to upgrade mode
    wakes,
    phase, running, token, stranded, overlapped     \* the link to the chip

Senders == {"main", "ota", "player"}
Link == INSTANCE SharedLink WITH MayRunOut <- FALSE

worldVars == <<online, sntp, timed>>
otaVars   == <<ota, tries, version, exited, isOtaMode, packets>>
recvVars  == <<recv, posting>>
heapVars  == <<allocated, freed>>
linkVars  == <<phase, running, token, stranded, overlapped>>
vars == <<worldVars, main, otaVars, recvVars, versionQ, mb, owed, left, heapVars, stray,
          wakes, linkVars>>

Init ==
    /\ online \in BOOLEAN /\ sntp = FALSE /\ timed = FALSE
    /\ main = "network"
    /\ ota = "setup" /\ tries = 0 /\ version = 0 /\ exited = 0
    /\ isOtaMode = FALSE /\ packets = 0
    /\ recv = "frame" /\ posting = 0
    /\ versionQ = <<>> /\ mb = <<>> /\ owed = 0 /\ left = 0
    /\ allocated = 0 /\ freed = [v \in 1..MaxTries |-> 0]
    /\ stray = 0 /\ wakes = 0
    /\ Link!Init

(* vb6824_send with a frame of the voice protocol: stray once in upgrade mode. *)
SendVoice(s) ==
    /\ Link!Begin(s)
    /\ stray' = IF isOtaMode THEN stray + 1 ELSE stray

-----------------------------------------------------------------------------
(* The world: the station connects, a time server answers. *)
NetworkUp ==
    /\ ~online
    /\ online' = TRUE
    /\ UNCHANGED <<sntp, timed, main, otaVars, recvVars, versionQ, mb, owed, left, heapVars,
                   stray, wakes, linkVars>>

(* on_sntp_time_updated *)
TimeUpdated ==
    /\ sntp /\ online /\ ~timed
    /\ timed' = TRUE
    /\ UNCHANGED <<online, sntp, main, otaVars, recvVars, versionQ, mb, owed, left, heapVars,
                   stray, wakes, linkVars>>

-----------------------------------------------------------------------------
(* qwen_sdk_init_routine *)
SeeNetwork ==
    /\ main = "network" /\ online
    /\ sntp' = TRUE
    /\ main' = "record"
    /\ UNCHANGED <<online, timed, otaVars, recvVars, versionQ, mb, owed, left, heapVars, stray,
                   wakes, linkVars>>

(* vb6824_send(STOP_RECORD), then vb6824_set_volume. *)
MainSends ==
    /\ main \in {"record", "volume"}
    /\ SendVoice("main")
    /\ UNCHANGED <<worldVars, main, otaVars, recvVars, versionQ, mb, owed, left, heapVars, wakes>>

MainSent ==
    /\ main \in {"record", "volume"}
    /\ Link!Return("main")
    /\ main' = IF main = "record" THEN "volume" ELSE "time"
    /\ UNCHANGED <<worldVars, otaVars, recvVars, versionQ, mb, owed, left, heapVars, stray, wakes>>

SeeTime ==
    /\ main = "time" /\ timed
    /\ main' = "wait"
    /\ UNCHANGED <<worldVars, otaVars, recvVars, versionQ, mb, owed, left, heapVars, stray, wakes,
                   linkVars>>

WaitOtaExited ==
    /\ main = "wait" /\ exited = 1
    /\ exited' = 0
    /\ main' = "run"
    /\ UNCHANGED <<worldVars, ota, tries, version, isOtaMode, packets, recvVars, versionQ, mb,
                   owed, left, heapVars, stray, wakes, linkVars>>

-----------------------------------------------------------------------------
(* jl_ota_routine: without a device name or its socket it only exits. *)
OtaSetup ==
    /\ ota = "setup"
    /\ ota' \in {"ask", "exit"}
    /\ UNCHANGED <<worldVars, main, tries, version, exited, isOtaMode, packets, recvVars, versionQ,
                   mb, owed, left, heapVars, stray, wakes, linkVars>>

(* vb6824_get_version: a request, and a wait of three seconds for a string. *)
AskVersion ==
    /\ ota = "ask"
    /\ Link!Begin("ota")
    /\ tries' = tries + 1
    /\ UNCHANGED <<worldVars, main, ota, version, exited, isOtaMode, packets, recvVars, versionQ,
                   mb, owed, left, heapVars, stray, wakes>>

VersionAsked ==
    /\ ota = "ask"
    /\ Link!Return("ota")
    /\ ota' = "await"
    /\ UNCHANGED <<worldVars, main, tries, version, exited, isOtaMode, packets, recvVars, versionQ,
                   mb, owed, left, heapVars, stray, wakes>>

GetVersion ==
    /\ ota = "await" /\ versionQ # <<>>
    /\ version' = Head(versionQ)
    /\ versionQ' = <<>>
    /\ ota' = "info"
    /\ UNCHANGED <<worldVars, main, tries, exited, isOtaMode, packets, recvVars, mb, owed, left,
                   heapVars, stray, wakes, linkVars>>

VersionTimeout ==
    /\ ota = "await" /\ versionQ = <<>>
    /\ ota' = IF tries < MaxTries THEN "ask" ELSE "info"
    /\ UNCHANGED <<worldVars, main, tries, version, exited, isOtaMode, packets, recvVars, versionQ,
                   mb, owed, left, heapVars, stray, wakes, linkVars>>

(* jl_ota_request_update_info and the decision over its answer.  Offline,   *)
(* or with no update to make, the loop ends; after a failed attempt, when   *)
(* ota_completed is still 0, it does not.                                   *)
NoUpdate ==
    /\ ota \in {"info", "again"}
    /\ ota' = IF ota = "info" THEN "exit" ELSE "again"
    /\ UNCHANGED <<worldVars, main, tries, version, exited, isOtaMode, packets, recvVars, versionQ,
                   mb, owed, left, heapVars, stray, wakes, linkVars>>

Offered ==
    /\ ota \in {"info", "again"} /\ online
    /\ ota' = "connect"
    /\ packets' = 0
    /\ UNCHANGED <<worldVars, main, tries, version, exited, isOtaMode, recvVars, versionQ, mb, owed,
                   left, heapVars, stray, wakes, linkVars>>

(* httpc_conn_new and httpc_conn_connect to the firmware server.  A failure *)
(* ends the attempt before jl_ota_init, with ota_completed 0: the server is *)
(* asked again.                                                             *)
ConnectServer ==
    /\ ota = "connect"
    /\ ota' \in {"enter", "again"}
    /\ UNCHANGED <<worldVars, main, tries, version, exited, isOtaMode, packets, recvVars, versionQ,
                   mb, owed, left, heapVars, stray, wakes, linkVars>>

(* A server accepts a connection and says no more: no receive timeout is    *)
(* set on it, and the task never gets out of the HTTP call.                 *)
ServerSilent ==
    /\ ota \in {"info", "again", "connect", "update"} /\ online /\ phase["ota"] = "idle"
    /\ ota' = "silent"
    /\ UNCHANGED <<worldVars, main, tries, version, exited, isOtaMode, packets, recvVars, versionQ,
                   mb, owed, left, heapVars, stray, wakes, linkVars>>

(* jl_ota_init: the mode first, then the request. *)
EnterUpgrade ==
    /\ ota = "enter"
    /\ Link!Begin("ota")
    /\ isOtaMode' = TRUE
    /\ UNCHANGED <<worldVars, main, ota, tries, version, exited, packets, recvVars, versionQ, mb,
                   owed, left, heapVars, stray, wakes>>

UpgradeEntered ==
    /\ ota = "enter"
    /\ Link!Return("ota")
    /\ ota' = "update"
    /\ UNCHANGED <<worldVars, main, tries, version, exited, isOtaMode, packets, recvVars, versionQ,
                   mb, owed, left, heapVars, stray, wakes>>

(* jl_uart_send_packet, for each request of the chip. *)
AnswerChip ==
    /\ ota = "update" /\ packets < MaxPackets
    /\ Link!Begin("ota")
    /\ UNCHANGED <<worldVars, main, otaVars, recvVars, versionQ, mb, owed, left, heapVars, stray,
                   wakes>>

ChipAnswered ==
    /\ ota = "update"
    /\ Link!Return("ota")
    /\ packets' = packets + 1
    /\ UNCHANGED <<worldVars, main, ota, tries, version, exited, isOtaMode, recvVars, versionQ, mb,
                   owed, left, heapVars, stray, wakes>>

(* STOP was answered, or the firmware could not be fetched. *)
UpdateEnds ==
    /\ ota = "update" /\ phase["ota"] = "idle"
    /\ ota' \in {"exit", "again"}
    /\ UNCHANGED <<worldVars, main, tries, version, exited, isOtaMode, packets, recvVars, versionQ,
                   mb, owed, left, heapVars, stray, wakes, linkVars>>

Free(v) == freed' = [freed EXCEPT ![v] = @ + 1]

(* Mutant: the exit is not announced when no version came. *)
OtaExitQuiet ==
    /\ ota = "exit"
    /\ ota' = "gone"
    /\ IF version = 0 THEN UNCHANGED <<version, exited, freed>>
       ELSE Free(version) /\ version' = 0 /\ exited' = 1
    /\ UNCHANGED <<worldVars, main, tries, isOtaMode, packets, recvVars, versionQ, mb, owed, left,
                   allocated, stray, wakes, linkVars>>

OtaExit ==
    /\ ota = "exit"
    /\ IF version = 0 THEN UNCHANGED <<version, freed>>
       ELSE Free(version) /\ version' = 0
    /\ exited' = 1
    /\ ota' = "gone"
    /\ UNCHANGED <<worldVars, main, tries, isOtaMode, packets, recvVars, versionQ, mb, owed, left,
                   allocated, stray, wakes, linkVars>>

-----------------------------------------------------------------------------
(* The chip in voice mode: it answers a request it heard, or reports the    *)
(* wake word, and the handler of the UART puts the frame into the buffer.   *)
ReportVersion ==
    /\ ~isOtaMode /\ owed > 0
    /\ owed' = owed - 1
    /\ mb' = Append(mb, "version")
    /\ UNCHANGED <<worldVars, main, otaVars, recvVars, versionQ, left, heapVars, stray, wakes,
                   linkVars>>

ReportWake ==
    /\ ~isOtaMode /\ wakes < MaxWakes
    /\ wakes' = wakes + 1
    /\ mb' = Append(mb, "wake")
    /\ UNCHANGED <<worldVars, main, otaVars, recvVars, versionQ, owed, left, heapVars, stray,
                   linkVars>>

(* Where vb6824_recv_routine waits next: the mode is looked at before it    *)
(* waits, so a wait that began before the upgrade takes one more message    *)
(* for a frame.  (Mutant: the mode is looked at only once, at the start.)   *)
AgainFrame == recv' = "frame"
Again == recv' = IF isOtaMode THEN "packet" ELSE "frame"

(* A version: a string is allocated for it, or there is no memory. *)
RecvVersion ==
    /\ recv = "frame" /\ mb # <<>> /\ Head(mb) = "version"
    /\ mb' = Tail(mb)
    /\ \/ /\ allocated' = allocated + 1 /\ posting' = allocated + 1
          /\ recv' = "post"
       \/ Again /\ UNCHANGED <<allocated, posting>>
    /\ UNCHANGED <<worldVars, main, otaVars, versionQ, owed, left, freed, stray, wakes, linkVars>>

(* The loop of xQueueSend and, while that finds the queue full, of          *)
(* xQueueReceive and vPortFree.                                             *)
Post ==
    /\ recv = "post"
    /\ IF versionQ = <<>>
       THEN versionQ' = <<posting>> /\ posting' = 0 /\ Again
       ELSE recv' = "discard" /\ UNCHANGED <<versionQ, posting>>
    /\ UNCHANGED <<worldVars, main, otaVars, mb, owed, left, heapVars, stray, wakes, linkVars>>

(* Mutant: the string is taken and not freed. *)
DiscardLeaking ==
    /\ recv = "discard"
    /\ recv' = IF versionQ = <<>> THEN "post" ELSE recv
    /\ versionQ' = <<>>
    /\ UNCHANGED <<worldVars, main, otaVars, posting, mb, owed, left, heapVars, stray, wakes,
                   linkVars>>

Discard ==
    /\ recv = "discard"
    /\ IF versionQ = <<>> THEN recv' = "post" /\ UNCHANGED <<versionQ, freed>>
       ELSE versionQ' = <<>> /\ Free(Head(versionQ)) /\ UNCHANGED recv
    /\ UNCHANGED <<worldVars, main, otaVars, posting, mb, owed, left, allocated, stray, wakes,
                   linkVars>>

(* The wake word: the sound goes to the player, and the task waits for it. *)
RecvWake ==
    /\ recv = "frame" /\ mb # <<>> /\ Head(mb) = "wake"
    /\ mb' = Tail(mb)
    /\ left' = Chunks
    /\ recv' = "sound"
    /\ UNCHANGED <<worldVars, main, otaVars, posting, versionQ, owed, heapVars, stray, wakes,
                   linkVars>>

SoundPlayed ==
    /\ recv = "sound" /\ left = 0
    /\ Again
    /\ UNCHANGED <<worldVars, main, otaVars, posting, versionQ, mb, owed, left, heapVars, stray,
                   wakes, linkVars>>

(* A packet of the upgrade taken for a frame, and packets or frames still   *)
(* in the buffer passed on to the update task.                              *)
RecvPacket ==
    /\ isOtaMode
    /\ \/ recv = "frame" /\ mb = <<>> /\ UNCHANGED mb
       \/ recv = "packet" /\ mb # <<>> /\ mb' = Tail(mb)
    /\ Again
    /\ UNCHANGED <<worldVars, main, otaVars, posting, versionQ, owed, left, heapVars, stray, wakes,
                   linkVars>>

-----------------------------------------------------------------------------
PlaySound ==
    /\ left > 0
    /\ SendVoice("player")
    /\ UNCHANGED <<worldVars, main, otaVars, recvVars, versionQ, mb, owed, left, heapVars, wakes>>

PieceSent ==
    /\ Link!Return("player")
    /\ left' = left - 1
    /\ UNCHANGED <<worldVars, main, otaVars, recvVars, versionQ, mb, owed, heapVars, stray, wakes>>

-----------------------------------------------------------------------------
(* The driver's part of the sends in progress.  The chip hears a version    *)
(* request whose transfer is made, and may not answer it.                   *)
Transfer ==
    /\ Link!Complete \/ \E s \in Senders : Link!Progress(s)
    /\ IF ota = "ask" /\ Link!Start("ota") THEN owed' \in {owed, owed + 1} ELSE UNCHANGED owed
    /\ UNCHANGED <<worldVars, main, otaVars, recvVars, versionQ, mb, left, heapVars, stray, wakes>>

World  == NetworkUp \/ TimeUpdated
Main   == SeeNetwork \/ MainSends \/ MainSent \/ SeeTime \/ WaitOtaExited
Ota    == \/ OtaSetup \/ AskVersion \/ VersionAsked \/ GetVersion \/ VersionTimeout
          \/ NoUpdate \/ Offered \/ ConnectServer \/ ServerSilent \/ EnterUpgrade
          \/ UpgradeEntered \/ AnswerChip \/ ChipAnswered \/ UpdateEnds \/ OtaExit
Recv   == \/ RecvVersion \/ Post \/ Discard \/ RecvWake \/ SoundPlayed \/ RecvPacket
Player == PlaySound \/ PieceSent
Chip   == ReportVersion \/ ReportWake

Next == ~overlapped /\ (World \/ Main \/ Ota \/ Recv \/ Player \/ Chip \/ Transfer)

Spec == Init /\ [][Next]_vars

(* The scheduler runs every ready task and a started transfer completes;    *)
(* the network comes up and a time server answers in the end.  That the     *)
(* update server, asked again after a failed attempt, offers another is not *)
(* assumed, nor that a server which accepted a connection ever speaks.      *)
FairSpec ==
    /\ Spec
    /\ WF_vars(~overlapped /\ World)
    /\ WF_vars(~overlapped /\ Main)
    /\ WF_vars(~overlapped /\ ota # "again" /\ Ota)
    /\ WF_vars(~overlapped /\ Recv)
    /\ WF_vars(~overlapped /\ Player)
    /\ WF_vars(~overlapped /\ Transfer)

-----------------------------------------------------------------------------
TaskTypes ==
    /\ main \in {"network", "record", "volume", "time", "wait", "run"}
    /\ ota \in {"setup", "ask", "await", "info", "connect", "enter", "update",
               "again", "silent", "exit", "gone"}
    /\ recv \in {"frame", "packet", "post", "discard", "sound"}
CountTypes ==
    /\ tries \in 0..MaxTries /\ packets \in 0..MaxPackets /\ left \in 0..Chunks
    /\ exited \in 0..1 /\ stray \in Nat /\ wakes \in 0..MaxWakes
VersionTypes ==
    /\ owed \in 0..MaxTries /\ mb \in Seq({"version", "wake"})
    /\ versionQ \in {<<>>} \cup {<<v>> : v \in 1..MaxTries}
    /\ version \in 0..MaxTries /\ posting \in 0..MaxTries
    /\ allocated \in 0..MaxTries /\ freed \in [1..MaxTries -> Nat]
LinkTypes ==
    /\ phase \in [Senders -> {"idle", "sending", "waiting"}]
    /\ token \in 0..1 /\ stranded \in Nat
FlagTypes == {online, sntp, timed, isOtaMode, running, overlapped} \subseteq BOOLEAN
TypeOK == TaskTypes /\ CountTypes /\ VersionTypes /\ LinkTypes /\ FlagTypes

(* However the receive task's discarding and the update task's receiving    *)
(* interleave, a version string has one owner, the queue or one of the      *)
(* tasks, until it is freed, once: none leaks and none is freed twice.  The *)
(* string of a late answer stays in the queue, one at most.                 *)
Owners(v) == {o \in {"queue", "recv", "ota"} :
                \/ o = "queue" /\ versionQ = <<v>>
                \/ o = "recv" /\ posting = v
                \/ o = "ota" /\ version = v}
VersionsAccounted ==
    \A v \in 1..allocated :
        \/ freed[v] = 1 /\ Owners(v) = {}
        \/ freed[v] = 0 /\ \E o \in {"queue", "recv", "ota"} : Owners(v) = {o}

(* The types of the boot, and version strings with one owner each.          *)
BootInv == TypeOK /\ VersionsAccounted

(* The upgrade may begin before main has noticed the network, so voice      *)
(* frames still go out to a chip in upgrade mode: main's two and the one    *)
(* sound that answers a wake word, never more: after them main waits for    *)
(* the update task, and the receive task takes nothing for a frame.         *)
FewStrayFrames == stray <= 2 + Chunks

(* Main gets to the dialog, with or without a version, whether the servers  *)
(* refuse, fail or offer nothing, and also after an update that was made.   *)
(* It does not if tasks collided on the link to the chip, if a server       *)
(* accepted a connection and keeps silent, or if the update task, once an   *)
(* update was offered, never completes it: an attempt that fails, even      *)
(* before the chip was told anything, is repeated until one has ended with  *)
(* STOP, and main waits for that.                                           *)
Unfinished == ota \in {"connect", "enter", "update", "again"}
BootCompletes ==
    <>(main = "run") \/ <>Link!Collision \/ <>(ota = "silent") \/ <>[]Unfinished
=============================================================================
