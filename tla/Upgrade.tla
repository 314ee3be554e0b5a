------------------------------- MODULE Upgrade -------------------------------
(***************************************************************************)
(* The upgrade task of JlOta together with the chip it upgrades.           *)
(*                                                                         *)
(* The chip follows jl_ota_protocol.pdf: REQUEST_UPGRADE, understood by    *)
(* its application at the voice rate, takes it into its loader; the loader *)
(* talks at the upgrade rate, asks for one thing after the other, repeats  *)
(* what was not answered, may announce that it is alive, and restarts into *)
(* the application once its STOP is answered.                              *)
(*                                                                         *)
(* The two lines, the HTTP server and the update server fail a bounded     *)
(* number of times; the receive path between chip and upgrade task is      *)
(* taken at what Vb6824Rx shows of it: it loses a packet, or it is wedged  *)
(* by a voice frame longer than 16 bytes from the moment the mode changes. *)
(***************************************************************************)
EXTENDS JlOta

CONSTANTS
    Script,         \* what the loader asks for, opcode by opcode, before STOP
    MaxFaults,      \* bound: failures of lines, servers and memory
    MaxResets       \* bound: unexpected restarts of the chip

ASSUME UpgradeAssumption ==
    /\ Script \in Seq(Opcodes \ {"STOP", "unknown"})
    /\ {MaxFaults, MaxResets} \subseteq Nat

VARIABLES
    chip,           \* "app", or "loader"
    at,             \* the loader's place in the script; past it, it stops
    verdict,        \* the code of the loader's STOP
    resets,         \* unexpected restarts of the chip so far
    faults,         \* failures left
    wedged,         \* the receive path is blocked for good
    missed          \* history: the host upgrades a chip that is not in its loader

chipVars   == <<chip, at, verdict, resets, missed>>
upgradeVars == <<vars, chipVars, faults, wedged>>

UpgradeInit ==
    /\ Init
    /\ chip = "app" /\ at = 0 /\ verdict = NoCode /\ resets = 0 /\ missed = FALSE
    /\ faults = MaxFaults
    /\ wedged = FALSE

-----------------------------------------------------------------------------
Stopping == at > Len(Script)

(* What the loader waits for. *)
Wanted == IF Stopping THEN "STOP" ELSE Script[at]

(* The chip receives a word sent at a rate: its application understands the *)
(* request to upgrade at the voice rate, the loader the answer it waits for *)
(* at the upgrade rate; all else is noise to it.                            *)
Hears(word, rate) ==
    IF chip = "app" /\ word = "upgrade" /\ rate = VoiceBaud
    THEN chip' = "loader" /\ at' = 1 /\ verdict' = NoCode
    ELSE IF chip = "loader" /\ word = Wanted /\ rate = JlBaud
    THEN IF Stopping THEN chip' = "app" /\ at' = 0 /\ UNCHANGED verdict
                     ELSE at' = at + 1 /\ UNCHANGED <<chip, verdict>>
    ELSE UNCHANGED <<chip, at, verdict>>

Fault == faults > 0 /\ faults' = faults - 1

(* A word on the line to the chip, at the rate set before the step: heard,  *)
(* or lost.                                                                 *)
Line(word) ==
    /\ \/ Hears(word, baud) /\ UNCHANGED faults
       \/ Fault /\ UNCHANGED <<chip, at, verdict>>
    /\ UNCHANGED resets

-----------------------------------------------------------------------------
(* Steps of the upgrade task that neither fail nor speak to the loader.     *)
Quietly ==
    /\ \/ Setup(TRUE) \/ \E answered \in BOOLEAN : GetVersion(answered)
       \/ NoUpdate \/ Update \/ Connect(TRUE) \/ FirmwareOffset(TRUE) \/ SelectTimeout
       \/ rpc # <<>> /\ ~Accepted(Head(rpc)) /\ HandlePacket("sent")
    /\ UNCHANGED <<chipVars, faults, wedged>>

(* Before an update is begun the server may answer anything; once it has    *)
(* offered one, not offering it again is a failure.                         *)
AskServer ==
    /\ \E a \in Answers :
         /\ RequestUpdateInfo(a)
         /\ IF attempts = 0 \/ OffersUpdate(a) THEN UNCHANGED faults ELSE Fault
    /\ UNCHANGED <<chipVars, wedged>>

(* The HTTP connection fails somewhere, or memory does. *)
HostFails ==
    /\ Fault
    /\ \/ Connect(FALSE) \/ FirmwareOffset(FALSE) \/ SelectFails
       \/ HandlePacket("http failed") \/ HandlePacket("no memory")
    /\ UNCHANGED <<chipVars, wedged>>

(* A server keeps silent, or a send collides and its word is heard or lost. *)
HostHangs ==
    /\ \/ ServerSilent /\ UNCHANGED <<chip, at, verdict, resets, faults>>
       \/ \E word \in Words : SendStranded(word) /\ Line(word)
    /\ UNCHANGED <<missed, wedged>>

(* jl_ota_init.  The request goes out at the rate in force: at a second     *)
(* attempt that is the upgrade rate already.  Voice frames in the message   *)
(* buffer may wedge the receive path from here on.                          *)
EnterUpgrade ==
    /\ JlOtaInit
    /\ Line("upgrade")
    /\ missed' = (chip' = "app")
    /\ wedged' \in {wedged} \cup (IF isOtaMode THEN {} ELSE {TRUE})

(* The top of the loop: a probe, which the loader ignores, or START again. *)
PollChip ==
    /\ Poll
    /\ IF lastOpcode = "START" THEN Line("START") ELSE UNCHANGED <<chip, at, verdict, resets, faults>>
    /\ UNCHANGED <<missed, wedged>>

(* A packet of the chip is answered. *)
AnswerPacket ==
    /\ rpc # <<>> /\ Accepted(Head(rpc))
    /\ HandlePacket("sent")
    /\ Line(Head(rpc).op)
    /\ UNCHANGED <<missed, wedged>>

-----------------------------------------------------------------------------
(* The loader asks, or asks again: the packet gets through to the socket,   *)
(* is dropped by a full one, or is lost before it.                          *)
Forward(p) ==
    /\ isOtaMode /\ baud = JlBaud /\ ~wedged
    /\ \/ /\ rpc' = IF Len(rpc) < RpcSlots THEN Append(rpc, p) ELSE rpc
          /\ UNCHANGED faults
       \/ Fault /\ UNCHANGED rpc
    /\ UNCHANGED <<pc, tries, answer, otaCompleted, isOtaMode, baud, said, loopVars, packets,
                   attempts, stopCode, mainRuns, chip, at, resets, missed, wedged>>

LoaderAsks ==
    /\ chip = "loader" /\ ~Stopping
    /\ Forward([op |-> Wanted, lengthOk |-> TRUE, code |-> NoCode])
    /\ UNCHANGED verdict

(* The loader gives up, whatever it waits for. *)
LoaderGivesUp ==
    /\ chip = "loader" /\ ~Stopping
    /\ at' = Len(Script) + 1
    /\ verdict' = "failure"
    /\ UNCHANGED <<vars, chip, resets, missed, faults, wedged>>

(* The loader is through and says how it went, until it is answered. *)
LoaderStops ==
    /\ chip = "loader" /\ Stopping
    /\ verdict' \in IF verdict # NoCode THEN {verdict} ELSE Codes
    /\ Forward([op |-> "STOP", lengthOk |-> TRUE, code |-> verdict'])

(* Its announcements are seconds apart, longer than the host needs for one. *)
LoaderAlive ==
    /\ chip = "loader" /\ rpc = <<>>
    /\ Forward([op |-> "KEEPALIVE", lengthOk |-> TRUE, code |-> NoCode])
    /\ UNCHANGED verdict

(* The chip restarts by itself, into the application it has. *)
ChipRestarts ==
    /\ chip = "loader" /\ resets < MaxResets
    /\ chip' = "app" /\ at' = 0
    /\ resets' = resets + 1
    /\ missed' = TRUE
    /\ UNCHANGED <<vars, verdict, faults, wedged>>

MainReleased == MainProceeds /\ UNCHANGED <<chipVars, faults, wedged>>

OtaTask ==
    \/ Quietly \/ AskServer \/ HostFails \/ HostHangs
    \/ EnterUpgrade \/ PollChip \/ AnswerPacket

UpgradeNext ==
    \/ OtaTask \/ MainReleased
    \/ LoaderAsks \/ LoaderGivesUp \/ LoaderStops \/ LoaderAlive \/ ChipRestarts

(* The upgrade task is scheduled (a call that never returns is its last     *)
(* step), the main task too, and the loader repeats what it asks for.       *)
UpgradeSpec ==
    /\ UpgradeInit /\ [][UpgradeNext]_upgradeVars
    /\ WF_upgradeVars(OtaTask) /\ WF_upgradeVars(MainReleased)
    /\ WF_upgradeVars(LoaderAsks) /\ WF_upgradeVars(LoaderStops)

-----------------------------------------------------------------------------
(* Types of the composition. *)
ChipTypes ==
    /\ chip \in {"app", "loader"} /\ at \in 0..(Len(Script) + 1)
    /\ verdict \in Codes \cup {NoCode}
    /\ resets \in 0..MaxResets /\ faults \in 0..MaxFaults
UpgradeTypeOK == TypeOK /\ ChipTypes /\ {wedged, missed} \subseteq BOOLEAN

(* The main task is not released while the chip is in the middle of an      *)
(* upgrade: at most the answer to its STOP is still missing.  Failed        *)
(* attempts, packets left over from them and lost answers do not matter.    *)
NotReleasedInLoader == mainRuns /\ chip = "loader" => Stopping

(* The types of the composition, and a main task held during the upgrade.   *)
UpgradeInv == UpgradeTypeOK /\ NotReleasedInLoader

(* The outcome the host was told is the chip's own: a STOP is never one of  *)
(* an earlier attempt that ended differently.  The code of it is all that   *)
(* tells an upgrade that failed from one that succeeded, for the main task  *)
(* is released after both.                                                  *)
OutcomeIsTheChips == mainRuns /\ attempts > 0 => stopCode = verdict

(* When the main task goes on, host and chip understand each other exactly  *)
(* if this boot completed no upgrade: a check that found none, or attempts  *)
(* that never reached the chip, leave rate and receive mode as the voice    *)
(* application needs them; a completed one does not set them back.          *)
Together == chip = "app" /\ ~isOtaMode /\ baud = VoiceBaud
InStepUnlessUpgraded == mainRuns => (Together <=> stopCode = NoCode)

(* An upgrade ends and the main task goes on, through refused and broken    *)
(* connections, second attempts and lost packets, as long as the request to *)
(* upgrade was heard, the chip stays in its loader, the receive path is not *)
(* wedged, no server keeps an accepted connection silent and no send of the *)
(* upgrade task collides.  Otherwise nothing brings it back: a second       *)
(* request goes out at a rate the chip's application does not listen at,    *)
(* and neither a read from a silent server nor a stranded send times out.   *)
UpgradeEnds == (attempts > 0) ~> (mainRuns \/ missed \/ wedged \/ Hung)
=============================================================================
