------------------------------- MODULE Dialog -------------------------------
(***************************************************************************)
(* The voice dialog of example/qwen/example_qwen.c: the tasks that want a  *)
(* local sound played or the cloud's speech heard, and the player task     *)
(* they reach through a queue set.                                         *)
(*                                                                         *)
(*   recv    the receive task, in vb6824_on_report_asr and _record         *)
(*   cb      mmi_event_callback, on the main task's web-socket loop        *)
(*   player  player_routine                                                *)
(*                                                                         *)
(* The set holds the one-slot queue s_local_sound_q and the binary         *)
(* semaphore s_player_sem.  Which sound it is makes no difference: sounds  *)
(* are numbered as they are queued.  Player and callback send to the chip  *)
(* over one SharedLink, and may collide there.  The cloud SDK is a library *)
(* in binary form: its events are taken in any order its state allows.     *)
(***************************************************************************)
EXTENDS Naturals, Sequences

CONSTANTS
    Chunks,         \* sends of 320 bytes a sound takes
    Part,           \* pieces of speech that fill the 320 bytes of a send
    MaxSounds,      \* bound: sounds queued
    MaxWakes,       \* bound: wake words
    MaxSpeeches,    \* bound: answers spoken
    MaxAudio        \* pieces of speech the SDK's ring buffer holds

ASSUME DialogAssumption ==
    /\ {Chunks, Part} \subseteq Nat \ {0}
    /\ {MaxSounds, MaxWakes, MaxSpeeches, MaxAudio} \subseteq Nat

VARIABLES
    soundQ,         \* s_local_sound_q
    playerSem,      \* s_player_sem
    doneSem,        \* s_local_sound_play_done_sem
    qset,           \* the queue set: handles of members with something in them
    recv, mine,     \* the receive task, and the sound it queued last
    cb,             \* the event callback
    player, left,   \* the player, and the sends left of its sound
    fill,           \* pieces of speech in its buffer
    sdk,            \* what c_mmi_get_state tells apart
    audio, ended,   \* the ring buffer, and whether the speech has been received
    sent, finished, \* history: sounds queued, sounds played
    leftover,       \* history: the wake word found a completion not its own
    cut,            \* history: a sound waited when the speech began, or a sound or
                    \*   a listening came after
    late, stray,    \* history: sends of speech since listening began, recorded
                    \*   frames handed over since it ended
    wakes, speeches,
    phase, running, token, stranded, overlapped     \* the link to the chip

Link == INSTANCE SharedLink WITH Senders <- {"player", "cb"}, MayRunOut <- FALSE

syncVars   == <<soundQ, playerSem, doneSem, qset>>
playerVars == <<player, left, fill>>
sdkVars    == <<sdk, audio, ended>>
histVars   == <<leftover, cut, late, stray, wakes, speeches>>
linkVars   == <<phase, running, token, stranded, overlapped>>
vars == <<syncVars, recv, mine, cb, playerVars, sdkVars, sent, finished, histVars, linkVars>>

SoundQ    == "s_local_sound_q"
PlayerSem == "s_player_sem"

Init ==
    /\ soundQ = <<>> /\ playerSem = 0 /\ doneSem = 0 /\ qset = <<>>
    /\ recv = "idle" /\ mine = 0
    /\ cb = "idle"
    /\ player = "select" /\ left = 0 /\ fill = 0
    /\ sdk = "off" /\ audio = 0 /\ ended = TRUE
    /\ sent = 0 /\ finished = 0 /\ leftover = FALSE /\ cut = FALSE
    /\ late = 0 /\ stray = 0 /\ wakes = 0 /\ speeches = 0
    /\ Link!Init

-----------------------------------------------------------------------------
(* xQueueSend(s_local_sound_q, ..., portMAX_DELAY): when there is room, the *)
(* sound and the queue's handle are posted in one critical section.         *)
QueueSound ==
    /\ soundQ = <<>>
    /\ soundQ' = <<sent + 1>>
    /\ qset' = Append(qset, SoundQ)
    /\ sent' = sent + 1
    /\ cut' = TRUE
    /\ UNCHANGED <<playerSem, doneSem>>

(* xSemaphoreGive(s_player_sem): a full semaphore stays as it is. *)
GivePlayerSem ==
    /\ playerSem' = 1
    /\ qset' = IF playerSem = 0 THEN Append(qset, PlayerSem) ELSE qset
    /\ UNCHANGED <<soundQ, doneSem>>

-----------------------------------------------------------------------------
(* vb6824_on_report_asr with the wake word. *)
WakeWord ==
    /\ recv = "idle" /\ wakes < MaxWakes /\ sent < MaxSounds
    /\ recv' = "queue" /\ wakes' = wakes + 1
    /\ UNCHANGED <<syncVars, mine, cb, playerVars, sdkVars, sent, finished, leftover, cut,
                   late, stray, speeches, linkVars>>

QueueStartSound ==
    /\ recv = "queue"
    /\ QueueSound
    /\ mine' = sent + 1
    /\ leftover' = (doneSem = 1 \/ finished < sent)
    /\ recv' = "take"
    /\ UNCHANGED <<cb, playerVars, sdkVars, finished, late, stray, wakes, speeches, linkVars>>

TakePlayDone ==
    /\ recv = "take" /\ doneSem = 1
    /\ doneSem' = 0
    /\ recv' = "start"
    /\ UNCHANGED <<soundQ, playerSem, qset, mine, cb, playerVars, sdkVars, sent, finished,
                   histVars, linkVars>>

(* c_mmi_speech_start: interrupts the dialog and listens, unless there is   *)
(* no connection or the SDK is listening.  Whether the SDK drops the rest   *)
(* of the speech is left open.                                              *)
SpeechStart ==
    /\ recv = "start"
    /\ recv' = "idle"
    /\ IF sdk \in {"off", "listening"} THEN UNCHANGED <<sdkVars, cut, late, stray>>
       ELSE /\ sdk' = "listening" /\ late' = 0 /\ stray' = 0 /\ cut' = TRUE
            /\ audio' \in {0, audio}
            /\ UNCHANGED ended
    /\ UNCHANGED <<syncVars, mine, cb, playerVars, sent, finished, leftover, wakes, speeches,
                   linkVars>>

(* vb6824_on_report_record: the state is asked first, and a frame recorded  *)
(* while the SDK listens is handed over.                                    *)
RecordReported ==
    /\ recv = "idle" /\ sdk = "listening"
    /\ recv' = "put"
    /\ UNCHANGED <<syncVars, mine, cb, playerVars, sdkVars, sent, finished, histVars, linkVars>>

PutRecorderData ==
    /\ recv = "put"
    /\ recv' = "idle"
    /\ stray' = IF sdk = "listening" THEN stray ELSE stray + 1
    /\ UNCHANGED <<syncVars, mine, cb, playerVars, sdkVars, sent, finished, leftover,
                   cut, late, wakes, speeches, linkVars>>

-----------------------------------------------------------------------------
(* Events of the SDK.  SPEECH_READY and DATA_DEINIT queue a sound.          *)
Connected ==
    /\ cb = "idle" /\ sdk = "off" /\ sent < MaxSounds
    /\ sdk' = "ready" /\ cb' = "queue"
    /\ UNCHANGED <<syncVars, recv, mine, playerVars, audio, ended, sent, finished, histVars,
                   linkVars>>

Disconnected ==
    /\ cb = "idle" /\ sdk # "off" /\ sent < MaxSounds
    /\ sdk' = "off" /\ cb' = "queue"
    /\ ended' = TRUE
    /\ UNCHANGED <<syncVars, recv, mine, playerVars, audio, sent, finished, histVars, linkVars>>

(* ASR_END: STOP_RECORD is sent to the chip first. *)
AsrEnd ==
    /\ cb = "idle" /\ sdk = "listening" /\ sent < MaxSounds
    /\ sdk' = "thinking" /\ cb' = "record"
    /\ Link!Begin("cb")
    /\ UNCHANGED <<syncVars, recv, mine, playerVars, audio, ended, sent, finished, histVars>>

StopRecordSent ==
    /\ cb = "record"
    /\ Link!Return("cb")
    /\ cb' = "queue"
    /\ UNCHANGED <<syncVars, recv, mine, playerVars, sdkVars, sent, finished, histVars>>

QueueEventSound ==
    /\ cb = "queue"
    /\ QueueSound
    /\ cb' = "idle"
    /\ UNCHANGED <<recv, mine, playerVars, sdkVars, finished, leftover, late, stray, wakes,
                   speeches, linkVars>>

TtsStart ==
    /\ cb = "idle" /\ sdk = "thinking" /\ speeches < MaxSpeeches
    /\ GivePlayerSem
    /\ sdk' = "playing" /\ ended' = FALSE /\ cut' = (soundQ # <<>>)
    /\ speeches' = speeches + 1
    /\ UNCHANGED <<recv, mine, cb, playerVars, audio, sent, finished, leftover, late, stray,
                   wakes, linkVars>>

(* Speech comes in on the web-socket loop, not while a callback blocks it. *)
AudioArrives ==
    /\ cb = "idle" /\ sdk = "playing" /\ audio < MaxAudio
    /\ audio' = audio + 1
    /\ UNCHANGED <<syncVars, recv, mine, cb, playerVars, sdk, ended, sent, finished, histVars,
                   linkVars>>

TtsEnd ==
    /\ cb = "idle" /\ sdk = "playing"
    /\ sdk' = "ready" /\ ended' = TRUE
    /\ UNCHANGED <<syncVars, recv, mine, cb, playerVars, audio, sent, finished, histVars,
                   linkVars>>

(* AT+CHAT, AT+TTS: c_mmi_question, c_mmi_tts. *)
AtChat ==
    /\ sdk = "ready"
    /\ sdk' = "thinking"
    /\ UNCHANGED <<syncVars, recv, mine, cb, playerVars, audio, ended, sent, finished, histVars,
                   linkVars>>

(* AT+SPEECHPAUSE: c_mmi_speech_pause. *)
AtPauseSpeech ==
    /\ sdk \in {"listening", "thinking", "playing"}
    /\ sdk' = "ready" /\ ended' = TRUE
    /\ UNCHANGED <<syncVars, recv, mine, cb, playerVars, audio, sent, finished, histVars,
                   linkVars>>

-----------------------------------------------------------------------------
(* player_routine: xQueueSelectFromSet, then a receive that does not wait. *)
Select ==
    /\ player = "select" /\ qset # <<>>
    /\ qset' = Tail(qset)
    /\ player' = Head(qset)
    /\ UNCHANGED <<soundQ, playerSem, doneSem, recv, mine, cb, left, fill, sdkVars, sent,
                   finished, histVars, linkVars>>

(* Mutant: the completion is given as soon as the sound is taken. *)
ReceiveSoundGiving ==
    /\ player = SoundQ
    /\ IF soundQ = <<>> THEN player' = "select" /\ UNCHANGED <<soundQ, left, doneSem>>
       ELSE soundQ' = <<>> /\ player' = "sound" /\ left' = Chunks /\ doneSem' = 1
    /\ UNCHANGED <<playerSem, qset, recv, mine, cb, fill, sdkVars, sent, finished, histVars,
                   linkVars>>

ReceiveSound ==
    /\ player = SoundQ
    /\ IF soundQ = <<>> THEN player' = "select" /\ UNCHANGED <<soundQ, left>>
       ELSE soundQ' = <<>> /\ player' = "sound" /\ left' = Chunks
    /\ UNCHANGED <<playerSem, doneSem, qset, recv, mine, cb, fill, sdkVars, sent, finished,
                   histVars, linkVars>>

PlaySound ==
    /\ player = "sound" /\ left > 0
    /\ Link!Begin("player")
    /\ UNCHANGED <<syncVars, recv, mine, cb, playerVars, sdkVars, sent, finished, histVars>>

PieceSent ==
    /\ player = "sound"
    /\ Link!Return("player")
    /\ left' = left - 1
    /\ UNCHANGED <<syncVars, recv, mine, cb, player, fill, sdkVars, sent, finished, histVars>>

(* Mutant: nobody is told. *)
SoundDoneSilently ==
    /\ player = "sound" /\ left = 0
    /\ finished' = finished + 1
    /\ player' = "select"
    /\ UNCHANGED <<syncVars, recv, mine, cb, left, fill, sdkVars, sent, histVars, linkVars>>

SoundDone ==
    /\ player = "sound" /\ left = 0
    /\ doneSem' = 1
    /\ finished' = finished + 1
    /\ player' = "select"
    /\ UNCHANGED <<soundQ, playerSem, qset, recv, mine, cb, left, fill, sdkVars, sent, histVars,
                   linkVars>>

TakePlayerSem ==
    /\ player = PlayerSem
    /\ IF playerSem = 0 THEN player' = "select" /\ UNCHANGED <<playerSem, fill>>
       ELSE playerSem' = 0 /\ player' = "tts" /\ fill' = 0
    /\ UNCHANGED <<soundQ, doneSem, qset, recv, mine, cb, left, sdkVars, sent, finished,
                   histVars, linkVars>>

(* c_mmi_audio_recv_all: nothing of the speech is left to read. *)
AudioRecvAll == ended /\ audio = 0

(* Mutants of the loop's condition: not looking for sounds, taking them out *)
(* of the queue instead of looking, not asking for the SDK's state, looking *)
(* only at whether the cloud has ended the speech.                          *)
TtsLoop(more) ==
    /\ player = "tts"
    /\ player' = IF more THEN "get" ELSE "select"
    /\ UNCHANGED <<syncVars, recv, mine, cb, left, fill, sdkVars, sent, finished, histVars,
                   linkVars>>
TtsTestDeaf == TtsLoop(sdk # "listening" /\ ~AudioRecvAll)
TtsTestReceives ==
    /\ player = "tts"
    /\ player' = IF soundQ = <<>> /\ sdk # "listening" /\ ~AudioRecvAll THEN "get" ELSE "select"
    /\ soundQ' = <<>>
    /\ UNCHANGED <<playerSem, doneSem, qset, recv, mine, cb, left, fill, sdkVars, sent,
                   finished, histVars, linkVars>>
TtsTestStateless == TtsLoop(soundQ = <<>> /\ ~AudioRecvAll)
TtsTestEnded == TtsLoop(soundQ = <<>> /\ sdk # "listening" /\ ~ended)

(* The loop over the speech goes on while no sound is queued, the SDK does  *)
(* not listen and there is more.                                            *)
TtsTest == TtsLoop(soundQ = <<>> /\ sdk # "listening" /\ ~AudioRecvAll)

(* c_mmi_get_player_data: what there is, at most what still fits. *)
TtsGet ==
    /\ player = "get"
    /\ LET n == IF audio < Part - fill THEN audio ELSE Part - fill
       IN  /\ audio' = audio - n
           /\ fill' = fill + n
           /\ player' = IF fill + n = Part THEN "send" ELSE "tts"
    /\ UNCHANGED <<syncVars, recv, mine, cb, left, sdk, ended, sent, finished, histVars,
                   linkVars>>

TtsSend ==
    /\ player = "send"
    /\ Link!Begin("player")
    /\ late' = IF sdk = "listening" THEN late + 1 ELSE late
    /\ UNCHANGED <<syncVars, recv, mine, cb, playerVars, sdkVars, sent, finished, leftover, cut,
                   stray, wakes, speeches>>

SpeechSent ==
    /\ player = "send"
    /\ Link!Return("player")
    /\ fill' = 0
    /\ player' = "tts"
    /\ UNCHANGED <<syncVars, recv, mine, cb, left, sdkVars, sent, finished, histVars>>

-----------------------------------------------------------------------------
(* The driver's part of the sends in progress. *)
Transfer ==
    /\ Link!Complete \/ \E s \in {"player", "cb"} : Link!Progress(s)
    /\ UNCHANGED <<syncVars, recv, mine, cb, playerVars, sdkVars, sent, finished, histVars>>

Recv   == \/ WakeWord \/ QueueStartSound \/ TakePlayDone \/ SpeechStart
          \/ RecordReported \/ PutRecorderData
Events == \/ Connected \/ Disconnected \/ AsrEnd \/ StopRecordSent \/ QueueEventSound
          \/ TtsStart \/ AudioArrives \/ TtsEnd
AtTask == AtChat \/ AtPauseSpeech
Player == \/ Select \/ ReceiveSound \/ PlaySound \/ PieceSent \/ SoundDone
          \/ TakePlayerSem \/ TtsTest \/ TtsGet \/ TtsSend \/ SpeechSent

Next == ~overlapped /\ (Recv \/ Events \/ AtTask \/ Player \/ Transfer)

Spec == Init /\ [][Next]_vars

(* The scheduler runs every ready task and a started transfer completes;    *)
(* when a wake word or an event comes is up to the user and the cloud.      *)
FairSpec ==
    /\ Spec
    /\ WF_vars(~overlapped /\ Player)
    /\ WF_vars(~overlapped /\ Transfer)
    /\ WF_vars(~overlapped /\ (QueueStartSound \/ TakePlayDone \/ SpeechStart \/ PutRecorderData))
    /\ WF_vars(~overlapped /\ (StopRecordSent \/ QueueEventSound))

-----------------------------------------------------------------------------
SyncTypes ==
    /\ soundQ \in {<<>>} \cup {<<n>> : n \in 1..(MaxSounds + 1)}
    /\ playerSem \in 0..1 /\ doneSem \in 0..1
    /\ qset \in Seq({SoundQ, PlayerSem}) /\ Len(qset) <= 2
TaskTypes ==
    /\ recv \in {"idle", "queue", "take", "start", "put"} /\ mine \in 0..(MaxSounds + 1)
    /\ cb \in {"idle", "record", "queue"}
    /\ player \in {"select", SoundQ, PlayerSem, "sound", "tts", "get", "send"}
    /\ left \in 0..Chunks /\ fill \in 0..Part
SdkTypes ==
    /\ sdk \in {"off", "ready", "listening", "thinking", "playing"}
    /\ audio \in 0..MaxAudio
HistTypes ==
    /\ sent \in 0..(MaxSounds + 1) /\ finished \in 0..(MaxSounds + 1)
    /\ late \in Nat /\ stray \in Nat
    /\ wakes \in 0..MaxWakes /\ speeches \in 0..MaxSpeeches
LinkTypes ==
    /\ phase \in [{"player", "cb"} -> {"idle", "sending", "waiting"}]
    /\ token \in 0..1 /\ stranded \in Nat
FlagTypes == {ended, leftover, cut, running, overlapped} \subseteq BOOLEAN
TypeOK == SyncTypes /\ TaskTypes /\ SdkTypes /\ HistTypes /\ LinkTypes /\ FlagTypes

(* The queue set names each member with something in it exactly once, the   *)
(* one the player has just selected apart: no handle is stale, no sound and *)
(* no start of speech is overlooked, and the set, made for 1 + 1 handles,   *)
(* is never full when a member is posted to.                                *)
Named(h, holds) ==
    /\ (\E i \in 1..Len(qset) : qset[i] = h) \/ player = h <=> holds
    /\ ~(player = h /\ \E i \in 1..Len(qset) : qset[i] = h)
SetNamesMembers ==
    /\ Named(SoundQ, soundQ # <<>>)
    /\ Named(PlayerSem, playerSem = 1)
    /\ \A i, j \in 1..Len(qset) : qset[i] = qset[j] => i = j

(* The types of the dialog, and a queue set that agrees with its members.   *)
DialogInv == TypeOK /\ SetNamesMembers

(* vb6824_on_report_asr waits for its sound before it starts the speech:    *)
(* it goes on early only if it found the completion of an earlier sound in  *)
(* the semaphore, or such a sound was yet to be played.                     *)
EarlyOnlyByLeftover == (recv = "start" /\ ~leftover) => finished >= mine

(* Once the SDK listens, the player sends at most the one piece of speech   *)
(* it already had in hand; once it no longer does, the receive task hands   *)
(* over at most the one recorded frame it had asked the state for.          *)
LateByOne == late <= 1 /\ stray <= 1

(* Every sound queued is played, even while speech is awaited or played,    *)
(* unless player and callback collided on the link to the chip.             *)
SoundsArePlayed ==
    \A n \in 1..MaxSounds : (sent >= n) ~> (finished >= n \/ Link!Collision)

(* The wake word ends with a speech start: the receive task is never held   *)
(* for good by the queue, the completion or the player, unless player and   *)
(* callback collided on the link.                                           *)
WakeWordAnswered == (recv = "queue") ~> (recv = "idle" \/ Link!Collision)

(* The player keeps up with a speech that nothing cut short: once all of it *)
(* has been received, less than one send of 320 bytes stays unheard (and    *)
(* that rest is dropped), unless the next speech begins or the link         *)
(* collided.  A sound that waits when the speech begins cuts it short too:  *)
(* the player may take the semaphore, see the sound and leave the loop for  *)
(* good.                                                                    *)
SpeechHeardToTail ==
    (ended /\ ~cut /\ audio > 0) ~>
      (audio + fill < Part \/ cut \/ ~ended \/ Link!Collision)
=============================================================================
