---------------------------- MODULE DialogProofs ----------------------------
(***************************************************************************)
(* Proofs about Dialog: the queue set agrees with its members, the wake    *)
(* word's wait is cut short only by an earlier completion, and at most one *)
(* piece of speech and one recorded frame come too late.                   *)
(***************************************************************************)
EXTENDS Dialog, TLAPS

USE DialogAssumption

Handles == {SoundQ, PlayerSem}

(* The handle h is in the queue set q; no handle is in it twice.            *)
Names(q, h) == \E i \in 1..Len(q) : q[i] = h
Distinct(q) == \A i, j \in 1..Len(q) : q[i] = q[j] => i = j

(* The player is in a send only with a piece of a sound or of speech.       *)
LinkInUse ==
    phase["player"] # "idle" => player = "send" \/ (player = "sound" /\ left > 0)

(* A sound queued waits in the queue, is being played or has been played.   *)
SoundsAccounted ==
    sent = finished + (IF soundQ = <<>> THEN 0 ELSE 1) + (IF player = "sound" THEN 1 ELSE 0)

(* A task that is about to queue a sound counted it when it began.          *)
SoundsBounded ==
    /\ recv = "queue" \/ cb # "idle" => sent <= MaxSounds
    /\ recv = "queue" /\ cb # "idle" => sent < MaxSounds

(* The wake word that found no completion and no earlier sound: none but    *)
(* its own sound can be played last, and the semaphore is given after it.   *)
OwnSoundFirst ==
    recv \in {"take", "start"} /\ ~leftover =>
        /\ finished + 1 >= mine
        /\ doneSem = 1 \/ recv = "start" => finished >= mine

(* While the SDK listens, a player that has sent its late piece has no      *)
(* other in hand, and nothing recorded is astray.                           *)
OneInHand ==
    /\ late <= 1 /\ stray <= 1
    /\ sdk = "listening" /\ late = 1 =>
         player # "get" /\ (player = "send" => phase["player"] # "idle")
    /\ sdk = "listening" \/ recv = "put" => stray = 0

Inv == /\ TypeOK /\ SetNamesMembers /\ LinkInUse /\ SoundsAccounted
       /\ SoundsBounded /\ OwnSoundFirst /\ OneInHand
-----------------------------------------------------------------------------
(* What appending a handle, or taking the first one out, does to the names  *)
(* in the queue set.                                                        *)
LEMMA AppendNames ==
  ASSUME NEW q \in Seq(Handles), NEW h \in Handles
  PROVE  /\ Append(q, h) \in Seq(Handles)
         /\ \A g : Names(Append(q, h), g) <=> Names(q, g) \/ g = h
         /\ Distinct(q) /\ ~Names(q, h) => Distinct(Append(q, h))
<1> DEFINE r == Append(q, h)
<1>1. /\ r \in Seq(Handles) /\ Len(r) = Len(q) + 1 /\ r[Len(q) + 1] = h
      /\ \A i \in 1..Len(q) : r[i] = q[i]
  OBVIOUS
<1> HIDE DEF r
<1>2. Len(q) \in Nat
  OBVIOUS
<1>3. \A g : Names(r, g) <=> Names(q, g) \/ g = h
  BY <1>1, <1>2 DEF Names
<1>4. Distinct(q) /\ ~Names(q, h) => Distinct(r)
  <2> SUFFICES ASSUME Distinct(q), ~Names(q, h), NEW i \in 1..(Len(q) + 1),
                      NEW j \in 1..(Len(q) + 1), r[i] = r[j]
               PROVE  i = j
    BY <1>1 DEF Distinct
  <2>1. ASSUME NEW k \in 1..(Len(q) + 1) PROVE k \in 1..Len(q) \/ k = Len(q) + 1
    BY <1>2
  <2>2. \A k \in 1..Len(q) : r[k] # h
    BY <1>1 DEF Names
  <2> QED
    BY <1>1, <2>1, <2>2 DEF Distinct
<1> QED
  BY <1>1, <1>3, <1>4 DEF r

LEMMA TailNames ==
  ASSUME NEW q \in Seq(Handles), q # <<>>, Distinct(q)
  PROVE  /\ Tail(q) \in Seq(Handles) /\ Head(q) \in Handles
         /\ \A g : Names(Tail(q), g) <=> Names(q, g) /\ g # Head(q)
         /\ Distinct(Tail(q))
<1> DEFINE r == Tail(q)
<1>1. /\ r \in Seq(Handles) /\ Head(q) \in Handles /\ Len(q) \in Nat \ {0} /\ Len(r) = Len(q) - 1
      /\ Head(q) = q[1] /\ \A i \in 1..Len(r) : r[i] = q[i + 1]
  OBVIOUS
<1> HIDE DEF r
<1>2. Distinct(r)
  BY <1>1 DEF Distinct
<1>3. ASSUME NEW g, Names(r, g) PROVE Names(q, g) /\ g # Head(q)
  <2>1. PICK i \in 1..Len(r) : r[i] = g
    BY <1>3 DEF Names
  <2>2. i + 1 \in 1..Len(q) /\ q[i + 1] = g /\ i + 1 # 1 /\ 1 \in 1..Len(q)
    BY <1>1, <2>1
  <2> QED
    BY <1>1, <2>2 DEF Names, Distinct
<1>4. ASSUME NEW g, Names(q, g), g # Head(q) PROVE Names(r, g)
  <2>1. PICK i \in 1..Len(q) : q[i] = g
    BY <1>4 DEF Names
  <2>2. i # 1
    BY <1>1, <1>4, <2>1
  <2>3. i - 1 \in 1..Len(r) /\ r[i - 1] = q[(i - 1) + 1] /\ (i - 1) + 1 = i
    BY <1>1, <2>1, <2>2
  <2> QED
    BY <2>1, <2>3 DEF Names
<1> QED
  BY <1>1, <1>2, <1>3, <1>4 DEF r

(* Two handles fit the set: one that does not yet hold h has room for it.   *)
LEMMA RoomForName ==
  ASSUME NEW q \in Seq(Handles), NEW h \in Handles, Distinct(q), ~Names(q, h)
  PROVE  Len(q) <= 1
  BY DEF Names, Distinct, Handles
-----------------------------------------------------------------------------
USE DEF syncVars, playerVars, sdkVars, histVars, linkVars, SoundQ, PlayerSem,
        QueueSound, GivePlayerSem, TtsLoop, AudioRecvAll,
        Link!Begin, Link!Return, Link!Goto

(* SetNamesMembers, said with Names and Distinct.                           *)
SetView ==
    /\ Names(qset, SoundQ) \/ player = SoundQ <=> soundQ # <<>>
    /\ Names(qset, PlayerSem) \/ player = PlayerSem <=> playerSem = 1
    /\ \A h \in Handles : ~(player = h /\ Names(qset, h))
    /\ Distinct(qset)

(* The two ways of saying it agree.                                         *)
LEMMA ViewOfSet == SetNamesMembers <=> SetView
  BY DEF SetNamesMembers, Named, SetView, Names, Distinct, Handles

(* The driver's steps keep the types of the link, and no send of the player *)
(* begins or ends by them.                                                  *)
LEMMA TransferKeepsLink ==
  ASSUME LinkTypes, Transfer
  PROVE  LinkTypes' /\ (phase'["player"] = "idle" <=> phase["player"] = "idle")
<1>1. CASE Link!Complete
  BY <1>1 DEF LinkTypes, Link!Complete
<1>2. ASSUME NEW s \in {"player", "cb"}, Link!Progress(s)
      PROVE  LinkTypes' /\ (phase'["player"] = "idle" <=> phase["player"] = "idle")
  <2>1. phase[s] = "sending" /\ phase' = [phase EXCEPT ![s] = "waiting"]
    BY <1>2 DEF Link!Progress, Link!Start, Link!Refuse, Link!Overlap
  <2>2. token' = token /\ stranded' \in {stranded, stranded + 1}
    BY <1>2 DEF Link!Progress, Link!Start, Link!Refuse, Link!Overlap
  <2> QED
    BY <2>1, <2>2 DEF LinkTypes
<1> QED
  BY <1>1, <1>2 DEF Transfer

(* The player selects a handle, not a place of its own.                     *)
LEMMA SelectsHandle ==
  ASSUME SyncTypes, Select
  PROVE  player' \in Handles
  BY DEF SyncTypes, Select, Handles

(* Queueing a sound fills the queue with the next number.                   *)
LEMMA SoundQueued ==
  ASSUME Inv, QueueStartSound \/ QueueEventSound
  PROVE  soundQ = <<>> /\ soundQ' # <<>> /\ sent' = sent + 1 /\ sent <= MaxSounds
<1>1. sent <= MaxSounds
  BY DEF Inv, SoundsBounded, QueueStartSound, QueueEventSound
<1>2. soundQ = <<>> /\ soundQ' = <<sent + 1>> /\ sent' = sent + 1
  BY DEF QueueStartSound, QueueEventSound
<1> QED
  BY <1>1, <1>2

-----------------------------------------------------------------------------
(* The conjuncts of the invariant, one after the other: first the actions   *)
(* that can disturb one, then the rest of each task's.                      *)
(* The tasks stay in their places, the player within its sound and buffer. *)
LEMMA TasksTyped == Inv /\ Next => TaskTypes'
<1> SUFFICES ASSUME Inv, Next PROVE TaskTypes'
  OBVIOUS
<1> USE DEF Inv, TypeOK, TaskTypes, SdkTypes, LinkTypes, HistTypes, LinkInUse
<1>1. CASE QueueStartSound
  <2>1. sent <= MaxSounds
    BY <1>1, SoundQueued
  <2>2. recv' = "take" /\ mine' = sent + 1 /\ UNCHANGED <<cb, player, left, fill>>
    BY <1>1 DEF QueueStartSound
  <2>3. mine' \in 0..(MaxSounds + 1)
    BY <2>1, <2>2
  <2> QED
    BY <2>2, <2>3
<1>2. CASE SpeechStart
  BY <1>2 DEF SpeechStart
<1>3. CASE WakeWord \/ TakePlayDone \/ RecordReported \/ PutRecorderData
  BY <1>3 DEF WakeWord, TakePlayDone, RecordReported, PutRecorderData
<1>4. CASE Connected \/ Disconnected \/ AsrEnd \/ StopRecordSent
  BY <1>4 DEF Connected, Disconnected, AsrEnd, StopRecordSent
<1>5. CASE QueueEventSound \/ TtsStart \/ AudioArrives \/ TtsEnd
  BY <1>5 DEF QueueEventSound, TtsStart, AudioArrives, TtsEnd
<1>6. CASE AtChat \/ AtPauseSpeech
  BY <1>6 DEF AtChat, AtPauseSpeech
<1>7. CASE Select
  BY <1>7, SelectsHandle DEF Select, Handles
<1>8. CASE ReceiveSound
  <2>1. /\ player' \in {"select", "sound"} /\ left' \in {left, Chunks}
        /\ UNCHANGED <<recv, mine, cb, fill>>
    BY <1>8 DEF ReceiveSound
  <2> QED
    BY <2>1
<1>9. CASE PieceSent
  BY <1>9 DEF PieceSent
<1>10. CASE SoundDone
  BY <1>10 DEF SoundDone
<1>11. CASE TakePlayerSem
  BY <1>11 DEF TakePlayerSem
<1>12. CASE TtsTest
  BY <1>12 DEF TtsTest
<1>13. CASE TtsGet
  BY <1>13 DEF TtsGet
<1>14. CASE PlaySound \/ TtsSend \/ SpeechSent
  BY <1>14 DEF PlaySound, TtsSend, SpeechSent
<1>15. CASE Transfer
  BY <1>15, TransferKeepsLink DEF Transfer
<1> QED
  BY <1>1, <1>2, <1>3, <1>4, <1>5, <1>6, <1>7, <1>8, <1>9, <1>10, <1>11, <1>12, <1>13, <1>14, <1>15
     DEF Next, Recv, Events, AtTask, Player

(* The SDK's ring buffer neither runs over nor below empty.                 *)
LEMMA SdkTyped == Inv /\ Next => SdkTypes'
<1> SUFFICES ASSUME Inv, Next PROVE SdkTypes'
  OBVIOUS
<1> USE DEF Inv, TypeOK, TaskTypes, SdkTypes
<1>1. CASE SpeechStart
  BY <1>1 DEF SpeechStart
<1>2. CASE WakeWord \/ QueueStartSound \/ TakePlayDone \/ RecordReported
  BY <1>2 DEF WakeWord, QueueStartSound, TakePlayDone, RecordReported
<1>3. CASE PutRecorderData
  BY <1>3 DEF PutRecorderData
<1>4. CASE AudioArrives
  BY <1>4 DEF AudioArrives
<1>5. CASE Connected \/ Disconnected \/ AsrEnd \/ StopRecordSent
  BY <1>5 DEF Connected, Disconnected, AsrEnd, StopRecordSent
<1>6. CASE QueueEventSound \/ TtsStart \/ TtsEnd
  BY <1>6 DEF QueueEventSound, TtsStart, TtsEnd
<1>7. CASE AtChat \/ AtPauseSpeech
  BY <1>7 DEF AtChat, AtPauseSpeech
<1>8. CASE TtsGet
  BY <1>8 DEF TtsGet
<1>9. CASE Select \/ ReceiveSound \/ PlaySound \/ PieceSent
  BY <1>9 DEF Select, ReceiveSound, PlaySound, PieceSent
<1>10. CASE SoundDone \/ TakePlayerSem \/ TtsTest \/ TtsSend
  BY <1>10 DEF SoundDone, TakePlayerSem, TtsTest, TtsSend
<1>11. CASE SpeechSent
  BY <1>11 DEF SpeechSent
<1>12. CASE Transfer
  BY <1>12, TransferKeepsLink DEF Transfer
<1> QED
  BY <1>1, <1>2, <1>3, <1>4, <1>5, <1>6, <1>7, <1>8, <1>9, <1>10, <1>11, <1>12
     DEF Next, Recv, Events, AtTask, Player

(* The counters stay in their bounds.                                       *)
LEMMA HistTyped == Inv /\ Next => HistTypes'
<1> SUFFICES ASSUME Inv, Next PROVE HistTypes'
  OBVIOUS
<1> USE DEF Inv, TypeOK, TaskTypes, HistTypes, SoundsBounded
<1>1. CASE WakeWord
  BY <1>1 DEF WakeWord
<1>2. CASE QueueStartSound
  <2>1. sent <= MaxSounds /\ sent' = sent + 1
    BY <1>2, SoundQueued
  <2>2. UNCHANGED <<finished, late, stray, wakes, speeches>>
    BY <1>2 DEF QueueStartSound
  <2>3. sent' \in 0..(MaxSounds + 1)
    BY <2>1
  <2> QED
    BY <2>2, <2>3
<1>3. CASE SpeechStart
  BY <1>3 DEF SpeechStart
<1>4. CASE PutRecorderData
  BY <1>4 DEF PutRecorderData
<1>5. CASE TakePlayDone \/ RecordReported
  BY <1>5 DEF TakePlayDone, RecordReported
<1>6. CASE QueueEventSound
  <2>1. sent <= MaxSounds /\ sent' = sent + 1
    BY <1>6, SoundQueued
  <2>2. UNCHANGED <<finished, late, stray, wakes, speeches>>
    BY <1>6 DEF QueueEventSound
  <2>3. sent' \in 0..(MaxSounds + 1)
    BY <2>1
  <2> QED
    BY <2>2, <2>3
<1>7. CASE TtsStart
  <2>1. speeches < MaxSpeeches /\ speeches' = speeches + 1
        /\ UNCHANGED <<sent, finished, late, stray, wakes>>
    BY <1>7 DEF TtsStart
  <2>2. speeches' \in 0..MaxSpeeches
    BY <2>1
  <2> QED
    BY <2>1, <2>2
<1>8. CASE Connected \/ Disconnected \/ AsrEnd \/ StopRecordSent
  BY <1>8 DEF Connected, Disconnected, AsrEnd, StopRecordSent
<1>9. CASE AudioArrives \/ TtsEnd
  BY <1>9 DEF AudioArrives, TtsEnd
<1>10. CASE AtChat \/ AtPauseSpeech
  BY <1>10 DEF AtChat, AtPauseSpeech
<1>11. CASE SoundDone
  BY <1>11 DEF SoundDone, SoundsAccounted
<1>12. CASE TtsSend
  BY <1>12 DEF TtsSend
<1>13. CASE Select \/ ReceiveSound \/ PlaySound \/ PieceSent
  BY <1>13 DEF Select, ReceiveSound, PlaySound, PieceSent
<1>14. CASE TakePlayerSem \/ TtsTest \/ TtsGet \/ SpeechSent
  BY <1>14 DEF TakePlayerSem, TtsTest, TtsGet, SpeechSent
<1>15. CASE Transfer
  BY <1>15, TransferKeepsLink DEF Transfer
<1> QED
  BY <1>1, <1>2, <1>3, <1>4, <1>5, <1>6, <1>7, <1>8, <1>9, <1>10, <1>11, <1>12, <1>13, <1>14, <1>15
     DEF Next, Recv, Events, AtTask, Player

(* The link stays in its types.                                             *)
LEMMA LinkTyped == Inv /\ Next => LinkTypes'
<1> SUFFICES ASSUME Inv, Next PROVE LinkTypes'
  OBVIOUS
<1> USE DEF Inv, TypeOK, LinkTypes
<1>1. CASE WakeWord \/ QueueStartSound \/ TakePlayDone \/ SpeechStart
  BY <1>1 DEF WakeWord, QueueStartSound, TakePlayDone, SpeechStart
<1>2. CASE RecordReported \/ PutRecorderData
  BY <1>2 DEF RecordReported, PutRecorderData
<1>3. CASE AsrEnd
  BY <1>3 DEF AsrEnd
<1>4. CASE StopRecordSent
  BY <1>4 DEF StopRecordSent
<1>5. CASE Connected \/ Disconnected \/ QueueEventSound \/ TtsStart
  BY <1>5 DEF Connected, Disconnected, QueueEventSound, TtsStart
<1>6. CASE AudioArrives \/ TtsEnd
  BY <1>6 DEF AudioArrives, TtsEnd
<1>7. CASE AtChat \/ AtPauseSpeech
  BY <1>7 DEF AtChat, AtPauseSpeech
<1>8. CASE PlaySound
  BY <1>8 DEF PlaySound
<1>9. CASE PieceSent
  BY <1>9 DEF PieceSent
<1>10. CASE TtsSend
  BY <1>10 DEF TtsSend
<1>11. CASE SpeechSent
  BY <1>11 DEF SpeechSent
<1>12. CASE Select \/ ReceiveSound \/ SoundDone \/ TakePlayerSem
  BY <1>12 DEF Select, ReceiveSound, SoundDone, TakePlayerSem
<1>13. CASE TtsTest \/ TtsGet
  BY <1>13 DEF TtsTest, TtsGet
<1>14. CASE Transfer
  BY <1>14, TransferKeepsLink DEF Transfer
<1> QED
  BY <1>1, <1>2, <1>3, <1>4, <1>5, <1>6, <1>7, <1>8, <1>9, <1>10, <1>11, <1>12, <1>13, <1>14
     DEF Next, Recv, Events, AtTask, Player

(* The player is in a send only with something to send.                     *)
LEMMA PlayerOnLink == Inv /\ Next => LinkInUse'
<1> SUFFICES ASSUME Inv, Next PROVE LinkInUse'
  OBVIOUS
<1> USE DEF Inv, TypeOK, TaskTypes, LinkTypes, LinkInUse
<1>1. CASE WakeWord \/ QueueStartSound \/ TakePlayDone \/ SpeechStart
  BY <1>1 DEF WakeWord, QueueStartSound, TakePlayDone, SpeechStart
<1>2. CASE RecordReported \/ PutRecorderData
  BY <1>2 DEF RecordReported, PutRecorderData
<1>3. CASE AsrEnd
  BY <1>3 DEF AsrEnd
<1>4. CASE StopRecordSent
  BY <1>4 DEF StopRecordSent
<1>5. CASE Connected \/ Disconnected \/ QueueEventSound \/ TtsStart
  BY <1>5 DEF Connected, Disconnected, QueueEventSound, TtsStart
<1>6. CASE AudioArrives \/ TtsEnd
  BY <1>6 DEF AudioArrives, TtsEnd
<1>7. CASE AtChat \/ AtPauseSpeech
  BY <1>7 DEF AtChat, AtPauseSpeech
<1>8. CASE Select
  BY <1>8, SelectsHandle DEF Select, Handles
<1>9. CASE ReceiveSound
  BY <1>9 DEF ReceiveSound
<1>10. CASE PlaySound
  BY <1>10 DEF PlaySound
<1>11. CASE PieceSent
  BY <1>11 DEF PieceSent
<1>12. CASE SoundDone
  BY <1>12 DEF SoundDone
<1>13. CASE TakePlayerSem
  BY <1>13 DEF TakePlayerSem
<1>14. CASE TtsTest
  BY <1>14 DEF TtsTest
<1>15. CASE TtsGet
  BY <1>15 DEF TtsGet
<1>16. CASE TtsSend
  BY <1>16 DEF TtsSend
<1>17. CASE SpeechSent
  BY <1>17 DEF SpeechSent
<1>18. CASE Transfer
  BY <1>18, TransferKeepsLink DEF Transfer
<1> QED
  BY <1>1, <1>2, <1>3, <1>4, <1>5, <1>6, <1>7, <1>8, <1>9, <1>10, <1>11, <1>12, <1>13, <1>14,
     <1>15, <1>16, <1>17, <1>18
     DEF Next, Recv, Events, AtTask, Player

(* No sound is lost and none is played twice.                               *)
LEMMA SoundsAccountedKept == Inv /\ Next => SoundsAccounted'
<1> SUFFICES ASSUME Inv, Next PROVE SoundsAccounted'
  OBVIOUS
<1> USE DEF Inv, TypeOK, TaskTypes, HistTypes, SoundsAccounted
<1>1. CASE QueueStartSound
  <2>1. soundQ = <<>> /\ soundQ' # <<>> /\ sent' = sent + 1 /\ sent <= MaxSounds
    BY <1>1, SoundQueued
  <2>2. recv' = "take" /\ UNCHANGED <<player, finished, cb>>
    BY <1>1 DEF QueueStartSound
  <2> QED
    BY <2>1, <2>2
<1>2. CASE WakeWord \/ TakePlayDone \/ SpeechStart \/ RecordReported
  BY <1>2 DEF WakeWord, TakePlayDone, SpeechStart, RecordReported
<1>3. CASE PutRecorderData
  BY <1>3 DEF PutRecorderData
<1>4. CASE QueueEventSound
  <2>1. soundQ = <<>> /\ soundQ' # <<>> /\ sent' = sent + 1
    BY <1>4, SoundQueued
  <2>2. UNCHANGED <<player, finished>>
    BY <1>4 DEF QueueEventSound
  <2> QED
    BY <2>1, <2>2
<1>5. CASE Connected \/ Disconnected \/ AsrEnd \/ StopRecordSent
  BY <1>5 DEF Connected, Disconnected, AsrEnd, StopRecordSent
<1>6. CASE TtsStart \/ AudioArrives \/ TtsEnd
  BY <1>6 DEF TtsStart, AudioArrives, TtsEnd
<1>7. CASE AtChat \/ AtPauseSpeech
  BY <1>7 DEF AtChat, AtPauseSpeech
<1>8. CASE Select
  BY <1>8, SelectsHandle DEF Select, Handles
<1>9. CASE ReceiveSound
  BY <1>9 DEF ReceiveSound
<1>10. CASE SoundDone
  BY <1>10 DEF SoundDone
<1>11. CASE PlaySound \/ PieceSent \/ TakePlayerSem \/ TtsTest
  BY <1>11 DEF PlaySound, PieceSent, TakePlayerSem, TtsTest
<1>12. CASE TtsGet \/ TtsSend \/ SpeechSent
  BY <1>12 DEF TtsGet, TtsSend, SpeechSent
<1>13. CASE Transfer
  BY <1>13, TransferKeepsLink DEF Transfer
<1> QED
  BY <1>1, <1>2, <1>3, <1>4, <1>5, <1>6, <1>7, <1>8, <1>9, <1>10, <1>11, <1>12, <1>13
     DEF Next, Recv, Events, AtTask, Player

(* Whoever is about to queue a sound has room in the bound.                 *)
LEMMA SoundsBoundedKept == Inv /\ Next => SoundsBounded'
<1> SUFFICES ASSUME Inv, Next PROVE SoundsBounded'
  OBVIOUS
<1> USE DEF Inv, TypeOK, TaskTypes, HistTypes, SoundsBounded
<1>1. CASE WakeWord
  BY <1>1 DEF WakeWord
<1>2. CASE QueueStartSound
  BY <1>2, SoundQueued DEF QueueStartSound
<1>3. CASE TakePlayDone \/ SpeechStart \/ RecordReported \/ PutRecorderData
  BY <1>3 DEF TakePlayDone, SpeechStart, RecordReported, PutRecorderData
<1>4. CASE Connected
  BY <1>4 DEF Connected
<1>5. CASE Disconnected
  BY <1>5 DEF Disconnected
<1>6. CASE AsrEnd
  BY <1>6 DEF AsrEnd
<1>7. CASE QueueEventSound
  BY <1>7, SoundQueued DEF QueueEventSound
<1>8. CASE StopRecordSent \/ TtsStart \/ AudioArrives \/ TtsEnd
  BY <1>8 DEF StopRecordSent, TtsStart, AudioArrives, TtsEnd
<1>9. CASE AtChat \/ AtPauseSpeech
  BY <1>9 DEF AtChat, AtPauseSpeech
<1>10. CASE Select \/ ReceiveSound \/ PlaySound \/ PieceSent
  BY <1>10 DEF Select, ReceiveSound, PlaySound, PieceSent
<1>11. CASE SoundDone \/ TakePlayerSem \/ TtsTest \/ TtsGet
  BY <1>11 DEF SoundDone, TakePlayerSem, TtsTest, TtsGet
<1>12. CASE TtsSend \/ SpeechSent
  BY <1>12 DEF TtsSend, SpeechSent
<1>13. CASE Transfer
  BY <1>13, TransferKeepsLink DEF Transfer
<1> QED
  BY <1>1, <1>2, <1>3, <1>4, <1>5, <1>6, <1>7, <1>8, <1>9, <1>10, <1>11, <1>12, <1>13
     DEF Next, Recv, Events, AtTask, Player

(* The semaphore found empty is given for the wake word's own sound.        *)
LEMMA OwnSoundFirstKept == Inv /\ Next => OwnSoundFirst'
<1> SUFFICES ASSUME Inv, Next PROVE OwnSoundFirst'
  OBVIOUS
<1> USE DEF Inv, TypeOK, SyncTypes, TaskTypes, HistTypes, OwnSoundFirst
<1>1. CASE QueueStartSound
  <2>1. ~leftover' => ~(doneSem = 1) /\ ~(finished < sent)
    BY <1>1, Zenon DEF QueueStartSound
  <2> QED
    <3>1. /\ recv' = "take" /\ mine' = sent + 1 /\ UNCHANGED <<doneSem, finished>>
      BY <1>1 DEF QueueStartSound
    <3>2. ~leftover' => doneSem' # 1 /\ finished' + 1 >= mine'
      BY <2>1, <3>1
    <3> QED
      BY <3>1, <3>2
<1>2. CASE TakePlayDone
  BY <1>2 DEF TakePlayDone
<1>3. CASE SpeechStart
  BY <1>3 DEF SpeechStart
<1>4. CASE WakeWord \/ RecordReported \/ PutRecorderData
  BY <1>4 DEF WakeWord, RecordReported, PutRecorderData
<1>5. CASE Connected \/ Disconnected \/ AsrEnd \/ StopRecordSent
  BY <1>5 DEF Connected, Disconnected, AsrEnd, StopRecordSent
<1>6. CASE QueueEventSound \/ TtsStart \/ AudioArrives \/ TtsEnd
  BY <1>6 DEF QueueEventSound, TtsStart, AudioArrives, TtsEnd
<1>7. CASE AtChat \/ AtPauseSpeech
  BY <1>7 DEF AtChat, AtPauseSpeech
<1>8. CASE SoundDone
  <2>1. finished' = finished + 1 /\ UNCHANGED <<recv, leftover, mine>>
    BY <1>8 DEF SoundDone
  <2> QED
    BY <2>1
<1>9. CASE Select \/ ReceiveSound \/ PlaySound \/ PieceSent
  BY <1>9 DEF Select, ReceiveSound, PlaySound, PieceSent
<1>10. CASE TakePlayerSem \/ TtsTest \/ TtsGet \/ TtsSend
  BY <1>10 DEF TakePlayerSem, TtsTest, TtsGet, TtsSend
<1>11. CASE SpeechSent
  BY <1>11 DEF SpeechSent
<1>12. CASE Transfer
  BY <1>12, TransferKeepsLink DEF Transfer
<1> QED
  BY <1>1, <1>2, <1>3, <1>4, <1>5, <1>6, <1>7, <1>8, <1>9, <1>10, <1>11, <1>12
     DEF Next, Recv, Events, AtTask, Player

(* One piece in hand, one recorded frame on its way.                        *)
LEMMA OneInHandKept == Inv /\ Next => OneInHand'
<1> SUFFICES ASSUME Inv, Next PROVE OneInHand'
  OBVIOUS
<1> USE DEF Inv, TypeOK, TaskTypes, HistTypes, LinkTypes, OneInHand
<1>1. CASE SpeechStart
  BY <1>1 DEF SpeechStart
<1>2. CASE RecordReported
  BY <1>2 DEF RecordReported
<1>3. CASE PutRecorderData
  BY <1>3 DEF PutRecorderData
<1>4. CASE WakeWord \/ QueueStartSound \/ TakePlayDone
  BY <1>4 DEF WakeWord, QueueStartSound, TakePlayDone
<1>5. CASE AsrEnd
  BY <1>5 DEF AsrEnd
<1>6. CASE StopRecordSent
  BY <1>6 DEF StopRecordSent
<1>7. CASE Connected \/ Disconnected \/ QueueEventSound \/ TtsStart
  BY <1>7 DEF Connected, Disconnected, QueueEventSound, TtsStart
<1>8. CASE AudioArrives \/ TtsEnd
  BY <1>8 DEF AudioArrives, TtsEnd
<1>9. CASE AtChat \/ AtPauseSpeech
  BY <1>9 DEF AtChat, AtPauseSpeech
<1>10. CASE Select
  BY <1>10, SelectsHandle DEF Select, Handles
<1>11. CASE ReceiveSound
  BY <1>11 DEF ReceiveSound
<1>12. CASE PlaySound
  BY <1>12 DEF PlaySound
<1>13. CASE PieceSent
  BY <1>13 DEF PieceSent
<1>14. CASE TtsTest
  BY <1>14 DEF TtsTest
<1>15. CASE TtsGet
  BY <1>15 DEF TtsGet
<1>16. CASE TtsSend
  BY <1>16 DEF TtsSend
<1>17. CASE SpeechSent
  BY <1>17 DEF SpeechSent
<1>18. CASE SoundDone \/ TakePlayerSem
  BY <1>18 DEF SoundDone, TakePlayerSem
<1>19. CASE Transfer
  BY <1>19, TransferKeepsLink DEF Transfer
<1> QED
  BY <1>1, <1>2, <1>3, <1>4, <1>5, <1>6, <1>7, <1>8, <1>9, <1>10, <1>11, <1>12, <1>13, <1>14,
     <1>15, <1>16, <1>17, <1>18, <1>19
     DEF Next, Recv, Events, AtTask, Player

(* No action makes a flag of anything but a truth value.                    *)
LEMMA FlagsTyped == Inv /\ Next => FlagTypes'
<1> SUFFICES ASSUME Inv, Next PROVE FlagTypes'
  OBVIOUS
<1> USE DEF Inv, TypeOK, FlagTypes
<1>1. CASE Recv
  BY <1>1, Zenon DEF Recv, WakeWord, QueueStartSound, TakePlayDone, SpeechStart, RecordReported,
     PutRecorderData
<1>2. CASE Events
  BY <1>2, Zenon DEF Events, Connected, Disconnected, AsrEnd, StopRecordSent, QueueEventSound,
     TtsStart, AudioArrives, TtsEnd
<1>3. CASE AtTask
  BY <1>3, Zenon DEF AtTask, AtChat, AtPauseSpeech
<1>4. CASE Player
  BY <1>4, Zenon DEF Player, Select, ReceiveSound, PlaySound, PieceSent, SoundDone, TakePlayerSem,
     TtsTest, TtsGet, TtsSend, SpeechSent
<1>5. CASE Transfer
  BY <1>5, Zenon DEF Transfer, Link!Complete, Link!Progress, Link!Start, Link!Refuse, Link!Overlap
<1> QED
  BY <1>1, <1>2, <1>3, <1>4, <1>5, Zenon DEF Next

(* The queue set keeps to its members: a post appends the handle of a       *)
(* member that was empty, a select takes it out, a receive empties it.      *)
LEMMA SetKept == Inv /\ Next => SyncTypes' /\ SetNamesMembers'
<1>a. SetView' => SetNamesMembers'
  BY DEF SetNamesMembers, Named, SetView, Names, Distinct, Handles
<1> SUFFICES ASSUME Inv, Next PROVE SyncTypes' /\ SetView'
  BY <1>a
<1>0. qset \in Seq(Handles) /\ SetView /\ SyncTypes /\ TaskTypes /\ HistTypes
  BY ViewOfSet DEF Inv, TypeOK, SyncTypes, Handles
<1> USE DEF SyncTypes, SetView, Handles
<1>1. CASE QueueStartSound \/ QueueEventSound
  <2>1. ~Names(qset, SoundQ) /\ Len(qset) <= 1
    BY <1>0, <1>1, SoundQueued, RoomForName
  <2>2. qset' = Append(qset, SoundQ) /\ UNCHANGED <<playerSem, doneSem, player>>
    BY <1>1 DEF QueueStartSound, QueueEventSound
  <2>3. soundQ' = <<sent + 1>> /\ sent + 1 \in 1..(MaxSounds + 1)
    <3>1. sent \in Nat /\ sent <= MaxSounds
      BY <1>0, <1>1, SoundQueued DEF HistTypes
    <3>2. soundQ' = <<sent + 1>>
      BY <1>1 DEF QueueStartSound, QueueEventSound
    <3> QED
      BY <3>1, <3>2
  <2> QED
    BY <1>0, <1>1, <2>1, <2>2, <2>3, AppendNames, SoundQueued
<1>2. CASE TtsStart
  <2>1. CASE playerSem = 0
    <3>1. ~Names(qset, PlayerSem) /\ Len(qset) <= 1
      BY <1>0, <2>1, RoomForName
    <3>2. qset' = Append(qset, PlayerSem) /\ playerSem' = 1 /\ UNCHANGED <<soundQ, doneSem, player>>
      BY <1>2, <2>1 DEF TtsStart
    <3> QED
      BY <1>0, <2>1, <3>1, <3>2, AppendNames
  <2>2. CASE playerSem = 1
    BY <1>0, <1>2, <2>2 DEF TtsStart
  <2> QED
    BY <1>0, <2>1, <2>2
<1>3. CASE Select
  <2>1. qset # <<>> /\ qset' = Tail(qset) /\ player' = Head(qset) /\ player = "select"
    BY <1>3 DEF Select
  <2>2. Len(Tail(qset)) <= 2
    BY <1>0, <2>1
  <2>3. Names(qset, Head(qset))
    BY <1>0, <2>1 DEF Names
  <2> QED
    BY <1>0, <1>3, <2>1, <2>2, <2>3, TailNames DEF Select
<1>4. CASE ReceiveSound
  BY <1>0, <1>4 DEF ReceiveSound
<1>5. CASE TakePlayerSem
  BY <1>0, <1>5 DEF TakePlayerSem
<1>6. CASE /\ UNCHANGED <<soundQ, playerSem, qset>> /\ doneSem' \in 0..1
           /\ player' = player \/ {player, player'} \cap Handles = {}
  BY <1>0, <1>6
<1>7. ASSUME WakeWord \/ TakePlayDone \/ SpeechStart \/ RecordReported \/ PutRecorderData
             \/ Connected \/ Disconnected \/ AsrEnd \/ StopRecordSent \/ AudioArrives \/ TtsEnd
             \/ AtTask \/ Transfer
      PROVE  UNCHANGED <<soundQ, playerSem, qset, player>> /\ doneSem' \in 0..1
  BY <1>0, <1>7 DEF WakeWord, TakePlayDone, SpeechStart, RecordReported, PutRecorderData, Connected,
     Disconnected, AsrEnd, StopRecordSent, AudioArrives, TtsEnd, AtTask, AtChat, AtPauseSpeech,
     Transfer
<1>8. ASSUME PlaySound \/ PieceSent \/ SoundDone \/ TtsTest \/ TtsGet \/ TtsSend \/ SpeechSent
      PROVE  /\ UNCHANGED <<soundQ, playerSem, qset>> /\ doneSem' \in 0..1
             /\ player' = player \/ {player, player'} \cap Handles = {}
  BY <1>0, <1>8 DEF PlaySound, PieceSent, SoundDone, TtsTest, TtsGet, TtsSend, SpeechSent
<1> QED
  BY <1>1, <1>2, <1>3, <1>4, <1>5, <1>6, <1>7, <1>8 DEF Next, Recv, Events, Player

-----------------------------------------------------------------------------
(* The inductive invariant: every conjunct is needed to keep another one.   *)
LEMMA Inductive == Spec => []Inv
<1>1. Init => Inv
  <2> SUFFICES ASSUME Init PROVE Inv
    OBVIOUS
  <2>1. SyncTypes /\ TaskTypes /\ SdkTypes /\ HistTypes /\ LinkTypes
    BY DEF Init, Link!Init, SyncTypes, TaskTypes, SdkTypes, HistTypes, LinkTypes
  <2>2. FlagTypes
    BY Zenon DEF Init, Link!Init, FlagTypes
  <2>3. SetNamesMembers
    BY DEF Init, SetNamesMembers, Named
  <2>4. LinkInUse /\ SoundsAccounted /\ SoundsBounded /\ OwnSoundFirst /\ OneInHand
    BY DEF Init, Link!Init, LinkInUse, SoundsAccounted, SoundsBounded, OwnSoundFirst, OneInHand
  <2> QED
    BY <2>1, <2>2, <2>3, <2>4 DEF Inv, TypeOK
<1>2. Inv /\ Next => Inv'
  BY TasksTyped, SdkTyped, HistTyped, LinkTyped, FlagsTyped, SetKept, PlayerOnLink,
     SoundsAccountedKept, SoundsBoundedKept, OwnSoundFirstKept, OneInHandKept DEF Inv, TypeOK
<1>3. Inv /\ UNCHANGED vars => Inv'
  BY DEF vars, Inv, TypeOK, SyncTypes, TaskTypes, SdkTypes, HistTypes, LinkTypes, FlagTypes,
     SetNamesMembers, Named, LinkInUse, SoundsAccounted, SoundsBounded, OwnSoundFirst, OneInHand
<1> QED
  BY <1>1, <1>2, <1>3, PTL DEF Spec

(* The queue set of player_routine names each of its members exactly when   *)
(* there is something in it, and is never full when one is posted to,       *)
(* whatever order sounds, speeches and the player's receives come in.       *)
THEOREM SetAgrees == Spec => []DialogInv
  BY Inductive, PTL DEF Inv, DialogInv

(* vb6824_on_report_asr starts the speech before its sound was played only  *)
(* if the completion of an earlier sound was still to be taken.             *)
THEOREM EarlyByLeftover == Spec => []EarlyOnlyByLeftover
<1>1. Inv => EarlyOnlyByLeftover
  BY DEF Inv, OwnSoundFirst, EarlyOnlyByLeftover
<1> QED
  BY <1>1, Inductive, PTL

(* Of speech and of recorded frames, at most one piece each comes after the *)
(* SDK's state has changed, for any length of dialog.                       *)
THEOREM OneTooLate == Spec => []LateByOne
<1>1. Inv => LateByOne
  BY DEF Inv, OneInHand, LateByOne
<1> QED
  BY <1>1, Inductive, PTL
=============================================================================
