----------------------------- MODULE BootProofs -----------------------------
(***************************************************************************)
(* Proofs about Boot: every version string has one owner until it is freed *)
(* once, and few voice frames go out after the switch to upgrade mode.     *)
(***************************************************************************)
EXTENDS Boot, FiniteSetTheorems, TLAPS

USE BootAssumption

(* Who is in a send: main with its two frames, the update task where it     *)
(* asks, enters or answers, the player with a piece of the sound that the   *)
(* receive task waits for.                                                  *)
LinkInUse ==
    /\ phase["main"] # "idle" => main \in {"record", "volume"}
    /\ phase["ota"] # "idle" =>
         \/ ota \in {"ask", "enter"}
         \/ ota = "update" /\ packets < MaxPackets
    /\ phase["player"] # "idle" => left > 0
    /\ left > 0 => recv = "sound"

(* Versions in the receive buffer.                                          *)
Reports(q) == {i \in 1..Len(q) : q[i] = "version"}
Reported == Cardinality(Reports(mb))

(* A string is allocated for a report, a report made for a request heard,   *)
(* a request heard that the update task has sent.                           *)
RequestsAccounted ==
    /\ allocated + Reported + owed
         + (IF ota = "ask" /\ phase["ota"] = "sending" THEN 1 ELSE 0) <= tries
    /\ ota = "ask" /\ phase["ota"] = "idle" => tries < MaxTries
    /\ ota = "setup" => tries = 0

(* A string is held by the queue, by the receive task or by the update      *)
(* task, in turn, until it is freed; none is held by two, and none before   *)
(* it is allocated.                                                         *)
Held(v) == versionQ = <<v>> \/ posting = v \/ version = v
HeapView ==
    /\ posting = 0 <=> recv \notin {"post", "discard"}
    /\ ota \in {"setup", "ask", "await"} => version = 0
    /\ posting # 0 => posting # version /\ versionQ # <<posting>>
    /\ version # 0 => versionQ # <<version>>
    /\ posting <= allocated /\ version <= allocated
    /\ \A v \in 1..MaxTries : versionQ = <<v>> => v <= allocated
    /\ \A v \in 1..MaxTries : v > allocated => freed[v] = 0
    /\ \A v \in 1..allocated :
         (freed[v] = 1 /\ ~Held(v)) \/ (freed[v] = 0 /\ Held(v))

(* The voice frames main, and the player for a wake word, have sent.        *)
MainFrames ==
    LET begun == IF phase["main"] = "idle" THEN 0 ELSE 1
    IN  CASE main = "network" -> 0
          [] main = "record"  -> begun
          [] main = "volume"  -> 1 + begun
          [] OTHER            -> 2
SoundFrames ==
    CASE recv = "sound"  -> (Chunks - left) + (IF phase["player"] = "idle" THEN 0 ELSE 1)
      [] recv = "packet" -> Chunks
      [] OTHER           -> 0
StrayBounded ==
    /\ stray <= MainFrames + SoundFrames
    /\ ~isOtaMode => stray = 0 /\ recv # "packet"

Inv == TypeOK /\ LinkInUse /\ RequestsAccounted /\ HeapView /\ StrayBounded
-----------------------------------------------------------------------------
USE DEF worldVars, otaVars, recvVars, heapVars, linkVars, Senders, SendVoice, Again, Free,
        Link!Begin, Link!Return, Link!Goto

(* The reports in a buffer can be counted.                                  *)
LEMMA ReportsFinite ==
  ASSUME NEW q \in Seq({"version", "wake"})
  PROVE  IsFiniteSet(Reports(q)) /\ Cardinality(Reports(q)) \in Nat
<1>1. IsFiniteSet(1..Len(q)) /\ Reports(q) \in SUBSET (1..Len(q))
  BY FS_Interval DEF Reports
<1> QED
  BY <1>1, FS_Subset, FS_CardinalityType

(* Appending a report adds one to them.                                     *)
LEMMA ReportsAppend ==
  ASSUME NEW q \in Seq({"version", "wake"}), NEW m \in {"version", "wake"}
  PROVE  Cardinality(Reports(Append(q, m))) =
           Cardinality(Reports(q)) + (IF m = "version" THEN 1 ELSE 0)
<1>1. CASE m = "version"
  <2>1. Reports(Append(q, m)) = Reports(q) \cup {Len(q) + 1} /\ Len(q) + 1 \notin Reports(q)
    BY <1>1 DEF Reports
  <2> QED
    BY <1>1, <2>1, FS_AddElement, ReportsFinite
<1>2. CASE m = "wake"
  <2>1. Reports(Append(q, m)) = Reports(q)
    BY <1>2 DEF Reports
  <2> QED
    BY <1>2, <2>1, ReportsFinite
<1> QED
  BY <1>1, <1>2

(* Taking the first message out takes one away if it was a report.          *)
LEMMA ReportsTail ==
  ASSUME NEW q \in Seq({"version", "wake"}), q # <<>>
  PROVE  Cardinality(Reports(q)) =
           Cardinality(Reports(Tail(q))) + (IF Head(q) = "version" THEN 1 ELSE 0)
<1> DEFINE rest == Reports(q) \ {1}
           shift == [i \in Reports(Tail(q)) |-> i + 1]
<1>1. Tail(q) \in Seq({"version", "wake"}) /\ Len(q) \in Nat \ {0} /\ Len(Tail(q)) = Len(q) - 1
      /\ \A i \in 1..Len(Tail(q)) : Tail(q)[i] = q[i + 1]
  OBVIOUS
<1>2. shift \in Bijection(Reports(Tail(q)), rest)
  <2>1. shift \in [Reports(Tail(q)) -> rest]
    BY <1>1 DEF Reports
  <2>2. \A i, j \in Reports(Tail(q)) : shift[i] = shift[j] => i = j
    BY <1>1 DEF Reports
  <2>3. ASSUME NEW j \in rest PROVE \E i \in Reports(Tail(q)) : shift[i] = j
    <3>1. j - 1 \in Reports(Tail(q)) /\ shift[j - 1] = j
      BY <1>1 DEF Reports
    <3> QED
      BY <3>1
  <2> QED
    <3> HIDE DEF shift, rest
    <3>1. DOMAIN shift = Reports(Tail(q))
      BY <2>1
    <3> QED
      BY <2>1, <2>2, <2>3, <3>1 DEF Bijection, Injection, Surjection, IsInjective
<1>3. Cardinality(rest) = Cardinality(Reports(Tail(q)))
  <2>1. IsFiniteSet(Reports(Tail(q)))
    BY <1>1, ReportsFinite
  <2> HIDE DEF rest, shift
  <2>2. ExistsBijection(Reports(Tail(q)), rest)
    BY <1>2, Zenon DEF ExistsBijection
  <2> QED
    BY <2>1, <2>2, FS_Bijection
<1>4. 1 \in Reports(q) <=> Head(q) = "version"
  BY <1>1 DEF Reports
<1>5. Cardinality(rest) = IF 1 \in Reports(q) THEN Cardinality(Reports(q)) - 1
                          ELSE Cardinality(Reports(q))
  BY ReportsFinite, FS_RemoveElement
<1> QED
  BY <1>1, <1>3, <1>4, <1>5, ReportsFinite

(* The count of the reports in the receive buffer,                          *)
LEMMA Counted == VersionTypes => Reported \in Nat
  BY ReportsFinite DEF VersionTypes, Reported

(* ... a message put into it,                                               *)
LEMMA PutIn ==
  ASSUME VersionTypes, NEW m \in {"version", "wake"}, mb' = Append(mb, m)
  PROVE  Reported \in Nat /\ Reported' = Reported + (IF m = "version" THEN 1 ELSE 0)
  BY ReportsFinite, ReportsAppend DEF VersionTypes, Reported

(* ... and one taken out.                                                   *)
LEMMA TakenOut ==
  ASSUME VersionTypes, mb # <<>>, mb' = Tail(mb)
  PROVE  /\ Reported \in Nat /\ Reported' \in Nat
         /\ Reported = Reported' + (IF Head(mb) = "version" THEN 1 ELSE 0)
<1>1. Tail(mb) \in Seq({"version", "wake"})
  BY DEF VersionTypes
<1> QED
  BY <1>1, ReportsFinite, ReportsTail DEF VersionTypes, Reported

LEMMA NoGreater == \A a, b \in Nat : a = b \/ a = b + 1 => b <= a
  OBVIOUS

LEMMA NoMoreReported ==
  ASSUME VersionTypes, mb' = mb \/ (mb # <<>> /\ mb' = Tail(mb))
  PROVE  Reported \in Nat /\ Reported' \in Nat /\ Reported' <= Reported
<1>1. /\ Reported \in Nat /\ Reported' \in Nat
      /\ Reported = Reported' \/ Reported = Reported' + 1
  <2>1. CASE mb' = mb
    BY <2>1, Counted DEF Reported
  <2>2. CASE mb # <<>> /\ mb' = Tail(mb)
    <3>1. /\ Reported \in Nat /\ Reported' \in Nat
          /\ Reported = Reported' + (IF Head(mb) = "version" THEN 1 ELSE 0)
      BY <2>2, TakenOut
    <3>2. CASE Head(mb) = "version"
      BY <3>1, <3>2
    <3>3. CASE Head(mb) # "version"
      <4>1. Reported = Reported' + 0
        BY <3>1, <3>3
      <4>2. \A n \in Nat : n + 0 = n
        OBVIOUS
      <4> QED
        BY <3>1, <4>1, <4>2, Zenon
    <3> QED
      BY <3>1, <3>2, <3>3, Zenon
  <2> QED
    BY <2>1, <2>2
<1> HIDE DEF Reported
<1> QED
  BY <1>1, NoGreater

(* There is a number for the string of a report.                            *)
LEMMA RoomForString ==
  ASSUME Inv, RecvVersion
  PROVE  allocated < MaxTries
<1>1. mb # <<>> /\ mb' = Tail(mb) /\ Head(mb) = "version"
  BY DEF RecvVersion
<1>2. Reported \in Nat /\ Reported >= 1
  BY <1>1, TakenOut DEF Inv, TypeOK
<1>3. /\ allocated + Reported + owed <= tries /\ tries <= MaxTries
      /\ allocated \in Nat /\ owed \in Nat /\ tries \in Nat
  BY <1>2 DEF Inv, TypeOK, RequestsAccounted, VersionTypes, CountTypes
<1> QED
  BY <1>2, <1>3

(* The driver's steps keep the types of the link, and no send begins or     *)
(* ends by them.                                                            *)
LEMMA TransferKeepsLink ==
  ASSUME LinkTypes, Transfer
  PROVE  LinkTypes' /\ \A s \in Senders : phase'[s] = "idle" <=> phase[s] = "idle"
<1>1. CASE Link!Complete
  BY <1>1 DEF LinkTypes, Link!Complete
<1>2. ASSUME NEW s \in Senders, Link!Progress(s)
      PROVE  LinkTypes' /\ \A t \in Senders : phase'[t] = "idle" <=> phase[t] = "idle"
  <2>1. phase[s] = "sending" /\ phase' = [phase EXCEPT ![s] = "waiting"]
    BY <1>2 DEF Link!Progress, Link!Start, Link!Refuse, Link!Overlap
  <2>2. token' = token /\ stranded' \in {stranded, stranded + 1}
    BY <1>2 DEF Link!Progress, Link!Start, Link!Refuse, Link!Overlap
  <2> QED
    BY <2>1, <2>2 DEF LinkTypes
<1> QED
  BY <1>1, <1>2 DEF Transfer

(* Freeing a string counts it.                                              *)
LEMMA FreedTyped ==
  ASSUME NEW f \in [1..MaxTries -> Nat], NEW v \in 1..MaxTries
  PROVE  [f EXCEPT ![v] = @ + 1] \in [1..MaxTries -> Nat]
  OBVIOUS

(* One more, or one less, within a bound.                                   *)
LEMMA OneMore == \A n \in 0..MaxTries : n < MaxTries => n + 1 \in 0..MaxTries
  OBVIOUS

LEMMA OneLess == \A n \in 0..MaxTries : n > 0 => n - 1 \in 0..MaxTries
  OBVIOUS

-----------------------------------------------------------------------------
(* The tasks stay in their places.                                          *)
LEMMA TasksTyped == Inv /\ Next => TaskTypes'
<1> SUFFICES ASSUME Inv, Next PROVE TaskTypes'
  OBVIOUS
<1> USE DEF Inv, TypeOK, TaskTypes
<1>1. CASE NetworkUp \/ TimeUpdated
  BY <1>1 DEF NetworkUp, TimeUpdated
<1>2. CASE SeeNetwork \/ MainSends \/ MainSent \/ SeeTime
  BY <1>2 DEF SeeNetwork, MainSends, MainSent, SeeTime
<1>3. CASE WaitOtaExited
  BY <1>3 DEF WaitOtaExited
<1>4. CASE OtaSetup \/ AskVersion \/ VersionAsked \/ GetVersion
  BY <1>4 DEF OtaSetup, AskVersion, VersionAsked, GetVersion
<1>5. CASE VersionTimeout \/ NoUpdate \/ Offered \/ ConnectServer \/ ServerSilent \/ EnterUpgrade
  BY <1>5 DEF VersionTimeout, NoUpdate, Offered, ConnectServer, ServerSilent, EnterUpgrade
<1>6. CASE UpgradeEntered \/ AnswerChip \/ ChipAnswered \/ UpdateEnds
  BY <1>6 DEF UpgradeEntered, AnswerChip, ChipAnswered, UpdateEnds
<1>7. CASE OtaExit
  BY <1>7 DEF OtaExit
<1>8. CASE RecvVersion \/ Post \/ Discard \/ RecvWake
  BY <1>8 DEF RecvVersion, Post, Discard, RecvWake
<1>9. CASE SoundPlayed \/ RecvPacket
  BY <1>9 DEF SoundPlayed, RecvPacket
<1>10. CASE PlaySound \/ PieceSent
  BY <1>10 DEF PlaySound, PieceSent
<1>11. CASE ReportVersion \/ ReportWake
  BY <1>11 DEF ReportVersion, ReportWake
<1>12. CASE Transfer
  BY <1>12, TransferKeepsLink DEF Transfer
<1> QED
  BY <1>1, <1>2, <1>3, <1>4, <1>5, <1>6, <1>7, <1>8, <1>9, <1>10, <1>11, <1>12
     DEF Next, World, Main, Ota, Recv, Player, Chip

(* The counters stay in their bounds, the player within its sound.          *)
LEMMA CountsTyped == Inv /\ Next => CountTypes'
<1> SUFFICES ASSUME Inv, Next PROVE CountTypes'
  OBVIOUS
<1> USE DEF Inv, TypeOK, TaskTypes, CountTypes, LinkTypes, LinkInUse, RequestsAccounted
<1>1. CASE NetworkUp \/ TimeUpdated
  BY <1>1 DEF NetworkUp, TimeUpdated
<1>2. CASE MainSends
  BY <1>2 DEF MainSends
<1>3. CASE SeeNetwork \/ MainSent \/ SeeTime \/ WaitOtaExited
  BY <1>3 DEF SeeNetwork, MainSent, SeeTime, WaitOtaExited
<1>4. CASE AskVersion
  BY <1>4 DEF AskVersion
<1>5. CASE Offered \/ ConnectServer \/ ServerSilent
  BY <1>5 DEF Offered, ConnectServer, ServerSilent
<1>6. CASE ChipAnswered
  BY <1>6 DEF ChipAnswered
<1>7. CASE OtaSetup \/ VersionAsked \/ GetVersion \/ VersionTimeout
  BY <1>7 DEF OtaSetup, VersionAsked, GetVersion, VersionTimeout
<1>8. CASE NoUpdate \/ EnterUpgrade \/ UpgradeEntered \/ AnswerChip
  BY <1>8 DEF NoUpdate, EnterUpgrade, UpgradeEntered, AnswerChip
<1>9. CASE UpdateEnds \/ OtaExit
  BY <1>9 DEF UpdateEnds, OtaExit
<1>10. CASE RecvWake
  BY <1>10 DEF RecvWake
<1>11. CASE RecvVersion \/ Post \/ Discard \/ SoundPlayed
  BY <1>11 DEF RecvVersion, Post, Discard, SoundPlayed
<1>12. CASE RecvPacket
  BY <1>12 DEF RecvPacket
<1>13. CASE PlaySound
  BY <1>13 DEF PlaySound
<1>14. CASE PieceSent
  BY <1>14 DEF PieceSent
<1>15. CASE ReportWake
  BY <1>15 DEF ReportWake
<1>16. CASE ReportVersion
  BY <1>16 DEF ReportVersion
<1>17. CASE Transfer
  BY <1>17, TransferKeepsLink DEF Transfer
<1> QED
  BY <1>1, <1>2, <1>3, <1>4, <1>5, <1>6, <1>7, <1>8, <1>9, <1>10, <1>11, <1>12, <1>13, <1>14,
     <1>15, <1>16, <1>17
     DEF Next, World, Main, Ota, Recv, Player, Chip

(* No more strings are allocated than versions were asked for.              *)
LEMMA VersionsTyped == Inv /\ Next => VersionTypes'
<1> SUFFICES ASSUME Inv, Next PROVE VersionTypes'
  OBVIOUS
<1> USE DEF Inv, TypeOK, TaskTypes, CountTypes, VersionTypes, HeapView, RequestsAccounted, Reported
<1>1. CASE NetworkUp \/ TimeUpdated
  BY <1>1 DEF NetworkUp, TimeUpdated
<1>2. CASE SeeNetwork \/ MainSends \/ MainSent \/ SeeTime
  BY <1>2 DEF SeeNetwork, MainSends, MainSent, SeeTime
<1>3. CASE WaitOtaExited
  BY <1>3 DEF WaitOtaExited
<1>4. CASE GetVersion
  BY <1>4 DEF GetVersion
<1>5. CASE OtaExit
  <2>1. /\ UNCHANGED <<owed, mb, versionQ, posting, allocated>>
        /\ \/ UNCHANGED <<version, freed>>
           \/ version # 0 /\ version' = 0 /\ freed' = [freed EXCEPT ![version] = @ + 1]
    BY <1>5 DEF OtaExit
  <2>2. version \in 0..MaxTries /\ version' \in 0..MaxTries
    BY <2>1
  <2>3. CASE UNCHANGED freed
    BY <2>1, <2>2, <2>3
  <2>4. CASE version # 0 /\ freed' = [freed EXCEPT ![version] = @ + 1]
    <3>1. version \in 1..MaxTries
      BY <2>2, <2>4
    <3>2. freed' \in [1..MaxTries -> Nat]
      BY <2>4, <3>1, FreedTyped
    <3> QED
      BY <2>1, <2>2, <3>2
  <2> QED
    BY <2>1, <2>3, <2>4
<1>6. CASE OtaSetup \/ AskVersion \/ VersionAsked \/ VersionTimeout
  BY <1>6 DEF OtaSetup, AskVersion, VersionAsked, VersionTimeout
<1>7. CASE NoUpdate \/ Offered \/ ConnectServer \/ ServerSilent \/ EnterUpgrade \/ UpgradeEntered
  BY <1>7 DEF NoUpdate, Offered, ConnectServer, ServerSilent, EnterUpgrade, UpgradeEntered
<1>8. CASE AnswerChip \/ ChipAnswered \/ UpdateEnds
  BY <1>8 DEF AnswerChip, ChipAnswered, UpdateEnds
<1>9. CASE RecvVersion
  <2>1. /\ mb # <<>> /\ Head(mb) = "version" /\ mb' = Tail(mb)
        /\ UNCHANGED <<owed, versionQ, version, freed>>
    BY <1>9 DEF RecvVersion
  <2>2. allocated < MaxTries
    BY <1>9, RoomForString
  <2>3. mb' \in Seq({"version", "wake"})
    BY <2>1
  <2>4. \/ allocated' = allocated + 1 /\ posting' = allocated + 1
        \/ UNCHANGED <<allocated, posting>>
    BY <1>9 DEF RecvVersion
  <2> QED
    <3>1. allocated' \in 0..MaxTries /\ posting' \in 0..MaxTries
      BY <2>2, <2>4, OneMore
    <3> QED
      BY <2>1, <2>3, <3>1
<1>10. CASE Post
  BY <1>10 DEF Post
<1>11. CASE Discard
  <2>1. CASE versionQ = <<>>
    BY <1>11, <2>1 DEF Discard
  <2>2. CASE versionQ # <<>>
    <3>1. PICK v \in 1..MaxTries : versionQ = <<v>>
      BY <2>2
    <3>2. /\ versionQ' = <<>> /\ freed' = [freed EXCEPT ![v] = @ + 1]
          /\ UNCHANGED <<owed, mb, version, posting, allocated>>
      BY <1>11, <2>2, <3>1 DEF Discard
    <3>3. freed' \in [1..MaxTries -> Nat]
      BY <3>2, FreedTyped
    <3> QED
      BY <3>2, <3>3
  <2> QED
    BY <2>1, <2>2
<1>12. CASE RecvWake
  BY <1>12 DEF RecvWake
<1>13. CASE RecvPacket
  <2>1. mb' = mb \/ (mb # <<>> /\ mb' = Tail(mb))
    BY <1>13 DEF RecvPacket
  <2>2. Tail(mb) \in Seq({"version", "wake"}) \/ mb = <<>>
    OBVIOUS
  <2>3. mb' \in Seq({"version", "wake"})
    BY <2>1, <2>2
  <2> QED
    BY <1>13, <2>3 DEF RecvPacket
<1>14. CASE SoundPlayed
  BY <1>14 DEF SoundPlayed
<1>15. CASE PlaySound \/ PieceSent
  BY <1>15 DEF PlaySound, PieceSent
<1>16. CASE ReportVersion
  <2>1. Append(mb, "version") \in Seq({"version", "wake"})
    OBVIOUS
  <2>2. owed - 1 \in 0..MaxTries
    BY <1>16, OneLess DEF ReportVersion
  <2> QED
    BY <1>16, <2>1, <2>2 DEF ReportVersion
<1>17. CASE ReportWake
  BY <1>17 DEF ReportWake
<1>18. CASE Transfer
  <2>1. CASE ota = "ask" /\ Link!Start("ota")
    <3>1. phase["ota"] = "sending"
      BY <2>1 DEF Link!Start
    <3>2. owed + 1 <= MaxTries
      BY <2>1, <3>1, ReportsFinite
    <3> QED
      BY <1>18, <2>1, <3>2 DEF Transfer
  <2>2. CASE ~(ota = "ask" /\ Link!Start("ota"))
    BY <1>18, <2>2 DEF Transfer
  <2> QED
    BY <2>1, <2>2
<1> QED
  BY <1>1, <1>2, <1>3, <1>4, <1>5, <1>6, <1>7, <1>8, <1>9, <1>10, <1>11, <1>12, <1>13, <1>14,
     <1>15, <1>16, <1>17, <1>18
     DEF Next, World, Main, Ota, Recv, Player, Chip

(* The link stays in its types.                                             *)
LEMMA LinkTyped == Inv /\ Next => LinkTypes'
<1> SUFFICES ASSUME Inv, Next PROVE LinkTypes'
  OBVIOUS
<1> USE DEF Inv, TypeOK, LinkTypes
<1>1. CASE NetworkUp \/ TimeUpdated
  BY <1>1 DEF NetworkUp, TimeUpdated
<1>2. CASE MainSends
  BY <1>2 DEF MainSends
<1>3. CASE MainSent
  BY <1>3 DEF MainSent
<1>4. CASE SeeNetwork \/ SeeTime \/ WaitOtaExited
  BY <1>4 DEF SeeNetwork, SeeTime, WaitOtaExited
<1>5. CASE AskVersion
  BY <1>5 DEF AskVersion
<1>6. CASE VersionAsked
  BY <1>6 DEF VersionAsked
<1>7. CASE EnterUpgrade
  BY <1>7 DEF EnterUpgrade
<1>8. CASE UpgradeEntered
  BY <1>8 DEF UpgradeEntered
<1>9. CASE AnswerChip
  BY <1>9 DEF AnswerChip
<1>10. CASE ChipAnswered
  BY <1>10 DEF ChipAnswered
<1>11. CASE OtaSetup \/ GetVersion \/ VersionTimeout \/ NoUpdate
  BY <1>11 DEF OtaSetup, GetVersion, VersionTimeout, NoUpdate
<1>12. CASE Offered \/ ConnectServer \/ ServerSilent \/ UpdateEnds \/ OtaExit
  BY <1>12 DEF Offered, ConnectServer, ServerSilent, UpdateEnds, OtaExit
<1>13. CASE RecvVersion \/ Post \/ Discard \/ RecvWake
  BY <1>13 DEF RecvVersion, Post, Discard, RecvWake
<1>14. CASE SoundPlayed \/ RecvPacket
  BY <1>14 DEF SoundPlayed, RecvPacket
<1>15. CASE PlaySound
  BY <1>15 DEF PlaySound
<1>16. CASE PieceSent
  BY <1>16 DEF PieceSent
<1>17. CASE ReportVersion \/ ReportWake
  BY <1>17 DEF ReportVersion, ReportWake
<1>18. CASE Transfer
  BY <1>18, TransferKeepsLink DEF Transfer
<1> QED
  BY <1>1, <1>2, <1>3, <1>4, <1>5, <1>6, <1>7, <1>8, <1>9, <1>10, <1>11, <1>12, <1>13, <1>14,
     <1>15, <1>16, <1>17, <1>18
     DEF Next, World, Main, Ota, Recv, Player, Chip

(* A task that has begun a send stays where it waits for it.                *)
LEMMA LinkUse == Inv /\ Next => LinkInUse'
<1> SUFFICES ASSUME Inv, Next PROVE LinkInUse'
  OBVIOUS
<1> USE DEF Inv, TypeOK, TaskTypes, CountTypes, LinkTypes, LinkInUse
<1>1. CASE NetworkUp \/ TimeUpdated
  BY <1>1 DEF NetworkUp, TimeUpdated
<1>2. CASE MainSends
  BY <1>2 DEF MainSends
<1>3. CASE MainSent
  BY <1>3 DEF MainSent
<1>4. CASE SeeNetwork \/ SeeTime \/ WaitOtaExited
  BY <1>4 DEF SeeNetwork, SeeTime, WaitOtaExited
<1>5. CASE AskVersion
  BY <1>5 DEF AskVersion
<1>6. CASE VersionAsked
  BY <1>6 DEF VersionAsked
<1>7. CASE EnterUpgrade
  BY <1>7 DEF EnterUpgrade
<1>8. CASE UpgradeEntered
  BY <1>8 DEF UpgradeEntered
<1>9. CASE AnswerChip
  BY <1>9 DEF AnswerChip
<1>10. CASE ChipAnswered
  BY <1>10 DEF ChipAnswered
<1>11. CASE UpdateEnds
  BY <1>11 DEF UpdateEnds
<1>12. CASE OtaSetup \/ GetVersion \/ VersionTimeout \/ NoUpdate
  BY <1>12 DEF OtaSetup, GetVersion, VersionTimeout, NoUpdate
<1>13. CASE Offered \/ ConnectServer \/ ServerSilent \/ OtaExit
  BY <1>13 DEF Offered, ConnectServer, ServerSilent, OtaExit
<1>14. CASE RecvWake
  BY <1>14 DEF RecvWake
<1>15. CASE SoundPlayed
  BY <1>15 DEF SoundPlayed
<1>16. CASE RecvVersion \/ Post \/ Discard \/ RecvPacket
  BY <1>16 DEF RecvVersion, Post, Discard, RecvPacket
<1>17. CASE PlaySound
  BY <1>17 DEF PlaySound
<1>18. CASE PieceSent
  BY <1>18 DEF PieceSent
<1>19. CASE ReportVersion \/ ReportWake
  BY <1>19 DEF ReportVersion, ReportWake
<1>20. CASE Transfer
  BY <1>20, TransferKeepsLink DEF Transfer
<1> QED
  BY <1>1, <1>2, <1>3, <1>4, <1>5, <1>6, <1>7, <1>8, <1>9, <1>10, <1>11, <1>12, <1>13, <1>14,
     <1>15, <1>16, <1>17, <1>18, <1>19, <1>20
     DEF Next, World, Main, Ota, Recv, Player, Chip

(* Every string, report and pending answer has a request behind it.         *)
LEMMA RequestsKept == Inv /\ Next => RequestsAccounted'
<1> SUFFICES ASSUME Inv, Next PROVE RequestsAccounted'
  OBVIOUS
<1> USE DEF Inv, TypeOK, TaskTypes, CountTypes, VersionTypes, LinkTypes, LinkInUse,
            RequestsAccounted, Reported
<1>1. CASE NetworkUp \/ TimeUpdated
  BY <1>1 DEF NetworkUp, TimeUpdated
<1>2. CASE SeeNetwork \/ MainSends \/ MainSent \/ SeeTime
  BY <1>2 DEF SeeNetwork, MainSends, MainSent, SeeTime
<1>3. CASE WaitOtaExited
  BY <1>3 DEF WaitOtaExited
<1>4. CASE OtaSetup
  <2>1. tries = 0 /\ MaxTries > 0
    BY <1>4 DEF OtaSetup
  <2>2. ota' \in {"ask", "exit"} /\ UNCHANGED <<tries, allocated, mb, owed, phase>>
    BY <1>4 DEF OtaSetup
  <2>3. phase["ota"] = "idle"
    BY <1>4 DEF OtaSetup
  <2> QED
    BY <1>4, <2>1, <2>2, <2>3, Counted DEF OtaSetup
<1>5. CASE AskVersion
  <2>1. ota = "ask" /\ phase["ota"] = "idle" /\ phase'["ota"] = "sending" /\ tries' = tries + 1
        /\ UNCHANGED <<ota, allocated, mb, owed>>
    BY <1>5 DEF AskVersion
  <2>2. Reported \in Nat /\ Reported' = Reported
    BY <2>1, Counted
  <2>3. allocated \in Nat /\ owed \in Nat /\ tries \in Nat /\ RequestsAccounted
    OBVIOUS
  <2> HIDE DEF Inv, TypeOK, VersionTypes, LinkTypes, LinkInUse, CountTypes, TaskTypes, Reported
  <2>4. allocated + Reported + owed <= tries
    BY <2>1, <2>2, <2>3
  <2>5. allocated + Reported + owed + 1 <= tries + 1
    <3> HIDE DEF RequestsAccounted
    <3> QED BY <2>2, <2>3, <2>4
  <2> QED
    BY <2>1, <2>2, <2>5
<1>6. CASE VersionAsked
  BY <1>6, Counted DEF VersionAsked
<1>7. CASE VersionTimeout
  BY <1>7, Counted DEF VersionTimeout
<1>8. CASE EnterUpgrade
  BY <1>8, Counted DEF EnterUpgrade
<1>9. CASE UpgradeEntered
  BY <1>9, Counted DEF UpgradeEntered
<1>10. CASE AnswerChip
  BY <1>10, Counted DEF AnswerChip
<1>11. CASE ChipAnswered
  BY <1>11, Counted DEF ChipAnswered
<1>12. CASE GetVersion \/ NoUpdate \/ Offered \/ ConnectServer \/ ServerSilent \/ UpdateEnds
  BY <1>12 DEF GetVersion, NoUpdate, Offered, ConnectServer, ServerSilent, UpdateEnds
<1>13. CASE OtaExit
  BY <1>13 DEF OtaExit
<1>14. CASE RecvVersion
  <2>1. mb # <<>> /\ Head(mb) = "version" /\ mb' = Tail(mb)
    BY <1>14 DEF RecvVersion
  <2>2. allocated' \in {allocated, allocated + 1} /\ UNCHANGED <<owed, ota, tries, phase>>
    BY <1>14 DEF RecvVersion
  <2>3. PICK n \in Nat : n = Cardinality(Reports(mb))
    BY Counted
  <2>4. PICK m \in Nat : m = Cardinality(Reports(Tail(mb))) /\ n = m + 1
    BY <2>1, <2>3, TakenOut
  <2>5. allocated \in Nat /\ owed \in Nat /\ tries \in Nat /\ RequestsAccounted
    OBVIOUS
  <2> HIDE DEF Inv, VersionTypes, LinkTypes, LinkInUse, CountTypes, TaskTypes
  <2>6. allocated' + m <= allocated + n
    BY <2>2, <2>4, <2>5
  <2>7. Cardinality(Reports(mb')) = m /\ Cardinality(Reports(mb)) = n
    BY <2>1, <2>3, <2>4
  <2>8. ASSUME NEW k \in {0, 1}, allocated + n + owed + k <= tries
        PROVE  allocated' + m + owed + k <= tries
    BY <2>2, <2>4, <2>5, <2>6, <2>8
  <2> QED
    BY <2>2, <2>5, <2>7, <2>8
<1>15. CASE RecvWake
  <2>1. /\ mb # <<>> /\ mb' = Tail(mb) /\ Head(mb) # "version"
        /\ UNCHANGED <<owed, ota, tries, phase, allocated>>
    BY <1>15 DEF RecvWake
  <2>2. Reported' = Reported
    BY <2>1, TakenOut
  <2> QED
    BY <2>1, <2>2
<1>16. CASE RecvPacket
  <2>1. mb' = mb \/ (mb # <<>> /\ mb' = Tail(mb))
    BY <1>16 DEF RecvPacket
  <2>2. UNCHANGED <<owed, ota, tries, phase, allocated>>
    BY <1>16 DEF RecvPacket
  <2>3. Reported \in Nat /\ Reported' \in Nat /\ Reported' <= Reported
    BY <2>1, NoMoreReported
  <2> QED
    <3> HIDE DEF Inv, VersionTypes, LinkTypes, LinkInUse, CountTypes, TaskTypes
    <3>1. allocated \in Nat /\ owed \in Nat /\ tries \in Nat /\ RequestsAccounted
      BY DEF Inv, VersionTypes, CountTypes
    <3>2. ASSUME NEW k \in {0, 1}, allocated + Reported + owed + k <= tries
          PROVE  allocated + Reported' + owed + k <= tries
      BY <2>3, <3>1, <3>2
    <3> QED
      BY <2>2, <3>1, <3>2
<1>17. CASE Post \/ Discard \/ SoundPlayed
  BY <1>17 DEF Post, Discard, SoundPlayed
<1>18. CASE PlaySound \/ PieceSent
  BY <1>18 DEF PlaySound, PieceSent
<1>19. CASE ReportVersion
  <2>1. mb' = Append(mb, "version") /\ owed > 0 /\ owed' = owed - 1
        /\ UNCHANGED <<ota, tries, allocated, phase>>
    BY <1>19 DEF ReportVersion
  <2>2. Reported \in Nat /\ Reported' = Reported + 1
    BY <2>1, PutIn
  <2>3. allocated \in Nat /\ owed \in Nat /\ tries \in Nat /\ RequestsAccounted
    OBVIOUS
  <2> HIDE DEF Inv, TypeOK, VersionTypes, LinkTypes, LinkInUse, CountTypes, TaskTypes, Reported
  <2>4. allocated + Reported' + owed' = allocated + Reported + owed
    <3> HIDE DEF RequestsAccounted
    <3> QED BY <2>1, <2>2, <2>3
  <2> QED
    BY <2>1, <2>3, <2>4
<1>20. CASE ReportWake
  BY <1>20, PutIn DEF ReportWake
<1>21. CASE Transfer
  <2>0. Reported' = Reported /\ UNCHANGED <<ota, tries, allocated>>
    BY <1>21 DEF Transfer, Reported
  <2>1. CASE ota = "ask" /\ Link!Start("ota")
    <3>1. phase["ota"] = "sending" /\ phase'["ota"] = "waiting" /\ owed' \in {owed, owed + 1}
      BY <1>21, <2>1 DEF Transfer, Link!Start
    <3> QED
      <4>1. allocated + Reported + owed + 1 <= tries /\ allocated \in Nat /\ owed \in Nat /\ tries \in Nat
        BY <2>1, <3>1
      <4> HIDE DEF Inv, VersionTypes, LinkTypes, LinkInUse, CountTypes, TaskTypes
      <4>2. Reported \in Nat
        BY Counted DEF Inv
      <4>3. allocated + Reported + owed' + 0 <= tries
        BY <3>1, <4>1, <4>2
      <4>4. allocated + Reported + owed' \in Nat
        BY <3>1, <4>1, <4>2
      <4> QED
        BY <2>0, <2>1, <3>1, <4>3, <4>4
  <2>2. CASE ~(ota = "ask" /\ Link!Start("ota"))
    <3>1. owed' = owed
      BY <1>21, <2>2 DEF Transfer
    <3>2. phase'["ota"] = "sending" => phase["ota"] = "sending"
      BY <1>21 DEF Transfer, Link!Complete, Link!Progress, Link!Start, Link!Refuse, Link!Overlap
    <3> QED
      <4>1. phase'["ota"] = "idle" <=> phase["ota"] = "idle"
        BY <1>21, TransferKeepsLink
      <4>2. Reported \in Nat /\ allocated \in Nat /\ owed \in Nat /\ tries \in Nat /\ RequestsAccounted
        BY Counted
      <4> HIDE DEF Inv, VersionTypes, LinkTypes, LinkInUse, CountTypes, TaskTypes
      <4>3. \A n \in Nat : n + 1 <= tries => n + 0 <= tries
        BY <4>2
      <4>4. allocated + Reported + owed \in Nat
        BY <4>2
      <4> QED
        BY <2>0, <3>1, <3>2, <4>1, <4>2, <4>3, <4>4
  <2> QED
    BY <2>1, <2>2
<1> QED
  BY <1>1, <1>2, <1>3, <1>4, <1>5, <1>6, <1>7, <1>8, <1>9, <1>10, <1>11, <1>12, <1>13, <1>14,
     <1>15, <1>16, <1>17, <1>18, <1>19, <1>20, <1>21
     DEF Next, World, Main, Ota, Recv, Player, Chip

(* A string passes from one owner to the next, and the last one frees it.   *)
LEMMA HeapKept == Inv /\ Next => HeapView'
<1> SUFFICES ASSUME Inv, Next PROVE HeapView'
  OBVIOUS
<1> USE DEF Inv, TypeOK, TaskTypes, VersionTypes, HeapView, Held
<1>1. CASE NetworkUp \/ TimeUpdated
  BY <1>1 DEF NetworkUp, TimeUpdated
<1>2. CASE SeeNetwork \/ MainSends \/ MainSent \/ SeeTime
  BY <1>2 DEF SeeNetwork, MainSends, MainSent, SeeTime
<1>3. CASE WaitOtaExited
  BY <1>3 DEF WaitOtaExited
<1>4. CASE GetVersion
  BY <1>4 DEF GetVersion
<1>5. CASE VersionTimeout
  BY <1>5 DEF VersionTimeout
<1>6. CASE OtaExit
  BY <1>6 DEF OtaExit
<1>7. CASE OtaSetup \/ AskVersion \/ VersionAsked \/ NoUpdate
  BY <1>7 DEF OtaSetup, AskVersion, VersionAsked, NoUpdate
<1>8. CASE Offered \/ ConnectServer \/ ServerSilent \/ EnterUpgrade \/ UpgradeEntered \/ AnswerChip
  BY <1>8 DEF Offered, ConnectServer, ServerSilent, EnterUpgrade, UpgradeEntered, AnswerChip
<1>9. CASE ChipAnswered \/ UpdateEnds
  BY <1>9 DEF ChipAnswered, UpdateEnds
<1>10. CASE RecvVersion
  <2>1. recv = "frame" /\ UNCHANGED <<version, versionQ, freed, ota>>
    BY <1>10 DEF RecvVersion
  <2>2. CASE allocated' = allocated + 1 /\ posting' = allocated + 1 /\ recv' = "post"
    BY <1>10, <2>1, <2>2, RoomForString
  <2>3. CASE recv' \in {"frame", "packet"} /\ UNCHANGED <<allocated, posting>>
    BY <2>1, <2>3
  <2> QED
    BY <1>10, <2>2, <2>3 DEF RecvVersion
<1>11. CASE Post
  BY <1>11 DEF Post
<1>12. CASE Discard
  <2>1. CASE versionQ = <<>>
    BY <1>12, <2>1 DEF Discard
  <2>2. CASE versionQ # <<>>
    <3>1. PICK v \in 1..MaxTries : versionQ = <<v>>
      BY <2>2
    <3>2. /\ versionQ' = <<>> /\ freed' = [freed EXCEPT ![v] = @ + 1]
          /\ UNCHANGED <<recv, posting, version, allocated, ota>>
      BY <1>12, <2>2, <3>1 DEF Discard
    <3>3. v <= allocated /\ freed[v] = 0 /\ posting # v /\ version # v
      BY <3>1
    <3>4. freed'[v] = 1 /\ \A u \in 1..MaxTries : u # v => freed'[u] = freed[u]
      BY <3>2, <3>3
    <3>5. \A u \in 1..allocated : (freed'[u] = 1 /\ ~Held(u)') \/ (freed'[u] = 0 /\ Held(u)')
      BY <3>1, <3>2, <3>3, <3>4
    <3>6. \A u \in 1..MaxTries : u > allocated => freed'[u] = 0
      BY <3>3, <3>4
    <3> QED
      BY <3>2, <3>5, <3>6
  <2> QED
    BY <2>1, <2>2
<1>13. CASE RecvWake \/ SoundPlayed \/ RecvPacket
  BY <1>13 DEF RecvWake, SoundPlayed, RecvPacket
<1>14. CASE PlaySound \/ PieceSent
  BY <1>14 DEF PlaySound, PieceSent
<1>15. CASE ReportVersion \/ ReportWake
  BY <1>15 DEF ReportVersion, ReportWake
<1>16. CASE Transfer
  BY <1>16, TransferKeepsLink DEF Transfer
<1> QED
  BY <1>1, <1>2, <1>3, <1>4, <1>5, <1>6, <1>7, <1>8, <1>9, <1>10, <1>11, <1>12, <1>13, <1>14,
     <1>15, <1>16
     DEF Next, World, Main, Ota, Recv, Player, Chip

(* Frames that go astray are main's or of the sound that was playing.       *)
LEMMA StrayKept == Inv /\ Next => StrayBounded'
<1> SUFFICES ASSUME Inv, Next PROVE StrayBounded'
  OBVIOUS
<1> USE DEF Inv, TypeOK, TaskTypes, CountTypes, LinkTypes, LinkInUse, StrayBounded,
            MainFrames, SoundFrames
<1>1. CASE NetworkUp \/ TimeUpdated
  BY <1>1 DEF NetworkUp, TimeUpdated
<1>2. CASE MainSends
  BY <1>2 DEF MainSends
<1>3. CASE MainSent
  BY <1>3 DEF MainSent
<1>4. CASE SeeNetwork \/ SeeTime \/ WaitOtaExited
  BY <1>4 DEF SeeNetwork, SeeTime, WaitOtaExited
<1>5. CASE EnterUpgrade
  BY <1>5 DEF EnterUpgrade
<1>6. CASE OtaSetup \/ AskVersion \/ VersionAsked \/ GetVersion
  BY <1>6 DEF OtaSetup, AskVersion, VersionAsked, GetVersion
<1>7. CASE VersionTimeout \/ NoUpdate \/ Offered \/ ConnectServer \/ ServerSilent \/ UpgradeEntered
  BY <1>7 DEF VersionTimeout, NoUpdate, Offered, ConnectServer, ServerSilent, UpgradeEntered
<1>8. CASE AnswerChip \/ ChipAnswered \/ UpdateEnds \/ OtaExit
  BY <1>8 DEF AnswerChip, ChipAnswered, UpdateEnds, OtaExit
<1>9. CASE RecvVersion
  BY <1>9 DEF RecvVersion
<1>10. CASE Post
  BY <1>10 DEF Post
<1>11. CASE RecvWake
  BY <1>11 DEF RecvWake
<1>12. CASE SoundPlayed
  BY <1>12 DEF SoundPlayed
<1>13. CASE RecvPacket
  BY <1>13 DEF RecvPacket
<1>14. CASE Discard
  BY <1>14 DEF Discard
<1>15. CASE PlaySound
  BY <1>15 DEF PlaySound
<1>16. CASE PieceSent
  BY <1>16 DEF PieceSent
<1>17. CASE ReportVersion \/ ReportWake
  BY <1>17 DEF ReportVersion, ReportWake
<1>18. CASE Transfer
  BY <1>18, TransferKeepsLink DEF Transfer
<1> QED
  BY <1>1, <1>2, <1>3, <1>4, <1>5, <1>6, <1>7, <1>8, <1>9, <1>10, <1>11, <1>12, <1>13, <1>14,
     <1>15, <1>16, <1>17, <1>18
     DEF Next, World, Main, Ota, Recv, Player, Chip

(* No action makes a flag of anything but a truth value.                    *)
LEMMA FlagsTyped == Inv /\ Next => FlagTypes'
<1> SUFFICES ASSUME Inv, Next PROVE FlagTypes'
  OBVIOUS
<1> USE DEF Inv, TypeOK, FlagTypes
<1>1. CASE World \/ Main
  BY <1>1, Zenon DEF World, NetworkUp, TimeUpdated, Main, SeeNetwork, MainSends, MainSent, SeeTime,
     WaitOtaExited
<1>2. CASE Ota
  BY <1>2, Zenon DEF Ota, OtaSetup, AskVersion, VersionAsked, GetVersion, VersionTimeout, NoUpdate,
     Offered, ConnectServer, ServerSilent, EnterUpgrade, UpgradeEntered, AnswerChip, ChipAnswered, UpdateEnds, OtaExit
<1>3. CASE Recv \/ Player \/ Chip
  BY <1>3, Zenon DEF Recv, RecvVersion, Post, Discard, RecvWake, SoundPlayed, RecvPacket, Player,
     PlaySound, PieceSent, Chip, ReportVersion, ReportWake
<1>4. CASE Transfer
  BY <1>4, Zenon DEF Transfer, Link!Complete, Link!Progress, Link!Start, Link!Refuse, Link!Overlap
<1> QED
  BY <1>1, <1>2, <1>3, <1>4, Zenon DEF Next

-----------------------------------------------------------------------------
(* The inductive invariant.                                                 *)
LEMMA Inductive == Spec => []Inv
<1>1. Init => Inv
  <2> SUFFICES ASSUME Init PROVE Inv
    OBVIOUS
  <2>1. TaskTypes /\ CountTypes /\ VersionTypes /\ LinkTypes
    BY DEF Init, Link!Init, TaskTypes, CountTypes, VersionTypes, LinkTypes
  <2>2. FlagTypes
    BY Zenon DEF Init, Link!Init, FlagTypes
  <2>3. RequestsAccounted
    <3>1. Reports(<<>>) = {}
      BY DEF Reports
    <3>2. Reported = 0
      BY <3>1, FS_EmptySet DEF Init, Reported
    <3> QED
      BY <3>2 DEF Init, Link!Init, RequestsAccounted
  <2>4. LinkInUse /\ HeapView /\ StrayBounded
    BY DEF Init, Link!Init, LinkInUse, HeapView, Held, StrayBounded, MainFrames, SoundFrames
  <2> QED
    BY <2>1, <2>2, <2>3, <2>4 DEF Inv, TypeOK
<1>2. Inv /\ Next => Inv'
  BY TasksTyped, CountsTyped, VersionsTyped, LinkTyped, FlagsTyped, LinkUse, RequestsKept,
     HeapKept, StrayKept DEF Inv, TypeOK
<1>3. Inv /\ UNCHANGED vars => Inv'
  BY DEF vars, Inv, TypeOK, TaskTypes, CountTypes, VersionTypes, LinkTypes, FlagTypes, LinkInUse,
     RequestsAccounted, Reported, HeapView, Held, StrayBounded, MainFrames, SoundFrames
<1> QED
  BY <1>1, <1>2, <1>3, PTL DEF Spec

(* However the discarding of vb6824_recv_routine and the receiving of       *)
(* vb6824_get_version interleave, a version string has one owner until it   *)
(* is freed, once, for any number of requests.                              *)
THEOREM StringsAccounted == Spec => []BootInv
<1>1. Inv => VersionsAccounted
  <2> SUFFICES ASSUME Inv, NEW v \in 1..allocated
               PROVE  \/ freed[v] = 1 /\ Owners(v) = {}
                      \/ freed[v] = 0 /\ \E o \in {"queue", "recv", "ota"} : Owners(v) = {o}
    BY DEF VersionsAccounted
  <2>1. v \in Nat \ {0}
    BY DEF Inv, TypeOK, VersionTypes
  <2>2. CASE freed[v] = 1
    BY <2>2 DEF Inv, HeapView, Held, Owners
  <2>3. CASE freed[v] = 0 /\ versionQ = <<v>>
    <3>1. posting # v /\ version # v
      BY <2>1, <2>3 DEF Inv, HeapView
    <3>2. Owners(v) = {"queue"}
      BY <2>3, <3>1 DEF Owners
    <3> QED
      BY <2>3, <3>2
  <2>4. CASE freed[v] = 0 /\ posting = v
    <3>1. versionQ # <<v>> /\ version # v
      BY <2>1, <2>4 DEF Inv, HeapView
    <3>2. Owners(v) = {"recv"}
      BY <2>4, <3>1 DEF Owners
    <3> QED
      BY <2>4, <3>2
  <2>5. CASE freed[v] = 0 /\ version = v
    <3>1. versionQ # <<v>> /\ posting # v
      BY <2>1, <2>5 DEF Inv, HeapView
    <3>2. Owners(v) = {"ota"}
      BY <2>5, <3>1 DEF Owners
    <3> QED
      BY <2>5, <3>2
  <2> QED
    BY <2>2, <2>3, <2>4, <2>5 DEF Inv, HeapView, Held
<1>2. Inv => BootInv
  BY <1>1 DEF Inv, BootInv
<1> QED
  BY <1>2, Inductive, PTL

(* Whatever order main, the update task and the wake words come in, only    *)
(* main's two frames and one sound reach a chip already in upgrade mode.    *)
THEOREM StrayFramesBounded == Spec => []FewStrayFrames
<1>1. Inv => FewStrayFrames
  BY DEF Inv, TypeOK, TaskTypes, CountTypes, LinkTypes, LinkInUse, StrayBounded, MainFrames,
     SoundFrames, FewStrayFrames
<1> QED
  BY <1>1, Inductive, PTL
=============================================================================
