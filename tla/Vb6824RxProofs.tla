--------------------------- MODULE Vb6824RxProofs ---------------------------
(***************************************************************************)
(* Proofs about the receive path: the message buffer within its bytes, the *)
(* one packet the mode switch may cost, and the order and completeness of  *)
(* the others, for any buffer, any frames of the two protocols and any     *)
(* number of them.                                                         *)
(***************************************************************************)
EXTENDS Vb6824Rx, WellFoundedInduction, SequenceTheorems, TLAPS

-----------------------------------------------------------------------------
(* Induction, for a set instead of a predicate.                             *)
LEMMA LeastOf ==
  ASSUME NEW T, T \subseteq Nat, T # {}
  PROVE  \E x \in T : \A y \in T : x <= y
<1>1. IsWellFoundedOn(OpToRel(<,Nat), Nat)
  BY NatLessThanWellFounded
<1>2. PICK x \in T : \A y \in T : ~(<<y, x>> \in OpToRel(<,Nat))
  BY <1>1, WFMin
<1>3. \A y \in T : ~(y < x)
  BY <1>2 DEF OpToRel
<1> QED
  BY <1>3

LEMMA SetInduction ==
  ASSUME NEW S, 0 \in S, \A n \in Nat : n \in S => n + 1 \in S
  PROVE  \A n \in Nat : n \in S
<1> SUFFICES ASSUME Nat \ S # {} PROVE FALSE
  OBVIOUS
<1>1. PICK x \in Nat \ S : \A y \in Nat \ S : x <= y
  BY LeastOf
<1>2. x - 1 \in Nat /\ x - 1 \in S
  BY <1>1
<1> QED
  BY <1>1, <1>2

(* What is known of a message: what it takes of the buffer.                 *)
Weighs(q) == \A n \in 1..Len(q) : q[n].frame.size \in Nat

(* The recursive definition of Bytes defines a function.                    *)
LEMMA BytesDef ==
  ASSUME NEW S, NEW q \in Seq(S), Weighs(q)
  PROVE  /\ Bytes(q)[0] = 0
         /\ \A n \in 1..Len(q) : Bytes(q)[n] = Bytes(q)[n - 1] + LengthPrefix + q[n].frame.size
<1> DEFINE Is(f, m) == f = [n \in 0..m |-> IF n = 0 THEN 0
                                           ELSE f[n - 1] + LengthPrefix + q[n].frame.size]
           T == {m \in Nat : \E f : Is(f, m)}
<1>1. 0 \in T
  <2>1. Is([n \in 0..0 |-> 0], 0)
    OBVIOUS
  <2> HIDE DEF Is
  <2> QED
    BY <2>1
<1>2. ASSUME NEW m \in Nat, m \in T PROVE m + 1 \in T
  <2>1. PICK f : Is(f, m)
    BY <1>2
  <2> DEFINE g == [n \in 0..(m + 1) |-> IF n = m + 1 THEN f[m] + LengthPrefix + q[n].frame.size
                                        ELSE f[n]]
  <2>2. Is(g, m + 1)
    BY <2>1
  <2> HIDE DEF g, Is
  <2> QED
    BY <2>2
<1>3. \A n \in Nat : n \in T
  <2> HIDE DEF T
  <2> QED
    BY <1>1, <1>2, SetInduction
<1>4. \E f : Is(f, Len(q))
  BY <1>3
<1>5. Bytes(q) = CHOOSE f : Is(f, Len(q))
  BY DEF Bytes
<1>6. Is(Bytes(q), Len(q))
  <2> HIDE DEF Is
  <2> QED
    BY <1>4, <1>5
<1> QED
  BY <1>6

(* Bytes are natural numbers.                                               *)
LEMMA BytesType ==
  ASSUME NEW S, NEW q \in Seq(S), Weighs(q)
  PROVE  \A n \in 0..Len(q) : Bytes(q)[n] \in Nat
<1> DEFINE T == {n \in Nat : n <= Len(q) => Bytes(q)[n] \in Nat}
<1>1. 0 \in T
  BY BytesDef
<1>2. ASSUME NEW n \in Nat, n \in T PROVE n + 1 \in T
  <2>1. CASE n + 1 <= Len(q)
    <3>1. n + 1 \in 1..Len(q) /\ n <= Len(q) /\ (n + 1) - 1 = n
      BY <2>1
    <3>2. Bytes(q)[n] \in Nat /\ q[n + 1].frame.size \in Nat
      BY <1>2, <3>1 DEF Weighs
    <3>3. Bytes(q)[n + 1] = Bytes(q)[n] + LengthPrefix + q[n + 1].frame.size
      BY <3>1, BytesDef
    <3> QED
      BY <3>2, <3>3 DEF LengthPrefix
  <2> QED
    BY <2>1
<1>3. \A n \in Nat : n \in T
  <2> HIDE DEF T
  <2> QED
    BY <1>1, <1>2, SetInduction
<1> QED
  BY <1>3

(* A message put behind the others takes its bytes and its length prefix.   *)
LEMMA UsedAppend ==
  ASSUME NEW S, NEW q \in Seq(S), NEW m \in S, Weighs(q), m.frame.size \in Nat
  PROVE  Used(Append(q, m)) = Used(q) + LengthPrefix + m.frame.size
<1> DEFINE r == Append(q, m)
           T == {n \in Nat : n <= Len(q) => Bytes(r)[n] = Bytes(q)[n]}
<1>0. r \in Seq(S) /\ Weighs(r) /\ Len(r) = Len(q) + 1
      /\ \A n \in 1..Len(q) : r[n] = q[n]
      /\ r[Len(r)] = m
  BY DEF Weighs
<1> HIDE DEF r
<1>1. 0 \in T
  BY <1>0, BytesDef
<1>2. ASSUME NEW n \in Nat, n \in T PROVE n + 1 \in T
  <2> SUFFICES ASSUME n + 1 <= Len(q) PROVE Bytes(r)[n + 1] = Bytes(q)[n + 1]
    OBVIOUS
  <2>1. n + 1 \in 1..Len(q) /\ n + 1 \in 1..Len(r) /\ Bytes(r)[n] = Bytes(q)[n]
    BY <1>0, <1>2
  <2>2. Bytes(r)[n + 1] = Bytes(r)[(n + 1) - 1] + LengthPrefix + r[n + 1].frame.size
    BY <1>0, <2>1, BytesDef
  <2>3. Bytes(q)[n + 1] = Bytes(q)[(n + 1) - 1] + LengthPrefix + q[n + 1].frame.size
    BY <2>1, BytesDef
  <2> QED
    BY <1>0, <2>1, <2>2, <2>3
<1>3. \A n \in Nat : n \in T
  <2> HIDE DEF T
  <2> QED
    BY <1>1, <1>2, SetInduction
<1>4. Bytes(r)[Len(q)] = Bytes(q)[Len(q)]
  BY <1>3
<1>5. Bytes(r)[Len(r)] = Bytes(r)[Len(r) - 1] + LengthPrefix + r[Len(r)].frame.size
  BY <1>0, BytesDef
<1>6. Len(r) - 1 = Len(q)
  BY <1>0
<1> QED
  BY <1>0, <1>4, <1>5, <1>6 DEF Used, r

(* One taken off the front gives them back.                                 *)
LEMMA UsedTail ==
  ASSUME NEW S, NEW q \in Seq(S), q # <<>>, Weighs(q)
  PROVE  Used(q) = Used(Tail(q)) + LengthPrefix + Head(q).frame.size
<1> DEFINE r == Tail(q)
           w == LengthPrefix + Head(q).frame.size
           T == {n \in Nat : n <= Len(r) => Bytes(q)[n + 1] = Bytes(r)[n] + w}
<1>0. r \in Seq(S) /\ Weighs(r) /\ Len(q) = Len(r) + 1 /\ w \in Nat
      /\ \A n \in 1..Len(r) : r[n] = q[n + 1]
      /\ Head(q) = q[1]
  BY DEF Weighs, LengthPrefix
<1> HIDE DEF r
<1>1. 0 \in T
  BY <1>0, BytesDef DEF LengthPrefix
<1>2. ASSUME NEW n \in Nat, n \in T PROVE n + 1 \in T
  <2> SUFFICES ASSUME n + 1 <= Len(r) PROVE Bytes(q)[(n + 1) + 1] = Bytes(r)[n + 1] + w
    OBVIOUS
  <2>1. n + 1 \in 1..Len(r) /\ (n + 1) + 1 \in 1..Len(q) /\ Bytes(q)[n + 1] = Bytes(r)[n] + w
    BY <1>0, <1>2
  <2>2. Bytes(r)[n + 1] = Bytes(r)[n] + LengthPrefix + r[n + 1].frame.size
    BY <1>0, <2>1, BytesDef
  <2>3. Bytes(q)[(n + 1) + 1] = Bytes(q)[((n + 1) + 1) - 1] + LengthPrefix + q[(n + 1) + 1].frame.size
    BY <2>1, BytesDef
  <2>4. r[n + 1].frame.size = q[(n + 1) + 1].frame.size /\ r[n + 1].frame.size \in Nat
    BY <1>0, <2>1 DEF Weighs
  <2>5. Bytes(r)[n] \in Nat /\ ((n + 1) + 1) - 1 = n + 1
    BY <1>0, <2>1, BytesType
  <2> HIDE DEF w
  <2>6. PICK a \in Nat : a = Bytes(r)[n]
    BY <2>5
  <2>7. PICK b \in Nat : b = r[n + 1].frame.size
    BY <2>4
  <2>8. PICK c \in Nat : c = w
    BY <1>0
  <2>9. Bytes(r)[n + 1] = a + 4 + b
    BY <2>2, <2>6, <2>7 DEF LengthPrefix
  <2>10. Bytes(q)[(n + 1) + 1] = (a + c) + 4 + b
    BY <2>1, <2>3, <2>4, <2>5, <2>6, <2>7, <2>8 DEF LengthPrefix
  <2>11. (a + c) + 4 + b = (a + 4 + b) + c
    OBVIOUS
  <2> QED
    BY <2>8, <2>9, <2>10, <2>11
<1>3. \A n \in Nat : n \in T
  <2> HIDE DEF T
  <2> QED
    BY <1>1, <1>2, SetInduction
<1>4. Bytes(q)[Len(r) + 1] = Bytes(r)[Len(r)] + w
  BY <1>0, <1>3
<1>5. Bytes(r)[Len(r)] \in Nat /\ Head(q).frame.size \in Nat
  BY <1>0, BytesType DEF Weighs
<1>6. Used(q) = Used(r) + w
  BY <1>0, <1>4 DEF Used
<1>7. \A a, b \in Nat : a + (LengthPrefix + b) = a + LengthPrefix + b
  BY DEF LengthPrefix
<1> QED
  BY <1>5, <1>6, <1>7 DEF Used, r

-----------------------------------------------------------------------------
(* Joining sequences of messages.                                           *)
Cat(a, b) == a \o b

LEMMA Joined ==
  ASSUME NEW S, NEW a \in Seq(S), NEW b \in Seq(S)
  PROVE  Cat(a, b) \in Seq(S) /\ Cat(<<>>, a) = a /\ Cat(a, <<>>) = a
  BY ConcatProperties, ConcatEmptySeq DEF Cat

LEMMA Regrouped ==
  ASSUME NEW S, NEW a \in Seq(S), NEW b \in Seq(S), NEW c \in Seq(S)
  PROVE  Cat(Cat(a, b), c) = Cat(a, Cat(b, c))
  BY DEF Cat

(* The recursive definition of PacketsUpTo defines a function.              *)
LEMMA PacketsDef ==
  ASSUME NEW S, NEW q \in Seq(S)
  PROVE  /\ PacketsUpTo(q)[0] = <<>>
         /\ \A n \in 1..Len(q) : PacketsUpTo(q)[n] = Cat(PacketsUpTo(q)[n - 1], IfPacket(q[n]))
<1> DEFINE Is(f, m) == f = [n \in 0..m |-> IF n = 0 THEN <<>> ELSE Cat(f[n - 1], IfPacket(q[n]))]
           T == {m \in Nat : \E f : Is(f, m)}
<1> HIDE DEF IfPacket
<1>1. 0 \in T
  <2>1. Is([n \in 0..0 |-> <<>>], 0)
    OBVIOUS
  <2> HIDE DEF Is
  <2> QED
    BY <2>1
<1>2. ASSUME NEW m \in Nat, m \in T PROVE m + 1 \in T
  <2>1. PICK f : Is(f, m)
    BY <1>2
  <2> DEFINE g == [n \in 0..(m + 1) |-> IF n = m + 1 THEN Cat(f[m], IfPacket(q[n])) ELSE f[n]]
  <2>2. Is(g, m + 1)
    BY <2>1
  <2> HIDE DEF g, Is
  <2> QED
    BY <2>2
<1>3. \A n \in Nat : n \in T
  <2> HIDE DEF T
  <2> QED
    BY <1>1, <1>2, SetInduction
<1>4. \E f : Is(f, Len(q))
  <2>1. Len(q) \in T
    <3>1. Len(q) \in Nat
      OBVIOUS
    <3> HIDE DEF T
    <3> QED
      BY <1>3, <3>1
  <2> HIDE DEF Is
  <2> QED
    BY <2>1
<1>5. PacketsUpTo(q) = CHOOSE f : Is(f, Len(q))
  BY DEF PacketsUpTo, Cat
<1>6. Is(PacketsUpTo(q), Len(q))
  <2> HIDE DEF Is
  <2> QED
    BY <1>4, <1>5
<1> QED
  BY <1>6

(* Packets are messages.                                                    *)
LEMMA IfPacketType ==
  ASSUME NEW S, NEW m \in S PROVE IfPacket(m) \in Seq(S)
  BY DEF IfPacket

LEMMA PacketsType ==
  ASSUME NEW S, NEW q \in Seq(S)
  PROVE  \A n \in 0..Len(q) : PacketsUpTo(q)[n] \in Seq(S)
<1> DEFINE T == {n \in Nat : n <= Len(q) => PacketsUpTo(q)[n] \in Seq(S)}
<1>1. 0 \in T
  <2>1. PacketsUpTo(q)[0] = <<>>
    BY PacketsDef
  <2>2. <<>> \in Seq(S)
    OBVIOUS
  <2> QED
    BY <2>1, <2>2
<1>2. ASSUME NEW n \in Nat, n \in T PROVE n + 1 \in T
  <2>1. CASE n + 1 <= Len(q)
    <3>1. n + 1 \in 1..Len(q) /\ n <= Len(q) /\ (n + 1) - 1 = n
      BY <2>1
    <3>2. PacketsUpTo(q)[n] \in Seq(S) /\ IfPacket(q[n + 1]) \in Seq(S)
      BY <1>2, <3>1, IfPacketType
    <3>3. PacketsUpTo(q)[n + 1] = Cat(PacketsUpTo(q)[n], IfPacket(q[n + 1]))
      BY <3>1, PacketsDef
    <3> QED
      BY <3>2, <3>3, Joined
  <2> QED
    BY <2>1
<1>3. \A n \in Nat : n \in T
  <2> HIDE DEF T
  <2> QED
    BY <1>1, <1>2, SetInduction
<1> QED
  BY <1>3

(* A message put behind the others, and one taken off the front.            *)
LEMMA PacketsAppend ==
  ASSUME NEW S, NEW q \in Seq(S), NEW m \in S
  PROVE  Packets(Append(q, m)) = Cat(Packets(q), IfPacket(m))
<1> DEFINE r == Append(q, m)
           T == {n \in Nat : n <= Len(q) => PacketsUpTo(r)[n] = PacketsUpTo(q)[n]}
<1>0. /\ r \in Seq(S) /\ Len(r) = Len(q) + 1
      /\ r[Len(r)] = m
      /\ \A n \in 1..Len(q) : r[n] = q[n]
  OBVIOUS
<1> HIDE DEF r
<1>1. 0 \in T
  BY <1>0, PacketsDef
<1>2. ASSUME NEW n \in Nat, n \in T PROVE n + 1 \in T
  <2> SUFFICES ASSUME n + 1 <= Len(q) PROVE PacketsUpTo(r)[n + 1] = PacketsUpTo(q)[n + 1]
    OBVIOUS
  <2>1. n + 1 \in 1..Len(q) /\ n + 1 \in 1..Len(r) /\ PacketsUpTo(r)[n] = PacketsUpTo(q)[n]
        /\ (n + 1) - 1 = n
    BY <1>0, <1>2
  <2>2. PacketsUpTo(r)[n + 1] = Cat(PacketsUpTo(r)[n], IfPacket(r[n + 1]))
    BY <1>0, <2>1, PacketsDef
  <2>3. PacketsUpTo(q)[n + 1] = Cat(PacketsUpTo(q)[n], IfPacket(q[n + 1]))
    BY <2>1, PacketsDef
  <2> QED
    BY <1>0, <2>1, <2>2, <2>3
<1>3. \A n \in Nat : n \in T
  <2> HIDE DEF T
  <2> QED
    BY <1>1, <1>2, SetInduction
<1>4. PacketsUpTo(r)[Len(q)] = PacketsUpTo(q)[Len(q)]
  BY <1>3
<1>5. Len(r) \in 1..Len(r) /\ Len(r) - 1 = Len(q)
  BY <1>0
<1>6. \A n \in 1..Len(r) : PacketsUpTo(r)[n] = Cat(PacketsUpTo(r)[n - 1], IfPacket(r[n]))
  BY <1>0, PacketsDef, Zenon
<1>7. PacketsUpTo(r)[Len(r)] = Cat(PacketsUpTo(r)[Len(r) - 1], IfPacket(r[Len(r)]))
  BY <1>5, <1>6, Zenon
<1>8. Packets(r) = PacketsUpTo(r)[Len(r)] /\ Packets(q) = PacketsUpTo(q)[Len(q)]
  BY DEF Packets
<1>9. Packets(r) = Cat(Packets(q), IfPacket(m))
  BY <1>0, <1>4, <1>5, <1>7, <1>8, Zenon
<1> QED
  BY <1>9 DEF r

LEMMA PacketsTail ==
  ASSUME NEW S, NEW q \in Seq(S), q # <<>>
  PROVE  Packets(q) = Cat(IfPacket(Head(q)), Packets(Tail(q)))
<1> DEFINE r == Tail(q)
           w == IfPacket(Head(q))
           T == {n \in Nat : n <= Len(r) => PacketsUpTo(q)[n + 1] = Cat(w, PacketsUpTo(r)[n])}
<1>0. r \in Seq(S) /\ Len(q) = Len(r) + 1
      /\ \A n \in 1..Len(r) : r[n] = q[n + 1]
      /\ Head(q) = q[1] /\ Head(q) \in S
  OBVIOUS
<1>9. w \in Seq(S)
  BY <1>0, IfPacketType
<1> HIDE DEF r
<1>1. 0 \in T
  <2>1. PacketsUpTo(q)[1] = Cat(PacketsUpTo(q)[1 - 1], IfPacket(q[1]))
    <3>1. 1 \in 1..Len(q)
      BY <1>0
    <3> QED
      BY <3>1, PacketsDef, Zenon
  <2>2. PacketsUpTo(q)[0] = <<>> /\ PacketsUpTo(r)[0] = <<>>
    BY <1>0, PacketsDef, Zenon
  <2>3. Cat(<<>>, w) = w /\ Cat(w, <<>>) = w
    BY <1>9, Joined, Zenon
  <2>4. 1 - 1 = 0 /\ 0 + 1 = 1
    OBVIOUS
  <2>5. PacketsUpTo(q)[0 + 1] = Cat(w, PacketsUpTo(r)[0])
    BY <1>0, <2>1, <2>2, <2>3, <2>4
  <2> QED
    BY <2>5
<1>2. ASSUME NEW n \in Nat, n \in T PROVE n + 1 \in T
  <2>1. CASE n + 1 <= Len(r)
    <3>1. /\ n \in 0..Len(r) /\ n + 1 \in 1..Len(r) /\ (n + 1) + 1 \in 1..Len(q) /\ n <= Len(r)
          /\ (n + 1) - 1 = n /\ ((n + 1) + 1) - 1 = n + 1
      BY <1>0, <2>1
    <3>2. PacketsUpTo(q)[n + 1] = Cat(w, PacketsUpTo(r)[n])
      BY <1>2, <3>1, Zenon
    <3>3. PacketsUpTo(r)[n + 1] = Cat(PacketsUpTo(r)[n], IfPacket(r[n + 1]))
      <4>1. PacketsUpTo(r)[n + 1] = Cat(PacketsUpTo(r)[(n + 1) - 1], IfPacket(r[n + 1]))
        BY <1>0, <3>1, PacketsDef, Zenon
      <4> QED
        BY <3>1, <4>1, Zenon
    <3>4. PacketsUpTo(q)[(n + 1) + 1] = Cat(PacketsUpTo(q)[n + 1], IfPacket(q[(n + 1) + 1]))
      <4>1. PacketsUpTo(q)[(n + 1) + 1] = Cat(PacketsUpTo(q)[((n + 1) + 1) - 1], IfPacket(q[(n + 1) + 1]))
        BY <3>1, PacketsDef, Zenon
      <4> QED
        BY <3>1, <4>1, Zenon
    <3>5. q[(n + 1) + 1] = r[n + 1] /\ r[n + 1] \in S
      BY <1>0, <3>1
    <3>6. PacketsUpTo(r)[n] \in Seq(S) /\ IfPacket(r[n + 1]) \in Seq(S)
      BY <1>0, <3>1, <3>5, PacketsType, IfPacketType, Zenon
    <3> HIDE DEF w
    <3>7. Cat(Cat(w, PacketsUpTo(r)[n]), IfPacket(r[n + 1])) = Cat(w, Cat(PacketsUpTo(r)[n], IfPacket(r[n + 1])))
      BY <1>9, <3>6, Regrouped
    <3>8. PacketsUpTo(q)[(n + 1) + 1] = Cat(w, PacketsUpTo(r)[n + 1])
      BY <3>2, <3>3, <3>4, <3>5, <3>7, Zenon
    <3> QED
      BY <3>8
  <2> QED
    BY <2>1
<1>3. \A n \in Nat : n \in T
  <2> HIDE DEF T
  <2> QED
    BY <1>1, <1>2, SetInduction
<1>4. PacketsUpTo(q)[Len(r) + 1] = Cat(w, PacketsUpTo(r)[Len(r)])
  <2>1. Len(r) \in Nat /\ Len(r) <= Len(r)
    BY <1>0
  <2> HIDE DEF w
  <2> QED
    BY <1>3, <2>1, Zenon
<1>5. Packets(q) = PacketsUpTo(q)[Len(q)] /\ Packets(r) = PacketsUpTo(r)[Len(r)]
  BY DEF Packets
<1>6. Packets(q) = Cat(w, Packets(r))
  BY <1>0, <1>4, <1>5, Zenon
<1> QED
  BY <1>6 DEF r

-----------------------------------------------------------------------------
(* The frame in the interrupt is one of the protocol it is sent in.         *)
IncomingInv ==
    incoming # None => [protocol |-> incoming.protocol, frame |-> incoming.frame] \in ChipMessages

(* Upgrade packets are sent, parsed and stored only after the mode switch.  *)
AfterSwitch ==
    /\ chipMode = "jl" => isOtaMode
    /\ incoming # None /\ incoming.protocol = "jl" => isOtaMode /\ incoming.parser = "jl"
    /\ \A i \in 1..Len(received) : received[i].protocol = "jl" => isOtaMode

(* The receive that swallowed an upgrade packet was the last of the voice   *)
(* branch.                                                                  *)
SwallowInv ==
    /\ Len(swallowed) <= 1
    /\ swallowed # <<>> \/ forwarded # <<>> => isOtaMode /\ pc # "voice"
    /\ pc = "jl" => isOtaMode
    /\ \A i \in 1..Len(swallowed) : swallowed[i].protocol = "jl"

Inv == TypeOK /\ NeverOverfull /\ IncomingInv /\ AfterSwitch /\ SwallowInv /\ PacketsInOrder

(* Facts about frames and messages.                                         *)
LEMMA FrameFacts ==
  /\ \A f \in VoiceFrames : f \in [cmd : Words, size : 2..502]
  /\ \A f \in JlFrames : f \in [cmd : Words, size : 1..16]
  BY RxAssumption

LEMMA MessageFacts ==
  /\ \A m \in Messages : m.frame.size \in Nat
  /\ \A m \in ChipMessages : /\ m.protocol \in Protocols /\ m.frame \in VoiceFrames \cup JlFrames
                             /\ m.protocol = "voice" => m.frame \in VoiceFrames
                             /\ m.protocol = "jl" => m.frame \in JlFrames
<1>1. ASSUME NEW m \in ChipMessages
      PROVE  /\ m.protocol \in Protocols /\ m.frame \in VoiceFrames \cup JlFrames
             /\ m.protocol = "voice" => m.frame \in VoiceFrames
             /\ m.protocol = "jl" => m.frame \in JlFrames
  BY DEF ChipMessages, Protocols
<1>2. ASSUME NEW m \in ChipMessages PROVE m.frame.size \in Nat
  BY <1>1, FrameFacts
<1>3. ASSUME NEW m \in CutMessages PROVE m.frame.size \in Nat
  <2>1. PICK f \in VoiceFrames : f.size > 2 /\ m = [protocol |-> "cut", frame |-> [f EXCEPT !.size = @ - 2]]
    BY DEF CutMessages
  <2>2. f \in [cmd : Words, size : 2..502]
    BY FrameFacts
  <2> QED
    BY <2>1, <2>2
<1> QED
  BY <1>1, <1>2, <1>3 DEF Messages

-----------------------------------------------------------------------------
LEMMA InitInv == Init => Inv
<1> SUFFICES ASSUME Init PROVE Inv
  OBVIOUS
<1>1. TypeOK
  <2>1. isOtaMode \in BOOLEAN
    BY Zenon DEF Init
  <2> QED
    BY <2>1, RxAssumption DEF Init, TypeOK, Protocols
<1>2. Used(<<>>) = 0
  <2>1. <<>> \in Seq({}) /\ Weighs(<<>>)
    BY DEF Weighs
  <2> QED
    BY <2>1, BytesDef DEF Used
<1>3. NeverOverfull
  BY <1>2, RxAssumption DEF Init, NeverOverfull
<1>4. PacketsInOrder
  <2>1. Packets(<<>>) = <<>>
    <3>1. <<>> \in Seq({}) /\ Len(<<>>) = 0
      OBVIOUS
    <3> QED
      BY <3>1, PacketsDef DEF Packets
  <2> QED
    BY <2>1 DEF Init, PacketsInOrder
<1>5. IncomingInv /\ AfterSwitch /\ SwallowInv
  BY DEF Init, IncomingInv, AfterSwitch, SwallowInv
<1> QED
  BY <1>1, <1>3, <1>4, <1>5 DEF Inv

(* What the end of a frame puts into the buffer, if anything.               *)
LEMMA EndsWith ==
  ASSUME Inv, FrameEnds \/ CutFrameEnds
  PROVE  \E m \in Messages :
           /\ \/ UNCHANGED <<received, stored>>
              \/ /\ Fits(m) /\ received' = Append(received, m)
                 /\ stored' = IF m.protocol = "jl" THEN Append(stored, m) ELSE stored
           /\ m.protocol = "jl" => isOtaMode
<1>1. CASE FrameEnds
  <2> DEFINE m == [protocol |-> incoming.protocol, frame |-> incoming.frame]
  <2>1. m \in Messages
    BY <1>1 DEF FrameEnds, Inv, IncomingInv, Messages
  <2>2. m.protocol = "jl" => isOtaMode
    BY <1>1 DEF FrameEnds, Inv, AfterSwitch
  <2>3. \/ UNCHANGED <<received, stored>>
        \/ /\ Fits(m) /\ received' = Append(received, m)
           /\ stored' = IF m.protocol = "jl" THEN Append(stored, m) ELSE stored
    BY <1>1 DEF FrameEnds, Store
  <2> QED
    BY <2>1, <2>2, <2>3
<1>2. CASE CutFrameEnds
  <2> DEFINE m == [protocol |-> "cut", frame |-> [incoming.frame EXCEPT !.size = @ - 2]]
  <2>1. incoming.frame \in VoiceFrames
    <3>1. incoming.protocol \in Protocols /\ incoming.protocol # "jl"
      BY <1>2 DEF CutFrameEnds, Inv, AfterSwitch, TypeOK
    <3> QED
      BY <1>2, <3>1, MessageFacts DEF CutFrameEnds, Inv, IncomingInv, Protocols
  <2>2. m \in Messages
    BY <1>2, <2>1 DEF CutFrameEnds, Messages, CutMessages
  <2>3. \/ UNCHANGED <<received, stored>>
        \/ /\ Fits(m) /\ received' = Append(received, m)
           /\ stored' = IF m.protocol = "jl" THEN Append(stored, m) ELSE stored
    BY <1>2 DEF CutFrameEnds, Store
  <2> QED
    BY <2>2, <2>3
<1> QED
  BY <1>1, <1>2

(* The bytes in use after a message was stored or taken.                    *)
LEMMA BytesStep ==
  ASSUME Inv, Next
  PROVE  NeverOverfull'
<1>1. received \in Seq(Messages) /\ Weighs(received)
  BY MessageFacts DEF Inv, TypeOK, Weighs
<1>2. Used(received) \in Nat /\ Used(received) <= Capacity /\ Capacity \in Nat
  BY <1>1, BytesType, RxAssumption DEF Used, Inv, NeverOverfull
<1>3. CASE received' = received
  BY <1>2, <1>3 DEF NeverOverfull
<1>4. CASE FrameEnds \/ CutFrameEnds
  <2>1. PICK m \in Messages : \/ received' = received
                              \/ Fits(m) /\ received' = Append(received, m)
    BY <1>4, EndsWith
  <2>2. CASE Fits(m) /\ received' = Append(received, m)
    <3>1. Used(received') = Used(received) + LengthPrefix + m.frame.size
      BY <1>1, <2>2, UsedAppend, MessageFacts
    <3> QED
      BY <2>2, <3>1 DEF Fits, NeverOverfull
  <2> QED
    BY <1>3, <2>1, <2>2
<1>5. CASE received # <<>> /\ received' = Tail(received)
  <2>1. Used(received) = Used(received') + LengthPrefix + Head(received).frame.size
    BY <1>1, <1>5, UsedTail
  <2>2. Head(received).frame.size \in Nat
    BY <1>1, <1>5, MessageFacts
  <2>3. received' \in Seq(Messages) /\ Weighs(received')
    BY <1>1, <1>5 DEF Weighs
  <2>4. Used(received') \in Nat
    BY <2>3, BytesType DEF Used
  <2> QED
    BY <1>2, <2>1, <2>2, <2>4 DEF NeverOverfull, LengthPrefix
<1> QED
  BY <1>3, <1>4, <1>5 DEF Next, Interrupt, FrameBegins, EnterOtaMode, ChipUpgrades, ReceiveTask,
     TestMode, ReceiveVoice, CallbackReturns, CallbackHangs, ReceiveOta, ReceiveOtaTooLong

(* Storing, swallowing and forwarding keep the order of the packets.        *)
LEMMA OrderStep ==
  ASSUME Inv, Next
  PROVE  PacketsInOrder'
<1>1. /\ received \in Seq(Messages) /\ forwarded \in Seq(Messages)
      /\ swallowed \in Seq(Messages) /\ stored \in Seq(Messages)
      /\ stored = Cat(Cat(swallowed, Packets(forwarded)), Packets(received))
  BY DEF Inv, TypeOK, PacketsInOrder, Cat
<1>2. \A q \in Seq(Messages) : Packets(q) \in Seq(Messages)
  BY PacketsType DEF Packets
<1> DEFINE F == Packets(forwarded)
           R == Packets(received)
<1>3. F \in Seq(Messages) /\ R \in Seq(Messages) /\ Cat(swallowed, F) \in Seq(Messages)
  BY <1>1, <1>2, Joined
<1>4. CASE UNCHANGED <<received, forwarded, swallowed, stored>>
  BY <1>1, <1>4 DEF PacketsInOrder, Cat
<1>5. CASE FrameEnds \/ CutFrameEnds
  <2>1. PICK m \in Messages :
           \/ UNCHANGED <<received, stored>>
           \/ /\ Fits(m) /\ received' = Append(received, m)
              /\ stored' = IF m.protocol = "jl" THEN Append(stored, m) ELSE stored
    BY <1>5, EndsWith
  <2>2. UNCHANGED <<forwarded, swallowed>>
    BY <1>5 DEF FrameEnds, CutFrameEnds
  <2>3. CASE /\ received' = Append(received, m)
             /\ stored' = IF m.protocol = "jl" THEN Append(stored, m) ELSE stored
    <3>1. Packets(received') = Cat(R, IfPacket(m))
      BY <1>1, <2>3, PacketsAppend
    <3>2. IfPacket(m) \in Seq(Messages)
      BY IfPacketType
    <3>3. stored' = Cat(stored, IfPacket(m))
      BY <1>1, <2>3, AppendIsConcat, ConcatEmptySeq DEF IfPacket, Cat
    <3>4. Cat(stored, IfPacket(m)) = Cat(Cat(swallowed, F), Cat(R, IfPacket(m)))
      BY <1>1, <1>3, <3>2, Regrouped
    <3> QED
      BY <2>2, <3>1, <3>3, <3>4 DEF PacketsInOrder, Cat
  <2> QED
    BY <1>4, <2>1, <2>2, <2>3
<1>6. received # <<>> => /\ R = Cat(IfPacket(Head(received)), Packets(Tail(received)))
                         /\ Head(received) \in Messages
                         /\ IfPacket(Head(received)) \in Seq(Messages)
                         /\ Packets(Tail(received)) \in Seq(Messages)
  <2> SUFFICES ASSUME received # <<>>
               PROVE  /\ R = Cat(IfPacket(Head(received)), Packets(Tail(received)))
                      /\ Head(received) \in Messages
                      /\ IfPacket(Head(received)) \in Seq(Messages)
                      /\ Packets(Tail(received)) \in Seq(Messages)
    OBVIOUS
  <2>1. Head(received) \in Messages /\ Tail(received) \in Seq(Messages)
    BY <1>1
  <2> QED
    BY <1>1, <1>2, <2>1, PacketsTail, IfPacketType
<1>7. CASE ReceiveOta
  <2>1. /\ received # <<>> /\ received' = Tail(received)
        /\ forwarded' = Append(forwarded, Head(received)) /\ UNCHANGED <<swallowed, stored>>
    BY <1>7 DEF ReceiveOta
  <2> DEFINE h == IfPacket(Head(received))
             B == Packets(Tail(received))
  <2>2. R = Cat(h, B) /\ h \in Seq(Messages) /\ B \in Seq(Messages)
    BY <1>6, <2>1
  <2>3. Packets(forwarded') = Cat(F, h)
    BY <1>1, <1>6, <2>1, PacketsAppend
  <2> HIDE DEF F, R, h, B
  <2>4. Cat(Cat(swallowed, F), Cat(h, B)) = Cat(Cat(Cat(swallowed, F), h), B)
    BY <1>3, <2>2, Regrouped
  <2>5. Cat(Cat(swallowed, F), h) = Cat(swallowed, Cat(F, h))
    BY <1>1, <1>3, <2>2, Regrouped
  <2>6. stored = Cat(Cat(swallowed, Cat(F, h)), B)
    BY <1>1, <2>2, <2>4, <2>5 DEF F, R
  <2> QED
    BY <2>1, <2>3, <2>6 DEF PacketsInOrder, B, Cat
<1>8. CASE ReceiveVoice
  <2>1. /\ received # <<>> /\ received' = Tail(received) /\ UNCHANGED <<forwarded, stored>>
        /\ pc = "voice"
        /\ swallowed' = IF Head(received).protocol = "jl"
                        THEN Append(swallowed, Head(received)) ELSE swallowed
    BY <1>8 DEF ReceiveVoice
  <2>2. swallowed = <<>> /\ forwarded = <<>>
    BY <2>1 DEF Inv, SwallowInv
  <2>3. F = <<>>
    BY <1>1, <2>2, PacketsDef DEF Packets
  <2> DEFINE h == IfPacket(Head(received))
             B == Packets(Tail(received))
  <2>4. R = Cat(h, B) /\ h \in Seq(Messages) /\ B \in Seq(Messages) /\ Head(received) \in Messages
    BY <1>6, <2>1
  <2>5. swallowed' = h
    BY <2>1, <2>2, <2>4 DEF IfPacket
  <2> HIDE DEF F, R, h, B
  <2>6. stored = Cat(h, B)
    <3>1. Cat(swallowed, F) = <<>>
      BY <1>1, <2>2, <2>3, Joined
    <3>2. Cat(<<>>, R) = R
      BY <1>3, Joined
    <3> QED
      BY <1>1, <2>4, <3>1, <3>2 DEF F, R
  <2>7. Cat(h, <<>>) = h
    BY <2>4, Joined
  <2> QED
    BY <2>1, <2>3, <2>5, <2>6, <2>7 DEF PacketsInOrder, B, F, Cat
<1> QED
  BY <1>4, <1>5, <1>7, <1>8 DEF Next, Interrupt, FrameBegins, EnterOtaMode, ChipUpgrades,
     ReceiveTask, TestMode, CallbackReturns, CallbackHangs, ReceiveOtaTooLong

(* The interrupt keeps what is known.                                       *)
LEMMA InterruptStep ==
  ASSUME Inv, Interrupt
  PROVE  TypeOK' /\ IncomingInv' /\ AfterSwitch' /\ SwallowInv'
<1>1. ASSUME NEW m \in ChipMessages, FrameBegins(m)
      PROVE  TypeOK' /\ IncomingInv' /\ AfterSwitch' /\ SwallowInv'
  <2>1. incoming' = [protocol |-> m.protocol, frame |-> m.frame, parser |-> Parser]
        /\ m.protocol = chipMode /\ sent' = sent + 1 /\ sent < MaxFrames
        /\ UNCHANGED <<isOtaMode, chipMode, received, pc, forwarded, swallowed, stored>>
    BY <1>1 DEF FrameBegins
  <2>2. m.protocol \in Protocols /\ m.frame \in VoiceFrames \cup JlFrames /\ Parser \in Protocols
    BY MessageFacts DEF Parser, Protocols
  <2>3. TypeOK'
    BY <2>1, <2>2, RxAssumption DEF Inv, TypeOK
  <2>4. IncomingInv'
    <3>1. [protocol |-> m.protocol, frame |-> m.frame] = m
      BY DEF ChipMessages
    <3> QED
      BY <2>1, <3>1 DEF IncomingInv
  <2>5. AfterSwitch' /\ SwallowInv'
    BY <2>1 DEF Inv, AfterSwitch, SwallowInv, Parser
  <2> QED
    BY <2>3, <2>4, <2>5
<1>2. CASE FrameEnds \/ CutFrameEnds
  <2>1. PICK m \in Messages :
           /\ \/ UNCHANGED <<received, stored>>
              \/ /\ Fits(m) /\ received' = Append(received, m)
                 /\ stored' = IF m.protocol = "jl" THEN Append(stored, m) ELSE stored
           /\ m.protocol = "jl" => isOtaMode
    BY <1>2, EndsWith
  <2>2. incoming' = None /\ UNCHANGED <<isOtaMode, chipMode, pc, forwarded, swallowed, sent>>
    BY <1>2 DEF FrameEnds, CutFrameEnds
  <2>3. received \in Seq(Messages) /\ stored \in Seq(Messages)
    BY DEF Inv, TypeOK
  <2>4. TypeOK'
    <3>1. received' \in Seq(Messages)
      BY <2>1, <2>3
    <3>2. stored' \in Seq(Messages)
      BY <2>1, <2>3
    <3> QED
      BY <2>2, <3>1, <3>2 DEF Inv, TypeOK
  <2>5. AfterSwitch'
    BY <2>1, <2>2, <2>3 DEF Inv, AfterSwitch
  <2>6. IncomingInv' /\ SwallowInv'
    BY <2>2 DEF Inv, IncomingInv, SwallowInv
  <2> QED
    BY <2>4, <2>5, <2>6
<1> QED
  BY <1>1, <1>2 DEF Interrupt

(* So do the mode switch and the chip's.                                    *)
LEMMA SwitchStep ==
  ASSUME Inv, EnterOtaMode \/ ChipUpgrades
  PROVE  TypeOK' /\ IncomingInv' /\ AfterSwitch' /\ SwallowInv'
<1>1. isOtaMode' \in BOOLEAN
  BY Zenon DEF EnterOtaMode, ChipUpgrades, Inv, TypeOK
<1> QED
  BY <1>1 DEF EnterOtaMode, ChipUpgrades, Inv, TypeOK, IncomingInv, AfterSwitch, SwallowInv, Protocols

(* And the task: the voice branch, entered before the switch, is left with  *)
(* the first receive after it.                                              *)
LEMMA TaskStep ==
  ASSUME Inv, ReceiveTask
  PROVE  TypeOK' /\ IncomingInv' /\ AfterSwitch' /\ SwallowInv'
<1>1. received \in Seq(Messages) /\ swallowed \in Seq(Messages) /\ forwarded \in Seq(Messages)
  BY DEF Inv, TypeOK
<1>2. received # <<>> => /\ Head(received) \in Messages /\ Tail(received) \in Seq(Messages)
                         /\ Head(received) = received[1]
                         /\ \A i \in 1..Len(Tail(received)) : Tail(received)[i] = received[i + 1]
                         /\ Len(received) = Len(Tail(received)) + 1
  BY <1>1
<1>3. CASE TestMode \/ ReceiveOtaTooLong \/ CallbackReturns \/ CallbackHangs
  BY <1>3 DEF TestMode, ReceiveOtaTooLong, CallbackReturns, CallbackHangs, Parser, Inv, TypeOK, IncomingInv, AfterSwitch, SwallowInv
<1>4. CASE ReceiveOta
  <2>1. TypeOK'
    BY <1>1, <1>2, <1>4 DEF ReceiveOta, Inv, TypeOK
  <2>2. AfterSwitch'
    BY <1>1, <1>2, <1>4 DEF ReceiveOta, Inv, AfterSwitch
  <2>3. IncomingInv' /\ SwallowInv'
    BY <1>4 DEF ReceiveOta, Inv, IncomingInv, SwallowInv
  <2> QED
    BY <2>1, <2>2, <2>3
<1>5. CASE ReceiveVoice
  <2>1. TypeOK'
    BY <1>1, <1>2, <1>5 DEF ReceiveVoice, Inv, TypeOK
  <2>2. AfterSwitch'
    BY <1>1, <1>2, <1>5 DEF ReceiveVoice, Inv, AfterSwitch
  <2>3. IncomingInv'
    BY <1>5 DEF ReceiveVoice, Inv, IncomingInv
  <2>4. swallowed = <<>>
    BY <1>5 DEF ReceiveVoice, Inv, SwallowInv
  <2>5. Head(received).protocol = "jl" => isOtaMode
    BY <1>1, <1>2, <1>5 DEF ReceiveVoice, Inv, AfterSwitch
  <2>6. SwallowInv'
    <3>1. pc' # "voice" /\ pc' # "jl" /\ UNCHANGED <<isOtaMode, forwarded>> /\ forwarded = <<>>
      BY <1>5 DEF ReceiveVoice, Inv, SwallowInv
    <3>2. CASE Head(received).protocol = "jl"
      <4>1. swallowed' = <<Head(received)>> /\ isOtaMode
        BY <1>5, <2>4, <2>5, <3>2 DEF ReceiveVoice
      <4> QED
        BY <3>1, <3>2, <4>1 DEF SwallowInv
    <3>3. CASE Head(received).protocol # "jl"
      <4>1. swallowed' = <<>>
        BY <1>5, <2>4, <3>3 DEF ReceiveVoice
      <4> QED
        BY <3>1, <4>1 DEF SwallowInv
    <3> QED
      BY <3>2, <3>3
  <2> QED
    BY <2>1, <2>2, <2>3, <2>6
<1> QED
  BY <1>3, <1>4, <1>5 DEF ReceiveTask

(* The inductive invariant always holds.                                    *)
LEMMA Inductive == Spec => []Inv
<1>1. Inv /\ Next => Inv'
  BY BytesStep, OrderStep, InterruptStep, SwitchStep, TaskStep DEF Next, Inv
<1>2. Inv /\ UNCHANGED vars => Inv'
  BY DEF vars, Inv, TypeOK, NeverOverfull, IncomingInv, AfterSwitch, SwallowInv, PacketsInOrder
<1> QED
  BY <1>1, <1>2, InitInv, PTL DEF Spec

-----------------------------------------------------------------------------
(* The message buffer, which vb6824_uart_irq_handler fills and the receive  *)
(* task empties, holds frames and never more than its bytes.                *)
THEOREM BufferHolds == Spec => []RxInv
<1>1. Inv => RxInv
  BY DEF Inv, RxInv
<1> QED
  BY <1>1, Inductive, PTL

(* f_is_ota_mode, set between the task's test and its receive, costs the    *)
(* upgrade at most one packet.                                              *)
THEOREM OnePacketAtMost == Spec => []AtMostOneSwallowed
<1>1. Inv => AtMostOneSwallowed
  BY DEF Inv, SwallowInv, AtMostOneSwallowed
<1> QED
  BY <1>1, Inductive, PTL

(* Upgrade packets in the buffer reach the upgrade task in order, each     *)
(* once, but for the first, which the voice branch may have taken.         *)
THEOREM InOrder == Spec => []PacketsInOrder
<1>1. Inv => PacketsInOrder
  BY DEF Inv
<1> QED
  BY <1>1, Inductive, PTL
=============================================================================
