------------------------------ MODULE WsProofs -------------------------------
(***************************************************************************)
(* Proofs about the web-socket client.  WsReceive: the counters and the    *)
(* buffer, the alignment of buffer and frames, the treatment of long       *)
(* messages and what the handler is given, for any stream of frames, any   *)
(* buffer and any sizes of records and reads.  WsSession: what a session   *)
(* holds and leaves behind.                                                *)
(***************************************************************************)
EXTENDS WsReceive, WsSession, WellFoundedInduction, TLAPS

(* The bounds are positive numbers.                                         *)
LEMMA Bounds ==
  /\ MaxRx \in Nat /\ Slack \in Nat /\ ReadMax \in Nat
  /\ MaxRx > 0 /\ Slack > 0 /\ ReadMax > 0 /\ RecordSizes \subseteq Nat
  /\ Capacity \in Nat /\ Capacity = MaxRx + Slack
  BY StreamsAssumption DEF Capacity

-----------------------------------------------------------------------------
(* Induction, for a set instead of a predicate.                             *)
LEMMA LeastOf ==
  ASSUME NEW T, T \subseteq Nat, T # {}
  PROVE  \E x \in T : \A y \in T : x <= y
<1>1. IsWellFoundedOn(OpToRel(<,Nat), Nat)
  BY NatLessThanWellFounded
<1>2. PICK x \in T : \A y \in T : ~(<<y, x>> \in OpToRel(<,Nat))
  BY <1>1, WFMin
<1>3. \A y \in T : ~(y < x)
  BY <1>2 DEF OpToRel
<1> QED
  BY <1>3

LEMMA SetInduction ==
  ASSUME NEW S, 0 \in S, \A n \in Nat : n \in S => n + 1 \in S
  PROVE  \A n \in Nat : n \in S
<1> SUFFICES ASSUME Nat \ S # {} PROVE FALSE
  OBVIOUS
<1>1. PICK x \in Nat \ S : \A y \in Nat \ S : x <= y
  BY LeastOf
<1>2. x - 1 \in Nat /\ x - 1 \in S
  BY <1>1
<1> QED
  BY <1>1, <1>2

(* The smaller of two or three numbers is one of them and above none.       *)
LEMMA LeastFacts ==
  ASSUME NEW T, T \subseteq Nat, T # {}
  PROVE  Least(T) \in T /\ \A y \in T : Least(T) <= y
  BY LeastOf DEF Least

(* A sequence stays one of its members.                                     *)
LEMMA Grows ==
  ASSUME NEW S, NEW q \in Seq(S), NEW x \in S
  PROVE  Append(q, x) \in Seq(S)
  OBVIOUS

(* The empty sequence has members of any set.                               *)
LEMMA EmptyIsSeq ==
  ASSUME NEW S
  PROVE  <<>> \in Seq(S)
  OBVIOUS

(* Every frame has a header of at least two bytes.                          *)
LEMMA SizeFacts ==
  ASSUME NEW s \in Streams, NEW i \in 1..Len(s)
  PROVE  /\ s \in Seq(Frames) /\ s[i] \in Frames
         /\ Size(s[i]) \in Nat /\ Size(s[i]) >= 2
         /\ s[i].head \in 2..Slack /\ s[i].len \in Nat /\ Size(s[i]) = s[i].head + s[i].len
<1>1. s \in Seq(Frames)
  BY StreamsAssumption
<1>2. s[i] \in Frames
  BY <1>1
<1>3. s[i].head \in 2..Slack /\ s[i].len \in Nat
  BY <1>2 DEF Frames
<1> QED
  BY <1>1, <1>2, <1>3, Bounds DEF Size

(* The recursive definition of Offsets defines a function.                  *)
LEMMA OffsetsDef ==
  ASSUME NEW s \in Streams
  PROVE  /\ Len(s) \in Nat /\ Offsets(s)[1] = 0
         /\ \A i \in 1..Len(s) : Offsets(s)[i + 1] = Offsets(s)[i] + Size(s[i])
<1> DEFINE Is(f, m) == f = [i \in 1..(m + 1) |-> IF i = 1 THEN 0 ELSE f[i - 1] + Size(s[i - 1])]
           T == {m \in Nat : \E f : Is(f, m)}
<1>0. Len(s) \in Nat
  BY StreamsAssumption
<1>1. 0 \in T
  <2>1. Is([i \in 1..(0 + 1) |-> 0], 0)
    OBVIOUS
  <2> HIDE DEF Is
  <2> QED
    BY <2>1
<1>2. ASSUME NEW m \in Nat, m \in T PROVE m + 1 \in T
  <2>1. PICK f : Is(f, m)
    BY <1>2
  <2> DEFINE g == [i \in 1..((m + 1) + 1) |-> IF i = (m + 1) + 1 THEN f[i - 1] + Size(s[i - 1])
                                              ELSE f[i]]
  <2>2. Is(g, m + 1)
    BY <2>1
  <2> HIDE DEF g, Is
  <2> QED
    BY <2>2
<1>3. \A n \in Nat : n \in T
  <2> HIDE DEF T
  <2> QED
    BY <1>1, <1>2, SetInduction
<1>4. \E f : Is(f, Len(s))
  BY <1>0, <1>3
<1>5. Offsets(s) = CHOOSE f : Is(f, Len(s))
  BY DEF Offsets
<1>6. Is(Offsets(s), Len(s))
  <2> HIDE DEF Is
  <2> QED
    BY <1>4, <1>5
<1>7. ASSUME NEW i \in 1..Len(s) PROVE Offsets(s)[i + 1] = Offsets(s)[i] + Size(s[i])
  <2>1. i + 1 \in 1..(Len(s) + 1) /\ i + 1 # 1 /\ (i + 1) - 1 = i
    BY <1>0
  <2>2. Offsets(s)[i + 1] = Offsets(s)[(i + 1) - 1] + Size(s[(i + 1) - 1])
    BY <1>6, <2>1
  <2> QED
    BY <2>1, <2>2
<1> QED
  BY <1>0, <1>6, <1>7

(* Offsets are natural numbers.                                             *)
LEMMA OffsetsType ==
  ASSUME NEW s \in Streams
  PROVE  \A i \in 1..(Len(s) + 1) : Offsets(s)[i] \in Nat
<1> DEFINE T == {n \in Nat : n <= Len(s) => Offsets(s)[n + 1] \in Nat}
<1>1. 0 \in T
  BY OffsetsDef
<1>2. ASSUME NEW n \in Nat, n \in T PROVE n + 1 \in T
  <2> SUFFICES ASSUME n + 1 <= Len(s) PROVE Offsets(s)[(n + 1) + 1] \in Nat
    OBVIOUS
  <2>1. n + 1 \in 1..Len(s) /\ Offsets(s)[n + 1] \in Nat
    BY <1>2, OffsetsDef
  <2>2. Size(s[n + 1]) \in Nat
    BY <2>1, SizeFacts
  <2> QED
    BY <2>1, <2>2, OffsetsDef
<1>3. \A n \in Nat : n \in T
  <2> HIDE DEF T
  <2> QED
    BY <1>1, <1>2, SetInduction
<1>4. ASSUME NEW i \in 1..(Len(s) + 1) PROVE Offsets(s)[i] \in Nat
  <2>1. i - 1 \in Nat /\ i - 1 <= Len(s) /\ (i - 1) + 1 = i
    BY OffsetsDef
  <2> QED
    BY <1>3, <2>1
<1> QED
  BY <1>4

(* No frame begins behind the end of the stream.                            *)
LEMMA OffsetsBounded ==
  ASSUME NEW s \in Streams
  PROVE  \A i \in 1..(Len(s) + 1) : Offsets(s)[i] <= Offsets(s)[Len(s) + 1]
<1> DEFINE L == Len(s) + 1
           T == {n \in Nat : n <= Len(s) => Offsets(s)[L - n] <= Offsets(s)[L]}
<1>0. Len(s) \in Nat
  BY OffsetsDef
<1>1. 0 \in T
  <2>1. L - 0 = L /\ L \in 1..(Len(s) + 1)
    BY <1>0
  <2>2. Offsets(s)[L] \in Nat
    BY <2>1, OffsetsType
  <2> HIDE DEF L
  <2> QED
    BY <2>1, <2>2
<1>2. ASSUME NEW n \in Nat, n \in T PROVE n + 1 \in T
  <2> SUFFICES ASSUME n + 1 <= Len(s) PROVE Offsets(s)[L - (n + 1)] <= Offsets(s)[L]
    OBVIOUS
  <2>1. /\ L - (n + 1) \in 1..Len(s) /\ (L - (n + 1)) + 1 = L - n
        /\ L - n \in 1..(Len(s) + 1) /\ L \in 1..(Len(s) + 1)
        /\ L - (n + 1) \in 1..(Len(s) + 1)
        /\ Offsets(s)[L - n] <= Offsets(s)[L]
    BY <1>0, <1>2
  <2> HIDE DEF L
  <2>2. Offsets(s)[L - n] = Offsets(s)[L - (n + 1)] + Size(s[L - (n + 1)])
    BY <2>1, OffsetsDef
  <2>3. Size(s[L - (n + 1)]) \in Nat
    BY <2>1, SizeFacts
  <2>4. Offsets(s)[L - n] \in Nat /\ Offsets(s)[L - (n + 1)] \in Nat /\ Offsets(s)[L] \in Nat
    BY <2>1, OffsetsType
  <2> QED
    BY <2>1, <2>2, <2>3, <2>4
<1>3. \A n \in Nat : n \in T
  <2> HIDE DEF T
  <2> QED
    BY <1>1, <1>2, SetInduction
<1>4. ASSUME NEW i \in 1..(Len(s) + 1) PROVE Offsets(s)[i] <= Offsets(s)[L]
  <2>1. L - i \in Nat /\ L - i <= Len(s) /\ L - (L - i) = i
    BY <1>0
  <2>2. L - i \in T
    BY <1>3, <2>1
  <2> HIDE DEF L
  <2> QED
    BY <2>1, <2>2
<1> QED
  BY <1>4

(* A frame begins before the frames that follow it.                         *)
LEMMA OffsetsAscend ==
  ASSUME NEW s \in Streams, NEW i \in 1..(Len(s) + 1)
  PROVE  \A j \in 1..(Len(s) + 1) : i < j => Offsets(s)[i] < Offsets(s)[j]
<1> DEFINE T == {n \in Nat : i < n /\ n <= Len(s) + 1 => Offsets(s)[i] < Offsets(s)[n]}
<1>0. Len(s) \in Nat /\ i \in Nat /\ i >= 1
  BY OffsetsDef
<1>1. 0 \in T
  BY <1>0
<1>2. ASSUME NEW n \in Nat, n \in T PROVE n + 1 \in T
  <2> SUFFICES ASSUME i < n + 1, n + 1 <= Len(s) + 1 PROVE Offsets(s)[i] < Offsets(s)[n + 1]
    OBVIOUS
  <2>1. n \in 1..Len(s) /\ n \in 1..(Len(s) + 1) /\ (i = n \/ i < n)
    BY <1>0
  <2>2. Size(s[n]) \in Nat /\ Size(s[n]) >= 2 /\ Offsets(s)[n + 1] = Offsets(s)[n] + Size(s[n])
    BY <2>1, SizeFacts, OffsetsDef
  <2>3. Offsets(s)[n] \in Nat /\ Offsets(s)[i] \in Nat
    BY <2>1, OffsetsType
  <2>4. i = n \/ Offsets(s)[i] < Offsets(s)[n]
    BY <1>2, <2>1
  <2> QED
    BY <2>2, <2>3, <2>4
<1>3. \A n \in Nat : n \in T
  <2> HIDE DEF T
  <2> QED
    BY <1>1, <1>2, SetInduction
<1> QED
  BY <1>0, <1>3

(* The recursive definition of SumLen defines a function,                   *)
LEMMA SumLenDef ==
  ASSUME NEW q \in Seq(DOMAIN stream)
  PROVE  \E f : /\ f[0] = 0 /\ SumLen(q) = f[Len(q)]
                /\ \A n \in 1..Len(q) : f[n] = f[n - 1] + stream[q[n]].len
<1> DEFINE Is(f, m) == f = [n \in 0..m |-> IF n = 0 THEN 0 ELSE f[n - 1] + stream[q[n]].len]
           T == {m \in Nat : \E f : Is(f, m)}
<1>0. Len(q) \in Nat
  OBVIOUS
<1>1. 0 \in T
  <2>1. Is([n \in 0..0 |-> 0], 0)
    OBVIOUS
  <2> HIDE DEF Is
  <2> QED
    BY <2>1
<1>2. ASSUME NEW m \in Nat, m \in T PROVE m + 1 \in T
  <2>1. PICK f : Is(f, m)
    BY <1>2
  <2> DEFINE g == [n \in 0..(m + 1) |-> IF n = m + 1 THEN f[n - 1] + stream[q[n]].len ELSE f[n]]
  <2>2. Is(g, m + 1)
    <3>1. \A n \in 0..m : g[n] = IF n = 0 THEN 0 ELSE f[n - 1] + stream[q[n]].len
      BY <2>1
    <3>2. \A n \in 0..m : g[n] = f[n]
      OBVIOUS
    <3>3. g[m + 1] = f[(m + 1) - 1] + stream[q[m + 1]].len
      OBVIOUS
    <3>4. DOMAIN g = 0..(m + 1) /\ g = [n \in 0..(m + 1) |-> g[n]]
      OBVIOUS
    <3> HIDE DEF g
    <3>5. \A n \in 0..(m + 1) : g[n] = IF n = 0 THEN 0 ELSE g[n - 1] + stream[q[n]].len
      <4> SUFFICES ASSUME NEW n \in 0..(m + 1), n # 0 PROVE g[n] = g[n - 1] + stream[q[n]].len
        BY <3>1
      <4>1. n - 1 \in 0..m /\ (n = m + 1 => n - 1 = m) /\ (n # m + 1 => n \in 0..m)
        OBVIOUS
      <4> QED
        BY <3>1, <3>2, <3>3, <4>1
    <3> QED
      BY <3>4, <3>5
  <2> HIDE DEF g, Is
  <2> QED
    BY <2>2
<1>3. \A n \in Nat : n \in T
  <2> HIDE DEF T
  <2> QED
    BY <1>1, <1>2, SetInduction
<1>4. \E f : Is(f, Len(q))
  BY <1>0, <1>3
<1> DEFINE h == CHOOSE f : Is(f, Len(q))
<1>5. SumLen(q) = h[Len(q)]
  BY DEF SumLen
<1>6. Is(h, Len(q))
  <2> HIDE DEF Is
  <2> QED
    BY <1>4
<1> HIDE DEF h
<1>7. h[0] = 0 /\ \A n \in 1..Len(q) : h[n] = h[n - 1] + stream[q[n]].len
  BY <1>0, <1>6
<1> QED
  BY <1>5, <1>7

(* ... to which one part more adds its length,                              *)
LEMMA SumLenAppend ==
  ASSUME NEW q \in Seq(DOMAIN stream), NEW c \in DOMAIN stream
  PROVE  SumLen(Append(q, c)) = SumLen(q) + stream[c].len
<1> DEFINE L == Len(q)
           t == Append(q, c)
<1>0. /\ L \in Nat /\ t \in Seq(DOMAIN stream) /\ Len(t) = L + 1 /\ t[L + 1] = c
      /\ \A n \in 1..L : t[n] = q[n]
  OBVIOUS
<1> HIDE DEF t
<1>1. PICK f : /\ f[0] = 0 /\ SumLen(q) = f[Len(q)]
               /\ \A n \in 1..Len(q) : f[n] = f[n - 1] + stream[q[n]].len
  BY SumLenDef
<1>2. PICK g : /\ g[0] = 0 /\ SumLen(t) = g[Len(t)]
               /\ \A n \in 1..Len(t) : g[n] = g[n - 1] + stream[t[n]].len
  BY <1>0, SumLenDef
<1> DEFINE T == {n \in Nat : n <= L => f[n] = g[n]}
<1>3. 0 \in T
  BY <1>1, <1>2
<1>4. ASSUME NEW n \in Nat, n \in T PROVE n + 1 \in T
  <2> SUFFICES ASSUME n + 1 <= L PROVE f[n + 1] = g[n + 1]
    OBVIOUS
  <2>1. n + 1 \in 1..L /\ n + 1 \in 1..Len(t) /\ (n + 1) - 1 = n /\ f[n] = g[n]
    BY <1>0, <1>4
  <2> QED
    BY <1>0, <1>1, <1>2, <2>1
<1>5. \A n \in Nat : n \in T
  <2> HIDE DEF T
  <2> QED
    BY <1>3, <1>4, SetInduction
<1>6. f[L] = g[L]
  BY <1>0, <1>5
<1>7. L + 1 \in 1..Len(t) /\ (L + 1) - 1 = L
  BY <1>0
<1> QED
  BY <1>0, <1>1, <1>2, <1>6, <1>7 DEF t

(* ... and which is 0 for no parts.                                         *)
LEMMA SumLenEmpty == SumLen(<<>>) = 0
<1>1. <<>> \in Seq(DOMAIN stream) /\ Len(<<>>) = 0
  OBVIOUS
<1> QED
  BY <1>1, SumLenDef

(* No numbers are listed by the empty sequence,                             *)
LEMMA ListsNone == Lists(<<>>, {})
  BY DEF Lists

(* ... and one that is above those listed comes last.                       *)
LEMMA ListsOneMore ==
  ASSUME NEW n \in Nat, NEW S, NEW x, NEW q, NEW r,
         DOMAIN q = 1..n, DOMAIN r = 1..(n + 1), r[n + 1] = x, \A a \in 1..n : r[a] = q[a],
         Lists(q, S), \A y \in S : y < x
  PROVE  Lists(r, S \cup {x})
<1>1. \A a \in 1..(n + 1) : a \in 1..n \/ a = n + 1
  OBVIOUS
<1>2. \A a \in 1..n : q[a] \in S
  BY DEF Lists
<1>3. {r[a] : a \in DOMAIN r} = S \cup {x}
  <2>1. \A y \in S : \E a \in 1..n : q[a] = y
    BY DEF Lists
  <2>2. \A a \in 1..n : a \in 1..(n + 1)
    OBVIOUS
  <2>3. n + 1 \in 1..(n + 1)
    OBVIOUS
  <2> QED
    BY <1>1, <1>2, <2>1, <2>2, <2>3
<1>4. ASSUME NEW a \in DOMAIN r, NEW b \in DOMAIN r, a < b PROVE r[a] < r[b]
  <2>1. a \in 1..n
    BY <1>4
  <2>2. CASE b \in 1..n
    BY <1>4, <2>1, <2>2 DEF Lists
  <2>3. CASE b = n + 1
    BY <1>2, <2>1, <2>3
  <2> QED
    BY <1>1, <2>2, <2>3
<1> QED
  BY <1>3, <1>4 DEF Lists

-----------------------------------------------------------------------------
(* While a long message is discarded nothing is kept, and nothing is        *)
(* dispatched.  A poll finds room unless memory ran out.                    *)
BufferInv ==
    /\ discarding => rxLen = 0 /\ pc # "dispatch"
    /\ RoomToRead

(* The fragments held came through the buffer.                              *)
LengthInv == length <= Front

(* Unless a discard went too far, the buffer begins where a frame begins,   *)
(* or the reads are rcv bytes into the frame being discarded.               *)
Aligned ==
    IF discarding
    THEN \E i \in 1..Len(stream) : /\ From[i] + rcv = rpos /\ i \in discarded
                                   /\ total = Size(stream[i]) /\ rcv < total
    ELSE \E i \in 1..(Len(stream) + 1) : From[i] = Front
AlignInv ==
    /\ ~straddled => Aligned
    /\ pc = "lost" => straddled

(* Every part of a message held or delivered fitted into the buffer, a long *)
(* one with a byte to spare.                                                *)
Fitted(k) == stream[k].len > MaxRx => Size(stream[k]) < Capacity
LongInv ==
    /\ \A i \in discarded : stream[i].len > MaxRx
    /\ \A k \in DOMAIN received : Fitted(received[k])
    /\ delivered \in Seq([op : {"TEXT", "BINARY", "CONTINUATION"}, parts : Seq(DOMAIN stream),
                          len : Nat])
    /\ \A m \in DOMAIN delivered : \A k \in DOMAIN delivered[m].parts :
         Fitted(delivered[m].parts[k])

Inv == TypeOK /\ BufferInv /\ LengthInv /\ AlignInv /\ LongInv

(* The stream and its ends.                                                 *)
LEMMA StreamFacts ==
  ASSUME Counts
  PROVE  /\ stream \in Streams /\ DOMAIN stream = 1..Len(stream) /\ Len(stream) \in Nat
         /\ Total \in Nat /\ rpos \in Nat /\ tpos \in Nat /\ rxLen \in Nat /\ Front \in Nat
         /\ \A i \in 1..(Len(stream) + 1) : From[i] \in Nat /\ From[i] <= Total
         /\ \A i \in 1..Len(stream) : From[i + 1] = From[i] + Size(stream[i])
<1>1. stream \in Streams /\ stream \in Seq(Frames)
  BY StreamsAssumption DEF Counts
<1>2. DOMAIN stream = 1..Len(stream) /\ Len(stream) \in Nat
  BY <1>1
<1>3. Len(stream) + 1 \in 1..(Len(stream) + 1)
  BY <1>2
<1>4. Total \in Nat
  BY <1>1, <1>3, OffsetsType DEF Total, From
<1>5. rpos \in Nat /\ tpos \in Nat /\ rxLen \in Nat /\ Front \in Nat
  BY <1>4, Bounds DEF Counts, Front
<1>6. /\ \A i \in 1..(Len(stream) + 1) : From[i] \in Nat /\ From[i] <= Total
      /\ \A i \in 1..Len(stream) : From[i + 1] = From[i] + Size(stream[i])
  BY <1>1, OffsetsType, OffsetsBounded, OffsetsDef DEF Total, From
<1> QED
  BY <1>1, <1>2, <1>4, <1>5, <1>6

(* The frame at the front of the buffer.                                    *)
LEMMA FrameFacts ==
  ASSUME Counts, InStep
  PROVE  /\ Current \in DOMAIN stream /\ Current \in 1..Len(stream) /\ Frame = stream[Current]
         /\ Frame.head \in 2..Slack /\ Frame.len \in Nat /\ Frame \in Frames
         /\ Size(Frame) = Frame.head + Frame.len /\ Size(Frame) \in Nat /\ Size(Frame) >= 2
         /\ From[Current] = Front /\ From[Current + 1] = Front + Size(Frame)
         /\ Front + Size(Frame) <= Total
<1>1. Current \in DOMAIN stream /\ From[Current] = Front
  BY DEF InStep, Current
<1>2. Current \in 1..Len(stream) /\ Current + 1 \in 1..(Len(stream) + 1)
  BY <1>1, StreamFacts
<1>3. From[Current + 1] = Front + Size(Frame) /\ From[Current + 1] <= Total
  BY <1>1, <1>2, StreamFacts DEF Frame
<1>4. /\ Frame.head \in 2..Slack /\ Frame.len \in Nat /\ Frame \in Frames
      /\ Size(Frame) = Frame.head + Frame.len /\ Size(Frame) \in Nat /\ Size(Frame) >= 2
  BY <1>2, StreamFacts, SizeFacts DEF Frame
<1> QED
  BY <1>1, <1>2, <1>3, <1>4 DEF Frame

(* The stream does not change.                                              *)
LEMMA StreamKept ==
  ASSUME Next
  PROVE  stream' = stream /\ From' = From /\ Total' = Total
<1>1. stream' = stream
  BY DEF Next, Dispatch, PollReadable, PollCloses, FetchRecord, Read, ReadEnds, Incomplete,
     DiscardBegins, DiscardWhole, Discard, Collect, CollectFails, CollectFaults, Control, Misparse
<1> QED
  BY <1>1 DEF From, Total

(* Steps that leave the buffer and its counters alone.                      *)
Idle == PollReadable \/ PollCloses \/ ReadEnds \/ Incomplete \/ CollectFails \/ CollectFaults
        \/ Misparse
LEMMA IdleKeeps ==
  ASSUME Idle
  PROVE  UNCHANGED <<tpos, rpos, rxLen, discarding, total, rcv, length, delivered, discarded, straddled>>
         /\ received' \in {received, <<>>}
  BY DEF Idle, PollReadable, PollCloses, ReadEnds, Incomplete, CollectFails, CollectFaults,
     Misparse, discardVars, dataVars

(* What a read takes: something, and no more than fits or is there.         *)
LEMMA ReadTakes ==
  ASSUME Counts, Read
  PROVE  \E n \in Nat :
           /\ n > 0 /\ n <= Room /\ rpos + n <= tpos
           /\ rpos' = rpos + n /\ UNCHANGED <<tpos, length, delivered, received, discarded, pc, short,
                                              starved, readyState>>
           /\ \/ /\ discarding /\ rxLen' = 0 /\ rcv + n >= total
                 /\ rcv' = 0 /\ total' = 0 /\ ~discarding'
                 /\ (straddled \/ rcv + n > total => straddled')
              \/ /\ discarding /\ rxLen' = 0 /\ rcv + n < total
                 /\ rcv' = rcv + n /\ total' = total /\ discarding'
                 /\ (straddled \/ rcv + n > total => straddled')
              \/ ~discarding /\ rxLen' = rxLen + n
                 /\ UNCHANGED <<total, rcv, straddled>> /\ ~discarding'
<1> DEFINE n == Least({Room, ReadMax, tpos - rpos})
<1>1. Room \in Nat /\ ReadMax \in Nat /\ tpos - rpos \in Nat
      /\ Room > 0 /\ ReadMax > 0 /\ tpos - rpos > 0
  BY StreamFacts, Bounds DEF Read, Room, Counts
<1>2. n \in {Room, ReadMax, tpos - rpos} /\ n <= Room /\ n <= tpos - rpos
  BY <1>1, LeastFacts
<1>3. n \in Nat /\ n > 0 /\ n <= Room /\ rpos + n <= tpos
  <2> HIDE DEF n
  <2> QED
    BY <1>1, <1>2, StreamFacts
<1>4. /\ rpos' = rpos + n
      /\ UNCHANGED <<tpos, length, delivered, received, discarded, pc, short, starved, readyState>>
      /\ IF discarding
         THEN /\ rcv' = IF rcv + n >= total THEN 0 ELSE rcv + n
              /\ total' = IF rcv + n >= total THEN 0 ELSE total
              /\ discarding' = (rcv + n < total)
              /\ straddled' = (straddled \/ rcv + n > total)
              /\ rxLen' = 0
         ELSE rxLen' = rxLen + n /\ UNCHANGED <<discarding, total, rcv, straddled>>
  BY DEF Read, dataVars, discardVars, memoryVars
<1>5. rcv \in Nat /\ total \in Nat
  BY StreamFacts DEF Counts
<1> HIDE DEF n
<1>6. \/ /\ discarding /\ rxLen' = 0 /\ rcv + n >= total
         /\ rcv' = 0 /\ total' = 0 /\ ~discarding'
         /\ (straddled \/ rcv + n > total => straddled')
      \/ /\ discarding /\ rxLen' = 0 /\ rcv + n < total
         /\ rcv' = rcv + n /\ total' = total /\ discarding'
         /\ (straddled \/ rcv + n > total => straddled')
      \/ ~discarding /\ rxLen' = rxLen + n
         /\ UNCHANGED <<total, rcv, straddled>> /\ ~discarding'
  <2>1. CASE discarding /\ rcv + n >= total
    <3>1. ~(rcv + n < total)
      BY <1>3, <1>5, <2>1
    <3> QED
      BY <1>4, <2>1, <3>1, Zenon
  <2>2. CASE discarding /\ ~(rcv + n >= total)
    <3>1. rcv + n < total
      BY <1>3, <1>5, <2>2
    <3> QED
      BY <1>4, <2>2, <3>1, Zenon
  <2>3. CASE ~discarding
    BY <1>4, <2>3
  <2> QED
    BY <2>1, <2>2, <2>3
<1> QED
  BY <1>3, <1>4, <1>6

(* A frame handled leaves the buffer, and the next one is at its front.     *)
LEMMA ConsumeMoves ==
  ASSUME Counts, Collect \/ Control
  PROVE  /\ InStep /\ Size(Frame) <= rxLen /\ rxLen' = rxLen - Size(Frame)
         /\ (TooLong(Frame) => Size(Frame) < rxLen)
         /\ UNCHANGED <<tpos, rpos, discarding, total, rcv, straddled, discarded, pc, short>>
         /\ pc = "dispatch"
         /\ rxLen' \in Nat /\ Front' = Front + Size(Frame)
<1>1. /\ InStep /\ Size(Frame) <= rxLen /\ rxLen' = rxLen - Size(Frame)
      /\ ~(rxLen = Size(Frame) /\ TooLong(Frame))
      /\ UNCHANGED <<tpos, rpos, discarding, total, rcv, straddled, discarded, pc, short>>
      /\ pc = "dispatch"
  BY DEF Collect, Control, Whole, Consume, discardVars, memoryVars
<1>2. rxLen \in Nat /\ rpos \in Nat /\ Size(Frame) \in Nat /\ rxLen <= rpos
  BY <1>1, StreamFacts, FrameFacts DEF Counts
<1> QED
  BY <1>1, <1>2 DEF Front

(* A frame, or what there is of it, is thrown away.                         *)
LEMMA DiscardMoves ==
  ASSUME Counts, DiscardBegins \/ DiscardWhole
  PROVE  /\ InStep /\ rxLen' = 0 /\ pc' = "poll" /\ pc = "dispatch" /\ TooLong(Frame)
         /\ discarded' = discarded \cup {Current}
         /\ UNCHANGED <<tpos, rpos, length, received, delivered, readyState, straddled, short, starved>>
         /\ Front' = rpos
         /\ \/ /\ discarding' /\ total' = Size(Frame) /\ rcv' = rxLen /\ rxLen < Size(Frame)
            \/ /\ rxLen = Size(Frame) /\ UNCHANGED <<discarding, total, rcv>>
<1>1. rpos \in Nat
  BY StreamFacts
<1> QED
  BY <1>1 DEF DiscardBegins, DiscardWhole, Discard, Front, dataVars, memoryVars, discardVars

-----------------------------------------------------------------------------
(* Counters stay within buffer and stream.                                  *)
LEMMA CountsStep == Inv /\ Next => Counts' /\ LengthInv'
<1> SUFFICES ASSUME Inv, Next PROVE Counts' /\ LengthInv'
  OBVIOUS
<1>0. Counts /\ LengthInv /\ Total' = Total /\ stream' = stream
  BY StreamKept DEF Inv, TypeOK
<1>1. /\ Total \in Nat /\ rpos \in Nat /\ tpos \in Nat /\ rxLen \in Nat /\ length \in Nat
      /\ rcv \in Nat /\ total \in Nat /\ Capacity \in Nat /\ stream \in Streams
      /\ rpos <= tpos /\ tpos <= Total /\ rxLen <= Capacity /\ rxLen <= rpos /\ total <= Total
      /\ rcv <= total /\ length <= rpos - rxLen
  BY <1>0, StreamFacts, Bounds DEF Counts, LengthInv, Front
<1>2. CASE Idle
  BY <1>0, <1>2, IdleKeeps DEF Counts, LengthInv, Front
<1>3. CASE FetchRecord
  <2>1. PICK n \in RecordSizes : tpos' = Least({tpos + n, Total})
    BY <1>3 DEF FetchRecord
  <2>2. n \in Nat /\ tpos + n \in Nat
    BY <1>1, Bounds
  <2>3. tpos' \in {tpos + n, Total} /\ tpos' <= Total
    BY <1>1, <2>1, <2>2, LeastFacts
  <2>4. UNCHANGED <<rpos, rxLen, total, rcv, length>>
    BY <1>3 DEF FetchRecord, discardVars, dataVars
  <2> QED
    BY <1>0, <1>1, <2>2, <2>3, <2>4 DEF Counts, LengthInv, Front
<1>4. CASE Read
  <2>1. PICK n \in Nat :
           /\ n > 0 /\ n <= Room /\ rpos + n <= tpos
           /\ rpos' = rpos + n /\ UNCHANGED <<tpos, length>>
           /\ \/ rxLen' = 0 /\ rcv' = 0 /\ total' = 0
              \/ rxLen' = 0 /\ rcv + n < total /\ rcv' = rcv + n /\ total' = total
              \/ rxLen' = rxLen + n /\ UNCHANGED <<total, rcv>>
    BY <1>0, <1>4, ReadTakes
  <2> QED
    BY <1>0, <1>1, <2>1 DEF Counts, LengthInv, Front, Room
<1>5. CASE DiscardBegins \/ DiscardWhole
  <2>1. Size(Frame) \in Nat /\ Size(Frame) <= Total
    BY <1>0, <1>1, <1>5, DiscardMoves, FrameFacts, StreamFacts
  <2> QED
    BY <1>0, <1>1, <1>5, <2>1, DiscardMoves DEF Counts, LengthInv, Front
<1>6. CASE Control
  <2>1. length' = length
    BY <1>6 DEF Control, dataVars
  <2>2. Size(Frame) \in Nat
    BY <1>0, <1>6, ConsumeMoves, FrameFacts
  <2> QED
    BY <1>0, <1>1, <1>6, <2>1, <2>2, ConsumeMoves DEF Counts, LengthInv, Front
<1>7. CASE Collect
  <2>1. length' = 0 \/ length' = length + Frame.len
    BY <1>7 DEF Collect
  <2>2. /\ Size(Frame) \in Nat /\ Frame.len \in Nat /\ Frame.len <= Size(Frame)
        /\ Front + Size(Frame) <= Total
    BY <1>0, <1>7, ConsumeMoves, FrameFacts, Bounds
  <2> QED
    BY <1>0, <1>1, <1>7, <2>1, <2>2, ConsumeMoves DEF Counts, LengthInv, Front
<1> QED
  BY <1>2, <1>3, <1>4, <1>5, <1>6, <1>7 DEF Next, Dispatch, Idle

(* Parts and discarded frames are frames of the stream.                     *)
LEMMA DataStep == Inv /\ Next => DataTypes'
<1> SUFFICES ASSUME Inv, Next PROVE DataTypes'
  OBVIOUS
<1>0. Counts /\ DataTypes /\ stream' = stream
  BY StreamKept DEF Inv, TypeOK
<1>1. ASSUME received' = received \/ received' = <<>> \/ (InStep /\ received' = Append(received, Current)),
             discarded' = discarded \/ (InStep /\ discarded' = discarded \cup {Current})
      PROVE  received' \in Seq(DOMAIN stream) /\ discarded' \subseteq DOMAIN stream
  <2>1. InStep => Current \in DOMAIN stream
    BY <1>0, FrameFacts
  <2>2. received \in Seq(DOMAIN stream) /\ discarded \subseteq DOMAIN stream
    BY <1>0 DEF DataTypes
  <2>3. received' \in Seq(DOMAIN stream)
    <3>1. CASE received' = received \/ received' = <<>>
      BY <2>2, <3>1, EmptyIsSeq
    <3>2. CASE InStep /\ received' = Append(received, Current)
      BY <2>1, <2>2, <3>2, Grows
    <3> QED
      BY <1>1, <3>1, <3>2
  <2> QED
    BY <1>1, <2>1, <2>2, <2>3
<1>2. CASE PollReadable \/ PollCloses \/ FetchRecord \/ Read \/ ReadEnds
  <2>1. /\ readyState' \in {readyState, "CLOSED"} /\ pc' \in {pc, "read", "closed", "poll", "dispatch"}
        /\ (received' = received \/ received' = <<>>) /\ discarded' = discarded
    BY <1>2 DEF PollReadable, PollCloses, FetchRecord, Read, ReadEnds, dataVars
  <2> QED
    BY <1>0, <1>1, <2>1 DEF DataTypes
<1>3. CASE Incomplete \/ CollectFails \/ CollectFaults \/ Misparse
  <2>1. /\ readyState' = readyState /\ pc' \in {"poll", "fault", "lost"}
        /\ (received' = received \/ received' = <<>>) /\ discarded' = discarded
    BY <1>3 DEF Incomplete, CollectFails, CollectFaults, Misparse, dataVars
  <2> QED
    BY <1>0, <1>1, <2>1 DEF DataTypes
<1>4. CASE DiscardBegins \/ DiscardWhole
  BY <1>0, <1>1, <1>4, DiscardMoves DEF DataTypes
<1>5. CASE Collect \/ Control
  <2>1. InStep /\ pc' = pc /\ discarded' = discarded
    BY <1>0, <1>5, ConsumeMoves
  <2>2. (received' = received \/ received' = <<>> \/ received' = Append(received, Current))
        /\ readyState' \in {readyState, "CLOSING"}
    BY <1>5 DEF Collect, Control, dataVars
  <2> QED
    BY <1>0, <1>1, <2>1, <2>2 DEF DataTypes
<1> QED
  BY <1>2, <1>3, <1>4, <1>5 DEF Next, Dispatch

(* Flags stay truth values.                                                 *)
LEMMA FlagStep == Inv /\ Next => FlagTypes'
<1> SUFFICES ASSUME Inv, Next
             PROVE  /\ discarding' \in BOOLEAN /\ straddled' \in BOOLEAN
                    /\ short' \in BOOLEAN /\ starved' \in BOOLEAN
  BY DEF FlagTypes
<1>0. /\ discarding \in BOOLEAN /\ straddled \in BOOLEAN
      /\ short \in BOOLEAN /\ starved \in BOOLEAN
  BY DEF Inv, TypeOK, FlagTypes
<1>1. short' \in BOOLEAN /\ starved' \in BOOLEAN
  BY <1>0, Zenon DEF Next, Dispatch, PollReadable, PollCloses, FetchRecord, Read, ReadEnds,
     Incomplete, DiscardBegins, DiscardWhole, Discard, Collect, CollectFails, CollectFaults,
     Control, Misparse, memoryVars
<1>2. CASE Read
  <2>1. PICK n : /\ n = Least({Room, ReadMax, tpos - rpos})
                 /\ IF discarding
                    THEN discarding' = (rcv + n < total) /\ straddled' = (straddled \/ rcv + n > total)
                    ELSE UNCHANGED <<discarding, straddled>>
    BY <1>2 DEF Read, discardVars
  <2>2. discarding' \in BOOLEAN
    <3>1. Room \in Nat /\ ReadMax \in Nat /\ tpos - rpos \in Nat /\ rcv \in Nat /\ total \in Nat
      BY <1>2, StreamFacts, Bounds DEF Read, Room, Counts, Inv, TypeOK
    <3>2. n \in Nat
      BY <2>1, <3>1, LeastFacts
    <3>3. (rcv + n < total) \in BOOLEAN
      BY <3>1, <3>2
    <3> QED
      BY <1>0, <2>1, <3>3, Zenon
  <2>3. straddled' \in BOOLEAN
    BY <1>0, <2>1, Zenon
  <2> QED
    BY <1>1, <2>2, <2>3
<1>3. CASE UNCHANGED <<discarding, straddled>>
  BY <1>0, <1>1, <1>3, Zenon
<1>4. CASE discarding' = TRUE /\ UNCHANGED straddled
  BY <1>0, <1>1, <1>4, Zenon
<1>5. Read \/ UNCHANGED <<discarding, straddled>> \/ (discarding' = TRUE /\ UNCHANGED straddled)
  BY DEF Next, Dispatch, PollReadable, PollCloses, FetchRecord, ReadEnds,
     Incomplete, DiscardBegins, DiscardWhole, Discard, Collect, CollectFails, CollectFaults,
     Control, Misparse, discardVars
<1> QED
  BY <1>1, <1>2, <1>3, <1>4, <1>5

(* A dispatch ends with room in the buffer.                                 *)
LEMMA BufferStep == Inv /\ Next => BufferInv'
<1> SUFFICES ASSUME Inv, Next PROVE BufferInv'
  OBVIOUS
<1>0. Counts /\ BufferInv /\ rxLen \in Nat
  BY StreamFacts DEF Inv, TypeOK
<1> USE DEF BufferInv, RoomToRead
<1>1. CASE PollReadable \/ PollCloses \/ FetchRecord
  BY <1>0, <1>1 DEF PollReadable, PollCloses, FetchRecord, discardVars
<1>2. CASE ReadEnds
  BY <1>0, <1>2, Bounds DEF ReadEnds, discardVars, Room
<1>3. CASE Read
  BY <1>0, <1>3, ReadTakes DEF Read
<1>4. CASE Incomplete
  <2>1. UNCHANGED <<discarding, rxLen>> /\ pc' = "poll" /\ pc = "dispatch"
    BY <1>4 DEF Incomplete, discardVars
  <2>2. CASE rxLen < 2
    BY <1>0, <2>1, <2>2, Bounds DEF Room
  <2>3. CASE InStep /\ (rxLen < Frame.head \/ (rxLen < Size(Frame) /\ ~TooLong(Frame)))
    <3>1. rxLen < Slack + MaxRx
      BY <1>0, <2>3, FrameFacts, Bounds DEF TooLong
    <3> QED
      BY <1>0, <2>1, <3>1, Bounds DEF Room
  <2> QED
    BY <1>4, <2>2, <2>3 DEF Incomplete
<1>5. CASE CollectFails \/ CollectFaults \/ Misparse
  BY <1>0, <1>5 DEF CollectFails, CollectFaults, Misparse, Whole, discardVars
<1>6. CASE DiscardBegins \/ DiscardWhole
  BY <1>0, <1>6, DiscardMoves, Bounds DEF Room
<1>7. CASE Collect \/ Control
  BY <1>0, <1>7, ConsumeMoves
<1> QED
  BY <1>1, <1>2, <1>3, <1>4, <1>5, <1>6, <1>7 DEF Next, Dispatch

(* The dispatcher finds a frame at the front of an aligned buffer.          *)
LEMMA AlignedInStep ==
  ASSUME Inv, Aligned, pc = "dispatch", rxLen >= 2
  PROVE  InStep
<1>0. Counts /\ ~discarding /\ rpos <= Total
  BY StreamFacts DEF Inv, TypeOK, BufferInv, Counts
<1>1. PICK i \in 1..(Len(stream) + 1) : From[i] = Front
  BY <1>0 DEF Aligned
<1>2. i # Len(stream) + 1
  <2>1. Front + rxLen = rpos /\ Front \in Nat /\ rxLen \in Nat
    BY <1>0, StreamFacts DEF Front
  <2> QED
    BY <1>0, <1>1, <2>1, StreamFacts DEF Total
<1>3. i \in DOMAIN stream
  BY <1>0, <1>1, <1>2, StreamFacts
<1> QED
  BY <1>1, <1>3 DEF InStep

(* Reads, discards and dispatches keep buffer and frames aligned.           *)
LEMMA AlignStep == Inv /\ Next => AlignInv'
<1> SUFFICES ASSUME Inv, Next PROVE AlignInv'
  OBVIOUS
<1>0. /\ Counts /\ BufferInv /\ AlignInv /\ From' = From /\ stream' = stream
      /\ Len(stream) \in Nat /\ rpos \in Nat /\ rxLen \in Nat /\ rcv \in Nat /\ total \in Nat
  BY StreamKept, StreamFacts DEF Inv, TypeOK, Counts
<1>1. CASE Idle \/ FetchRecord
  <2>1. UNCHANGED <<rpos, rxLen, discarding, total, rcv, discarded, straddled>>
    BY <1>1, IdleKeeps DEF FetchRecord, discardVars
  <2>2. Aligned => Aligned'
    BY <1>0, <2>1 DEF Aligned, Front
  <2>3. pc' = "lost" => pc = "lost" \/ (pc = "dispatch" /\ rxLen >= 2 /\ ~InStep)
    BY <1>1 DEF Idle, PollReadable, PollCloses, FetchRecord, ReadEnds, Incomplete, CollectFails,
       CollectFaults, Misparse
  <2> QED
    BY <1>0, <2>1, <2>2, <2>3, AlignedInStep DEF AlignInv
<1>2. CASE Read
  <2>1. PICK n \in Nat :
           /\ n > 0 /\ rpos' = rpos + n /\ pc' = pc /\ discarded' = discarded
           /\ \/ /\ discarding /\ rxLen' = 0 /\ rcv + n >= total /\ ~discarding'
                 /\ (straddled \/ rcv + n > total => straddled')
              \/ /\ discarding /\ rxLen' = 0 /\ rcv + n < total
                 /\ rcv' = rcv + n /\ total' = total /\ discarding'
                 /\ (straddled \/ rcv + n > total => straddled')
              \/ ~discarding /\ rxLen' = rxLen + n /\ UNCHANGED straddled /\ ~discarding'
    BY <1>0, <1>2, ReadTakes
  <2>2. pc # "lost"
    BY <1>2 DEF Read
  <2>3. ASSUME ~straddled' PROVE Aligned'
    <3>1. Aligned
      BY <1>0, <2>1, <2>3 DEF AlignInv
    <3>2. CASE discarding /\ ~discarding'
      <4>1. PICK i \in 1..Len(stream) : From[i] + rcv = rpos /\ total = Size(stream[i])
        BY <3>1, <3>2 DEF Aligned
      <4>2. rcv + n = total /\ rxLen' = 0
        BY <1>0, <2>1, <2>3, <3>2
      <4>3. i + 1 \in 1..(Len(stream) + 1) /\ From[i] \in Nat /\ From[i + 1] = From[i] + total
        BY <1>0, <4>1, StreamFacts
      <4>4. Front' = From[i + 1]
        <5>1. Front' = rpos + n
          BY <1>0, <2>1, <4>2 DEF Front
        <5>2. rcv \in Nat /\ total \in Nat /\ rpos \in Nat
          BY <1>0
        <5> QED
          BY <4>1, <4>2, <4>3, <5>1, <5>2
      <4> QED
        BY <1>0, <3>2, <4>3, <4>4 DEF Aligned
    <3>3. CASE discarding /\ discarding'
      <4>1. PICK i \in 1..Len(stream) : /\ From[i] + rcv = rpos /\ total = Size(stream[i])
                                       /\ i \in discarded
        BY <3>1, <3>3 DEF Aligned
      <4>2. From[i] \in Nat
        BY <1>0, <4>1, StreamFacts
      <4>3. rcv' = rcv + n /\ rcv + n < total /\ total' = total
        BY <2>1, <3>3
      <4>4. From'[i] + rcv' = rpos' /\ rcv' < total' /\ total' = Size(stream'[i])
            /\ i \in discarded'
        BY <1>0, <2>1, <4>1, <4>2, <4>3
      <4> QED
        BY <1>0, <3>3, <4>4 DEF Aligned
    <3>4. CASE ~discarding
      <4>1. ~discarding' /\ Front' = Front
        BY <1>0, <2>1, <3>4 DEF Front
      <4> QED
        BY <1>0, <3>1, <3>4, <4>1 DEF Aligned
    <3> QED
      BY <3>2, <3>3, <3>4
  <2> QED
    BY <2>1, <2>2, <2>3 DEF AlignInv
<1>3. CASE DiscardBegins \/ DiscardWhole
  <2>1. /\ InStep /\ Current \in 1..Len(stream) /\ Current + 1 \in 1..(Len(stream) + 1)
        /\ From[Current] = Front /\ From[Current + 1] = Front + Size(Frame)
        /\ Front + rxLen = rpos /\ Frame = stream[Current]
    BY <1>0, <1>3, DiscardMoves, FrameFacts DEF Front
  <2>2. Aligned'
    <3>1. CASE discarding' /\ total' = Size(Frame) /\ rcv' = rxLen /\ rxLen < Size(Frame)
      <4>1. /\ From'[Current] + rcv' = rpos' /\ total' = Size(stream'[Current]) /\ rcv' < total'
            /\ Current \in discarded'
        BY <1>0, <1>3, <2>1, <3>1, DiscardMoves
      <4> QED
        BY <1>0, <2>1, <3>1, <4>1 DEF Aligned
    <3>2. CASE rxLen = Size(Frame) /\ UNCHANGED <<discarding, total, rcv>>
      <4>1. ~discarding'
        BY <1>0, <1>3, <3>2, DiscardMoves DEF BufferInv
      <4>2. Front' = From[Current + 1]
        BY <1>0, <1>3, <2>1, <3>2, DiscardMoves
      <4> QED
        BY <1>0, <2>1, <4>1, <4>2 DEF Aligned
    <3> QED
      BY <1>0, <1>3, <3>1, <3>2, DiscardMoves
  <2> QED
    BY <1>0, <1>3, <2>2, DiscardMoves DEF AlignInv
<1>4. CASE Collect \/ Control
  <2>1. /\ Current + 1 \in 1..(Len(stream) + 1) /\ Front' = From[Current + 1] /\ ~discarding'
        /\ pc' = "dispatch"
    <3>1. /\ InStep /\ pc' = "dispatch" /\ ~discarding' /\ Front' = Front + Size(Frame)
      BY <1>0, <1>4, ConsumeMoves DEF BufferInv
    <3>2. Current \in 1..Len(stream) /\ From[Current + 1] = Front + Size(Frame)
      BY <1>0, <3>1, FrameFacts
    <3>3. Current + 1 \in 1..(Len(stream) + 1)
      BY <1>0, <3>2
    <3> QED
      BY <3>1, <3>2, <3>3
  <2> QED
    BY <1>0, <2>1 DEF AlignInv, Aligned
<1> QED
  BY <1>1, <1>2, <1>3, <1>4 DEF Next, Dispatch, Idle

(* Only long frames are discarded, and a long one is kept only from the     *)
(* inside of the buffer.                                                    *)
LEMMA LongStep == Inv /\ Next => LongInv'
<1> SUFFICES ASSUME Inv, Next PROVE LongInv'
  OBVIOUS
<1>0. /\ Counts /\ LongInv /\ stream' = stream /\ received \in Seq(DOMAIN stream)
      /\ \A k : Fitted(k) => (stream'[k].len > MaxRx => Size(stream'[k]) < Capacity)
  BY StreamKept DEF Inv, TypeOK, DataTypes, Fitted
<1>1. ASSUME UNCHANGED <<discarded, delivered>>, received' = received \/ received' = <<>> PROVE LongInv'
  BY <1>0, <1>1 DEF LongInv, Fitted
<1>2. CASE Idle
  BY <1>1, <1>2, IdleKeeps
<1>3. CASE FetchRecord \/ Read \/ Control
  BY <1>1, <1>3 DEF FetchRecord, Read, Control, dataVars
<1>4. CASE DiscardBegins \/ DiscardWhole
  <2>1. stream[Current].len > MaxRx
    BY <1>0, <1>4, DiscardMoves, FrameFacts DEF TooLong
  <2>2. UNCHANGED <<received, delivered>> /\ discarded' = discarded \cup {Current}
    BY <1>0, <1>4, DiscardMoves
  <2> QED
    BY <1>0, <2>1, <2>2 DEF LongInv, Fitted
<1>5. CASE Collect
  <2>1. /\ Current \in DOMAIN stream /\ Frame = stream[Current] /\ Frame.len \in Nat
        /\ (TooLong(Frame) => Size(Frame) < rxLen)
        /\ Size(Frame) \in Nat /\ rxLen \in Nat /\ rxLen <= Capacity /\ Capacity \in Nat
    BY <1>0, <1>5, ConsumeMoves, FrameFacts, StreamFacts, Bounds DEF Counts
  <2>2. Fitted(Current)
    BY <2>1 DEF Fitted, TooLong
  <2> DEFINE parts == Append(received, Current)
  <2>3. parts \in Seq(DOMAIN stream) /\ \A k \in DOMAIN parts : Fitted(parts[k])
    BY <1>0, <2>1, <2>2, Grows DEF LongInv
  <2>4. CASE received' = parts /\ UNCHANGED <<discarded, delivered>>
    BY <1>0, <2>3, <2>4 DEF LongInv, Fitted
  <2>5. CASE /\ received' = <<>> /\ UNCHANGED discarded
             /\ delivered' = Append(delivered, [op |-> Frame.op, parts |-> parts,
                                                len |-> length + Frame.len])
    <3> DEFINE S == [op : {"TEXT", "BINARY", "CONTINUATION"}, parts : Seq(DOMAIN stream), len : Nat]
               d == [op |-> Frame.op, parts |-> parts, len |-> length + Frame.len]
    <3>1. delivered \in Seq(S)
      BY <1>0 DEF LongInv
    <3>2. length + Frame.len \in Nat
      <4>1. length \in Nat
        BY <1>0, StreamFacts DEF Counts
      <4>2. Frame.len \in Nat
        BY <2>1
      <4> QED
        BY <4>1, <4>2
    <3>3. d \in S /\ d.parts = parts
      BY <1>5, <2>3, <3>2 DEF Collect, IsData
    <3> HIDE DEF S, d, parts
    <3>4. /\ delivered' = Append(delivered, d) /\ delivered' \in Seq(S)
          /\ DOMAIN delivered' = 1..(Len(delivered) + 1) /\ DOMAIN delivered = 1..Len(delivered)
          /\ \A m \in DOMAIN delivered : delivered'[m] = delivered[m]
          /\ delivered'[Len(delivered) + 1] = d /\ Len(delivered) \in Nat
      BY <2>5, <3>1, <3>3 DEF d
    <3>5. ASSUME NEW m \in DOMAIN delivered', NEW k \in DOMAIN delivered'[m].parts
          PROVE  Fitted(delivered'[m].parts[k])
      <4>1. CASE m \in DOMAIN delivered
        BY <1>0, <3>4, <3>5, <4>1 DEF LongInv
      <4>2. CASE m = Len(delivered) + 1
        BY <2>3, <3>3, <3>4, <3>5, <4>2
      <4> QED
        BY <3>4, <4>1, <4>2
    <3>6. DOMAIN received' = {}
      BY <2>5
    <3> QED
      BY <1>0, <2>5, <3>4, <3>5, <3>6 DEF LongInv, Fitted, S
  <2> QED
    BY <1>5, <2>4, <2>5 DEF Collect
<1> QED
  BY <1>2, <1>3, <1>4, <1>5 DEF Next, Dispatch, Idle

LEMMA InitInv == Init => Inv
<1> SUFFICES ASSUME Init PROVE Inv
  OBVIOUS
<1>1. /\ stream \in Streams /\ Len(stream) \in Nat /\ From[1] = 0
      /\ 1 \in 1..(Len(stream) + 1) /\ Total \in Nat
  <2>1. stream \in Streams /\ Len(stream) \in Nat /\ Offsets(stream)[1] = 0
    BY OffsetsDef DEF Init
  <2>2. Len(stream) + 1 \in 1..(Len(stream) + 1) /\ 1 \in 1..(Len(stream) + 1)
    BY <2>1
  <2> QED
    BY <2>1, <2>2, OffsetsType DEF From, Total
<1>2. Counts
  BY <1>1, Bounds DEF Init, Counts
<1>3. DataTypes
  BY EmptyIsSeq DEF Init, DataTypes
<1>4. FlagTypes
  BY Zenon DEF Init, FlagTypes
<1>5. BufferInv /\ LengthInv
  BY Bounds DEF Init, BufferInv, LengthInv, RoomToRead, Room, Front
<1>6. AlignInv
  BY <1>1 DEF Init, AlignInv, Aligned, Front
<1>7. LongInv
  BY EmptyIsSeq DEF Init, LongInv
<1> QED
  BY <1>2, <1>3, <1>4, <1>5, <1>6, <1>7 DEF Inv, TypeOK

(* The inductive invariant always holds.                                    *)
LEMMA Inductive == Spec => []Inv
<1>1. Inv /\ Next => Inv'
  BY CountsStep, DataStep, FlagStep, BufferStep, AlignStep, LongStep DEF Inv, TypeOK
<1>2. Inv /\ UNCHANGED vars => Inv'
  <2> SUFFICES ASSUME Inv, UNCHANGED vars PROVE Inv'
    OBVIOUS
  <2>1. From' = From /\ Total' = Total /\ Front' = Front /\ Room' = Room
    BY DEF vars, From, Total, Front, Room
  <2>2. TypeOK' /\ BufferInv' /\ LengthInv'
    BY <2>1 DEF vars, discardVars, dataVars, memoryVars, Inv, TypeOK, Counts, DataTypes, FlagTypes,
       BufferInv, RoomToRead, LengthInv
  <2>3. AlignInv'
    BY <2>1 DEF vars, discardVars, Inv, AlignInv, Aligned
  <2>4. LongInv'
    BY DEF vars, dataVars, Inv, LongInv, Fitted
  <2> QED
    BY <2>2, <2>3, <2>4 DEF Inv
<1> QED
  BY <1>1, <1>2, InitInv, PTL DEF Spec

-----------------------------------------------------------------------------
(* The counters of ws_poll and ws_dispatchBinary stay within the buffer and *)
(* the stream, and a poll never starts with a full rxbuf, unless memory ran *)
(* out in the last dispatch.                                                *)
THEOREM RoomAndCounters == Spec => []ReceiveInv
<1>1. Inv => ReceiveInv
  BY DEF Inv, ReceiveInv, BufferInv
<1> QED
  BY <1>1, Inductive, PTL

(* However records and reads cut the stream, ws_dispatchBinary reads headers *)
(* where headers are, unless a discard swallowed bytes of the next frame.   *)
THEOREM HeadersAreHeaders == Spec => []InStepUnlessStraddled
<1>1. Inv => InStepUnlessStraddled
  BY AlignedInStep DEF Inv, AlignInv, InStepUnlessStraddled
<1> QED
  BY <1>1, Inductive, PTL

(* Frames within max_rx_len are never discarded, and a longer one reaches   *)
(* the handler only if it fitted into rxbuf with a byte to spare.           *)
THEOREM LongOnes == Spec => []LongAreDiscarded
<1>1. Inv => LongAreDiscarded
  BY DEF Inv, LongInv, Fitted, LongAreDiscarded
<1> QED
  BY <1>1, Inductive, PTL
-----------------------------------------------------------------------------
(* What the handler is given.  Done: the data frames that have gone through *)
(* the buffer; Held: those of them after the last one with FIN; PartsKept:  *)
(* the frames of a message but for those thrown away.                       *)
Kept(k) == IsData(stream[k]) /\ k \notin discarded
Done    == {k \in DOMAIN stream : Kept(k) /\ From[k + 1] <= Front}
Ended   == {k \in Done : stream[k].fin}
Held    == {k \in Done : \A j \in Done : j >= k => ~stream[j].fin}
PartsKept(i) == {k \in 1..i : Kept(k) /\ \A j \in k..(i - 1) : Kept(j) => ~stream[j].fin}

(* A message is made of what was kept of it.                                *)
Message(d) ==
    /\ d.op = stream[EndOf(d)].op
    /\ Lists(d.parts, PartsKept(EndOf(d)))
    /\ d.len = SumLen(d.parts)

(* receivedData holds the fragments after the last message, every frame     *)
(* with FIN ended a message, and each was delivered with what was kept.     *)
Exact ==
    /\ pc # "closed" => Lists(received, Held) /\ length = SumLen(received)
    /\ Lists([m \in DOMAIN delivered |-> EndOf(delivered[m])], Ended)
    /\ \A m \in DOMAIN delivered : Message(delivered[m])

(* ... unless bytes or fragments were lost.  A discarded frame has begun to *)
(* go through the buffer.                                                   *)
ExactInv ==
    /\ ~straddled /\ ~starved => Exact
    /\ \A i \in discarded : From[i] < Front

(* Which frames have gone when the front of the buffer is within frame i.   *)
LEMMA GoneBefore ==
  ASSUME Counts, NEW i \in 1..Len(stream), NEW p \in Nat, From[i] <= p, p <= From[i + 1]
  PROVE  /\ \A k \in DOMAIN stream : k # i => (From[k + 1] <= p <=> k < i)
         /\ From[i] < From[i + 1] /\ \A k \in DOMAIN stream : From[k] < p /\ k # i => k < i
<1>0. /\ stream \in Streams /\ DOMAIN stream = 1..Len(stream) /\ Len(stream) \in Nat
      /\ \A k \in 1..(Len(stream) + 1) : From[k] \in Nat
  BY StreamFacts
<1>1. \A k, j \in 1..(Len(stream) + 1) : k < j => From[k] < From[j]
  BY <1>0, OffsetsAscend DEF From
<1>2. i \in 1..(Len(stream) + 1) /\ i + 1 \in 1..(Len(stream) + 1) /\ i < i + 1
  BY <1>0
<1>3. ASSUME NEW k \in DOMAIN stream, k # i
      PROVE  (From[k + 1] <= p <=> k < i) /\ (From[k] < p => k < i)
  <2>0. k \in 1..(Len(stream) + 1) /\ k + 1 \in 1..(Len(stream) + 1)
    BY <1>0
  <2>1. From[k] \in Nat /\ From[k + 1] \in Nat /\ From[i] \in Nat /\ From[i + 1] \in Nat
    BY <1>0, <1>2, <2>0
  <2>2. CASE k < i
    <3>1. k + 1 = i \/ k + 1 < i
      BY <1>0, <2>2
    <3>2. From[k + 1] <= From[i]
      BY <1>1, <1>2, <2>0, <2>1, <3>1
    <3> QED
      BY <2>1, <2>2, <3>2
  <2>3. CASE i < k
    <3>1. i + 1 = k \/ i + 1 < k
      BY <1>0, <2>3
    <3>2. From[i + 1] <= From[k]
      BY <1>1, <1>2, <2>0, <2>1, <3>1
    <3>3. From[k] < From[k + 1] /\ ~(k < i)
      BY <1>0, <1>1, <2>0, <2>3
    <3> QED
      BY <2>1, <3>2, <3>3
  <2> QED
    BY <1>0, <1>3, <2>2, <2>3
<1>4. From[i] < From[i + 1]
  BY <1>1, <1>2
<1> QED
  BY <1>3, <1>4

(* At the front of frame i, they are those before it.                       *)
LEMMA DoneBefore ==
  ASSUME Counts, InStep
  PROVE  \A k \in DOMAIN stream : From[k + 1] <= Front <=> k < Current
<1>0. /\ Current \in 1..Len(stream) /\ From[Current] = Front /\ Len(stream) \in Nat
      /\ From[Current + 1] = Front + Size(Frame) /\ Size(Frame) \in Nat /\ Size(Frame) >= 2
      /\ Front \in Nat
  BY FrameFacts, StreamFacts
<1>1. From[Current] <= Front /\ Front <= From[Current + 1] /\ ~(From[Current + 1] <= Front)
  BY <1>0
<1>2. \A k \in DOMAIN stream : k # Current => (From[k + 1] <= Front <=> k < Current)
  BY <1>0, <1>1, GoneBefore
<1> QED
  BY <1>0, <1>1, <1>2

(* The lengths are of the stream, which does not change.                    *)
LEMMA SumLenKept ==
  ASSUME stream' = stream, NEW q
  PROVE  SumLen(q)' = SumLen(q)
  BY DEF SumLen

(* A message stays what it is when no frame before its end is thrown away.  *)
LEMMA MessageKept ==
  ASSUME Counts, stream' = stream, NEW d, Message(d), EndOf(d) \in DOMAIN stream,
         \A k \in DOMAIN stream : k <= EndOf(d) => (Kept(k)' <=> Kept(k))
  PROVE  Message(d)'
<1>0. DOMAIN stream = 1..Len(stream) /\ Len(stream) \in Nat
  BY StreamFacts
<1>1. PICK e \in DOMAIN stream : e = EndOf(d)
  OBVIOUS
<1>2. \A k \in 1..e : (Kept(k)' <=> Kept(k)) /\ k \in DOMAIN stream
  BY <1>0, <1>1
<1>3. \A k \in 1..e : \A j \in k..(e - 1) : j \in 1..e
  BY <1>0
<1>4. PartsKept(e)' = PartsKept(e)
  BY <1>2, <1>3 DEF PartsKept
<1>5. PartsKept(EndOf(d))' = PartsKept(EndOf(d))
  BY <1>1, <1>4
<1>6. SumLen(d.parts)' = SumLen(d.parts)
  BY SumLenKept
<1> QED
  BY <1>5, <1>6 DEF Message

(* A message delivered ends with a frame that has gone.                     *)
LEMMA EndsAreDone ==
  ASSUME Exact, NEW m \in DOMAIN delivered
  PROVE  EndOf(delivered[m]) \in Ended /\ EndOf(delivered[m]) \in Done
         /\ EndOf(delivered[m]) \in DOMAIN stream
  BY DEF Exact, Lists, Ended, Done

(* A step that completes no data frame keeps what has been received.        *)
LEMMA SameDone ==
  ASSUME Counts, Exact, stream' = stream, Done' = Done, delivered' = delivered,
         pc' # "closed" => pc # "closed" /\ UNCHANGED <<received, length>>,
         \A i \in Done, k \in DOMAIN stream : k <= i => (Kept(k)' <=> Kept(k))
  PROVE  Exact'
<1>1. Held' = Held /\ Ended' = Ended
  BY DEF Held, Ended
<1>2. ASSUME NEW m \in DOMAIN delivered' PROVE Message(delivered[m])'
  <2>1. PICK d : d = delivered[m]
    OBVIOUS
  <2>2. Message(d) /\ EndOf(d) \in Done /\ EndOf(d) \in DOMAIN stream
    BY <1>2, <2>1, EndsAreDone DEF Exact
  <2>3. Message(d)'
    BY <2>2, MessageKept
  <2>4. delivered'[m] = d
    BY <2>1
  <2> QED
    BY <2>3, <2>4 DEF Message, EndOf
<1>3. ASSUME pc' # "closed" PROVE Lists(received', Held') /\ length' = SumLen(received)'
  <2>1. UNCHANGED <<received, length>> /\ Lists(received, Held) /\ length = SumLen(received)
    BY <1>3 DEF Exact
  <2>2. SumLen(received)' = SumLen(received)
    BY <2>1 DEF SumLen
  <2> QED
    BY <1>1, <2>1, <2>2
<1> QED
  BY <1>1, <1>2, <1>3 DEF Exact

(* Nothing that goes while a frame is thrown away is kept of it.            *)
LEMMA ThrownAway ==
  ASSUME Counts, Exact, NEW i \in DOMAIN stream, stream' = stream, From' = From,
         Front' \in Nat, From[i] <= Front, Front <= Front', Front' <= From[i + 1],
         discarded' = discarded \cup {i}, i \notin Done,
         UNCHANGED <<received, length, delivered>>, pc # "closed"
  PROVE  Exact'
<1>0. i \in 1..Len(stream) /\ Front \in Nat /\ From[i] \in Nat /\ From[i + 1] \in Nat
      /\ DOMAIN stream = 1..Len(stream) /\ Len(stream) \in Nat
  <2>1. i \in 1..Len(stream) /\ Front \in Nat /\ DOMAIN stream = 1..Len(stream) /\ Len(stream) \in Nat
    BY StreamFacts
  <2>2. i \in 1..(Len(stream) + 1) /\ i + 1 \in 1..(Len(stream) + 1)
    BY <2>1
  <2> QED
    BY <2>1, <2>2, StreamFacts
<1>1. PICK p \in Nat : p = Front'
  OBVIOUS
<1>2. From[i] <= p /\ p <= From[i + 1] /\ Front <= From[i + 1]
  BY <1>0, <1>1
<1>3. \A k \in DOMAIN stream : k # i => (From[k + 1] <= p <=> k < i)
  BY <1>0, <1>2, GoneBefore
<1>4. \A k \in DOMAIN stream : k # i => (From[k + 1] <= Front <=> k < i)
  BY <1>0, <1>2, GoneBefore
<1>5. \A k \in DOMAIN stream : k # i => (Kept(k)' <=> Kept(k))
  BY DEF Kept
<1>6. ~Kept(i)'
  BY DEF Kept
<1>7. Done' = Done
  <2>1. \A k \in DOMAIN stream : k \in Done' <=> Kept(k)' /\ From[k + 1] <= p
    BY <1>1 DEF Done
  <2>2. \A k \in DOMAIN stream : k \in Done <=> Kept(k) /\ From[k + 1] <= Front
    BY DEF Done
  <2>3. \A k \in DOMAIN stream : k \in Done' <=> k \in Done
    BY <1>3, <1>4, <1>5, <1>6, <2>1, <2>2
  <2>4. Done' \subseteq DOMAIN stream /\ Done \subseteq DOMAIN stream
    BY DEF Done
  <2> QED
    BY <2>3, <2>4
<1>8. ASSUME NEW j \in Done, NEW k \in DOMAIN stream, k <= j PROVE Kept(k)' <=> Kept(k)
  <2>1. j \in DOMAIN stream /\ j # i /\ From[j + 1] <= Front
    BY DEF Done
  <2>2. j < i
    BY <1>4, <2>1
  <2>3. k # i
    BY <1>0, <1>8, <2>1, <2>2
  <2> QED
    BY <1>5, <2>3
<1> QED
  BY <1>7, <1>8, SameDone

(* A data frame completed: the next of its message, or the last.            *)
LEMMA CollectExact ==
  ASSUME Inv, ExactInv, Exact, Collect
  PROVE  Exact'
<1>0. /\ Counts /\ InStep /\ pc = "dispatch" /\ pc' = "dispatch" /\ discarded' = discarded
      /\ Front' = Front + Size(Frame) /\ stream' = stream /\ From' = From
      /\ received \in Seq(DOMAIN stream)
  <2>1. Counts /\ received \in Seq(DOMAIN stream)
    BY DEF Inv, TypeOK, DataTypes
  <2>2. stream' = stream
    BY DEF Collect
  <2> QED
    BY <2>1, <2>2, ConsumeMoves DEF From
<1>1. PICK c \in DOMAIN stream : c = Current
  BY <1>0, FrameFacts
<1>2. /\ c \in 1..Len(stream) /\ DOMAIN stream = 1..Len(stream) /\ Len(stream) \in Nat
      /\ Frame = stream[c] /\ From[c] = Front /\ From[c + 1] = Front' /\ Front \in Nat
      /\ From[c + 1] \in Nat /\ From[c] \in Nat
  <2>1. /\ c \in 1..Len(stream) /\ DOMAIN stream = 1..Len(stream) /\ Len(stream) \in Nat
        /\ Frame = stream[c] /\ From[c] = Front /\ From[c + 1] = Front' /\ Front \in Nat
    BY <1>0, <1>1, FrameFacts, StreamFacts
  <2>2. c \in 1..(Len(stream) + 1) /\ c + 1 \in 1..(Len(stream) + 1)
    BY <2>1
  <2> QED
    BY <1>0, <2>1, <2>2, StreamFacts
<1>3. \A k \in DOMAIN stream : From[k + 1] <= Front <=> k < c
  BY <1>0, <1>1, DoneBefore
<1>4. \A k \in DOMAIN stream : From[k + 1] <= From[c + 1] <=> k <= c
  <2>0. Size(Frame) \in Nat /\ Size(Frame) >= 2
    BY <1>0, FrameFacts
  <2>1. From[c] < From[c + 1]
    BY <1>0, <1>2, <2>0
  <2>2. From[c] <= From[c + 1] /\ From[c + 1] <= From[c + 1]
    BY <1>2, <2>1
  <2>3. \A k \in DOMAIN stream : k # c => (From[k + 1] <= From[c + 1] <=> k < c)
    BY <1>0, <1>2, <2>2, GoneBefore
  <2> QED
    BY <1>2, <2>2, <2>3
<1>5. Kept(c) /\ \A k : Kept(k)' <=> Kept(k)
  <2>1. IsData(stream[c])
    BY <1>2 DEF Collect
  <2>2. c \notin discarded
    <3>1. ~(From[c] < Front)
      BY <1>2
    <3> QED
      BY <3>1 DEF ExactInv
  <2>3. \A k : Kept(k)' <=> Kept(k)
    BY <1>0 DEF Kept
  <2> QED
    BY <2>1, <2>2, <2>3 DEF Kept
<1>6. \A k : k \in Done <=> k \in DOMAIN stream /\ Kept(k) /\ k < c
  BY <1>3 DEF Done
<1>7. \A k : k \in Done' <=> k \in DOMAIN stream /\ Kept(k) /\ k <= c
  <2>1. \A k : k \in Done' <=> k \in DOMAIN stream /\ Kept(k)' /\ From[k + 1] <= From[c + 1]
    BY <1>0, <1>2 DEF Done
  <2> QED
    BY <1>4, <1>5, <2>1
<1>8. Done' = Done \cup {c}
  <2>1. \A k \in DOMAIN stream : k <= c <=> k < c \/ k = c
    BY <1>2
  <2> QED
    BY <1>1, <1>5, <1>6, <1>7, <2>1
<1>9. \A k \in Done : k < c /\ k \in DOMAIN stream
  BY <1>6
<1> DEFINE parts == Append(received, c)
<1>10. Lists(received, Held) /\ length = SumLen(received)
  BY <1>0 DEF Exact
<1>11. Lists(parts, Held \cup {c}) /\ parts \in Seq(DOMAIN stream) /\ parts[Len(parts)] = c
  <2>1. /\ DOMAIN received = 1..Len(received) /\ DOMAIN parts = 1..(Len(received) + 1)
        /\ Len(received) \in Nat /\ parts[Len(received) + 1] = c
        /\ \A a \in 1..Len(received) : parts[a] = received[a]
        /\ Len(parts) = Len(received) + 1 /\ parts \in Seq(DOMAIN stream)
    BY <1>0
  <2>2. \A y \in Held : y < c
    BY <1>9 DEF Held
  <2> HIDE DEF parts
  <2> QED
    BY <1>10, <2>1, <2>2, ListsOneMore
<1>12. SumLen(parts) = length + stream[c].len
  BY <1>0, <1>10, SumLenAppend
<1>13. ASSUME NEW m \in DOMAIN delivered PROVE Message(delivered[m])
       /\ EndOf(delivered[m]) \in DOMAIN stream
  BY <1>13, EndsAreDone DEF Exact
<1>14. \A d : Message(d) /\ EndOf(d) \in DOMAIN stream => Message(d)'
  BY <1>0, <1>5, MessageKept
<1> HIDE DEF parts
<1>15. CASE ~stream[c].fin
  <2>1. received' = parts /\ length' = length + stream[c].len /\ delivered' = delivered
    BY <1>1, <1>2, <1>15 DEF Collect, parts
  <2>2. Held' = Held \cup {c}
    <3>1. \A k : k \in Held' <=> k \in Done' /\ \A j \in Done' : j >= k => ~stream[j].fin
      BY <1>0 DEF Held
    <3>2. \A k : k \in Held <=> k \in Done /\ \A j \in Done : j >= k => ~stream[j].fin
      BY DEF Held
    <3>3. \A j \in Done : ~(j >= c)
      BY <1>2, <1>9
    <3> QED
      BY <1>8, <1>15, <3>1, <3>2, <3>3
  <2>3. Ended' = Ended
    BY <1>0, <1>8, <1>15 DEF Ended
  <2>4. SumLen(received)' = SumLen(parts)
    BY <1>0, <2>1 DEF SumLen
  <2>5. ASSUME NEW m \in DOMAIN delivered' PROVE Message(delivered[m])'
    <3>1. PICK d : d = delivered[m]
      OBVIOUS
    <3>2. Message(d)' /\ delivered'[m] = d
      BY <1>13, <1>14, <2>1, <2>5, <3>1
    <3> QED
      BY <3>2 DEF Message, EndOf
  <2> QED
    BY <1>10, <1>11, <1>12, <2>1, <2>2, <2>3, <2>4, <2>5 DEF Exact
<1>16. CASE stream[c].fin
  <2> DEFINE d == [op |-> stream[c].op, parts |-> parts, len |-> length + stream[c].len]
             before == [m \in DOMAIN delivered |-> EndOf(delivered[m])]
             after  == [m \in DOMAIN delivered' |-> EndOf(delivered'[m])]
  <2>1. received' = <<>> /\ length' = 0 /\ delivered' = Append(delivered, d)
    BY <1>1, <1>2, <1>16 DEF Collect, parts
  <2>2. d.op = stream[c].op /\ d.parts = parts /\ d.len = length + stream[c].len
    OBVIOUS
  <2>3. EndOf(d) = c
    BY <1>11, <2>2 DEF EndOf
  <2> HIDE DEF d
  <2>4. PICK n \in Nat : n = Len(delivered) /\ DOMAIN delivered = 1..n
                         /\ DOMAIN delivered' = 1..(n + 1) /\ delivered'[n + 1] = d
                         /\ \A m \in 1..n : delivered'[m] = delivered[m]
    <3>1. PICK S : delivered \in Seq(S)
      BY DEF Inv, LongInv
    <3> QED
      BY <2>1, <3>1
  <2>5. Held' = {}
    <3>1. \A k : k \in Held' => k \in Done' /\ \A j \in Done' : j >= k => ~stream[j].fin
      BY <1>0 DEF Held
    <3>2. \A k \in Done' : c >= k
      BY <1>2, <1>7
    <3> QED
      BY <1>8, <1>16, <3>1, <3>2
  <2>6. Ended' = Ended \cup {c}
    BY <1>0, <1>8, <1>16 DEF Ended
  <2>7. PartsKept(c) = Held \cup {c}
    <3>1. ASSUME NEW k \in 1..c PROVE k \in PartsKept(c) <=> k \in Held \cup {c}
      <4>1. CASE k = c
        <5>1. c..(c - 1) = {}
          BY <1>2
        <5> QED
          BY <1>5, <4>1, <5>1 DEF PartsKept
      <4>2. CASE k # c
        <5>1. k < c /\ k \in DOMAIN stream
          BY <1>2, <4>2
        <5>2. \A j : j \in Done /\ j >= k <=> j \in k..(c - 1) /\ Kept(j)
          <6>1. \A j \in DOMAIN stream : j < c /\ j >= k <=> j \in k..(c - 1)
            BY <1>2
          <6>2. \A j \in k..(c - 1) : j \in DOMAIN stream
            BY <1>2
          <6> QED
            BY <1>6, <6>1, <6>2
        <5>3. k \in Held <=> k \in Done /\ \A j : j \in Done /\ j >= k => ~stream[j].fin
          BY DEF Held
        <5>4. k \in Done <=> Kept(k)
          BY <1>6, <5>1
        <5>5. k \in PartsKept(c) <=> Kept(k) /\ \A j : j \in k..(c - 1) /\ Kept(j) => ~stream[j].fin
          BY DEF PartsKept
        <5> QED
          BY <4>2, <5>2, <5>3, <5>4, <5>5
      <4> QED
        BY <4>1, <4>2
    <3>2. PartsKept(c) \subseteq 1..c
      BY DEF PartsKept
    <3>3. Held \subseteq 1..c /\ c \in 1..c
      BY <1>2, <1>9 DEF Held
    <3> QED
      BY <3>1, <3>2, <3>3
  <2>8. Message(d)
    BY <1>11, <1>12, <2>2, <2>3, <2>7 DEF Message
  <2>9. ASSUME NEW m \in DOMAIN delivered' PROVE Message(delivered[m])'
    <3>1. PICK b : b = delivered'[m]
      OBVIOUS
    <3>2. Message(b) /\ EndOf(b) \in DOMAIN stream
      <4>1. CASE m = n + 1
        BY <2>3, <2>4, <2>8, <3>1, <4>1
      <4>2. CASE m \in 1..n
        BY <1>13, <2>4, <3>1, <4>2
      <4> QED
        BY <2>4, <2>9, <4>1, <4>2
    <3>3. Message(b)'
      BY <1>14, <3>2
    <3> QED
      BY <3>1, <3>3 DEF Message, EndOf
  <2>10. Lists(after, Ended \cup {c})
    <3>1. Lists(before, Ended)
      BY DEF Exact
    <3>2. \A y \in Ended : y < c
      BY <1>9 DEF Ended
    <3>3. /\ DOMAIN before = 1..n /\ DOMAIN after = 1..(n + 1) /\ after[n + 1] = c
          /\ \A m \in 1..n : after[m] = before[m]
      BY <2>3, <2>4
    <3> HIDE DEF after, before
    <3> QED
      BY <3>1, <3>2, <3>3, ListsOneMore
  <2>11. Lists(received', Held') /\ length' = SumLen(received)'
    <3>1. SumLen(<<>>)' = SumLen(<<>>)
      BY <1>0 DEF SumLen
    <3>2. SumLen(received)' = SumLen(<<>>)'
      BY <2>1 DEF SumLen
    <3> QED
      BY <2>1, <2>5, <3>1, <3>2, ListsNone, SumLenEmpty
  <2> QED
    BY <2>6, <2>9, <2>10, <2>11 DEF Exact
<1> QED
  BY <1>15, <1>16

(* Whatever the step, what was received stays what was kept.               *)
LEMMA ExactStep == Inv /\ ExactInv /\ Next => ExactInv'
<1> SUFFICES ASSUME Inv, ExactInv, Next PROVE ExactInv'
  OBVIOUS
<1>0. /\ Counts /\ BufferInv /\ AlignInv /\ stream' = stream /\ From' = From
      /\ rpos \in Nat /\ rxLen \in Nat /\ rxLen <= rpos /\ Front \in Nat /\ Front + rxLen = rpos
      /\ discarded \subseteq DOMAIN stream /\ DOMAIN stream = 1..Len(stream) /\ Len(stream) \in Nat
      /\ \A i \in DOMAIN stream : From[i] \in Nat
      /\ rcv \in Nat /\ total \in Nat
  <2>1. Counts /\ BufferInv /\ AlignInv /\ discarded \subseteq DOMAIN stream
    BY DEF Inv, TypeOK, DataTypes
  <2>2. /\ rpos \in Nat /\ rxLen \in Nat /\ Front \in Nat /\ DOMAIN stream = 1..Len(stream)
        /\ Len(stream) \in Nat /\ \A i \in 1..(Len(stream) + 1) : From[i] \in Nat
    BY <2>1, StreamFacts
  <2>3. rxLen <= rpos /\ Front + rxLen = rpos /\ rcv \in Nat /\ total \in Nat
    BY <2>1, <2>2, StreamFacts DEF Counts, Front
  <2> QED
    BY <2>1, <2>2, <2>3, StreamKept
<1>1. ASSUME Front' = Front, discarded' = discarded, delivered' = delivered,
             straddled' = straddled, starved => starved',
             ~starved' /\ pc' # "closed" => pc # "closed" /\ UNCHANGED <<received, length>>
      PROVE  ExactInv'
  <2>1. Done' = Done /\ \A k : Kept(k)' <=> Kept(k)
    BY <1>0, <1>1 DEF Done, Kept
  <2>2. ASSUME ~straddled', ~starved' PROVE Exact'
    <3>1. Exact
      BY <1>1, <2>2 DEF ExactInv
    <3> QED
      BY <1>0, <1>1, <2>1, <2>2, <3>1, SameDone
  <2> QED
    BY <1>0, <1>1, <2>2 DEF ExactInv
<1>2. CASE PollReadable \/ ReadEnds \/ Incomplete \/ CollectFaults \/ Misparse \/ FetchRecord
  <2>1. /\ UNCHANGED <<rpos, rxLen, discarded, delivered, straddled, starved, received, length>>
        /\ pc # "closed"
    BY <1>2 DEF PollReadable, ReadEnds, Incomplete, CollectFaults, Misparse, FetchRecord, Whole,
       dataVars, memoryVars
  <2>2. Front' = Front
    BY <2>1 DEF Front
  <2> QED
    BY <1>1, <2>1, <2>2
<1>3. CASE PollCloses
  <2>1. UNCHANGED <<rpos, rxLen, discarded, delivered, straddled, starved>> /\ pc' = "closed"
    BY <1>3 DEF PollCloses, memoryVars
  <2>2. Front' = Front
    BY <2>1 DEF Front
  <2> QED
    BY <1>1, <2>1, <2>2
<1>4. CASE CollectFails
  <2>1. /\ UNCHANGED <<rpos, rxLen, discarded, delivered, straddled, length>> /\ pc = "dispatch"
        /\ starved' = (starved \/ received # <<>>) /\ received' = <<>>
    BY <1>4 DEF CollectFails, Whole
  <2>2. Front' = Front
    BY <2>1 DEF Front
  <2>3. (starved => starved') /\ (~starved' => received' = received)
    BY <2>1
  <2> QED
    BY <1>1, <2>1, <2>2, <2>3
<1>5. ASSUME NEW i \in DOMAIN stream, From[i] <= Front, Front <= Front', Front' \in Nat,
             Front' <= From[i + 1], i \notin Done, discarded' = discarded \cup {i},
             From[i] < Front', pc # "closed", starved' = starved, ~straddled,
             UNCHANGED <<received, length, delivered>>
      PROVE  ExactInv'
  <2>1. ASSUME ~starved' PROVE Exact'
    <3>1. Exact
      BY <1>5, <2>1 DEF ExactInv
    <3> QED
      BY <1>0, <1>5, <3>1, ThrownAway
  <2>2. ASSUME NEW k \in discarded' PROVE From[k] < Front'
    <3>1. CASE k = i
      BY <1>5, <3>1
    <3>2. CASE k \in discarded
      <4>1. From[k] < Front /\ From[k] \in Nat
        BY <1>0, <3>2 DEF ExactInv
      <4> QED
        BY <1>0, <1>5, <4>1
    <3> QED
      BY <1>5, <3>1, <3>2
  <2> QED
    BY <1>0, <2>1, <2>2 DEF ExactInv
<1>6. CASE Read
  <2>1. PICK n \in Nat :
           /\ n > 0 /\ rpos' = rpos + n /\ rpos + n <= tpos
           /\ UNCHANGED <<length, delivered, received, discarded, pc, starved>>
           /\ \/ /\ discarding /\ rxLen' = 0
                 /\ (straddled \/ rcv + n > total => straddled')
              \/ ~discarding /\ rxLen' = rxLen + n /\ UNCHANGED straddled
    BY <1>0, <1>6, ReadTakes
  <2>2. pc # "closed"
    BY <1>6 DEF Read
  <2>3. CASE ~discarding
    <3>1. rxLen' = rxLen + n /\ UNCHANGED straddled
      BY <2>1, <2>3
    <3>2. Front' = Front
      BY <1>0, <2>1, <3>1 DEF Front
    <3> QED
      BY <1>1, <2>1, <2>2, <3>1, <3>2
  <2>4. CASE discarding
    <3>1. rxLen' = 0 /\ (straddled \/ rcv + n > total => straddled') /\ rxLen = 0
      BY <1>0, <2>1, <2>4 DEF BufferInv
    <3>2. Front' = rpos + n /\ Front = rpos
      BY <1>0, <2>1, <3>1 DEF Front
    <3>3. \A k \in discarded' : From[k] < Front'
      <4> SUFFICES ASSUME NEW k \in discarded PROVE From[k] < Front'
        BY <2>1
      <4>1. From[k] < Front /\ From[k] \in Nat
        BY <1>0 DEF ExactInv
      <4> QED
        BY <1>0, <3>2, <4>1
    <3>4. CASE straddled'
      BY <1>0, <3>3, <3>4 DEF ExactInv
    <3>5. CASE ~straddled'
      <4>1. ~straddled /\ ~(rcv + n > total)
        BY <3>1, <3>5
      <4>2. PICK i \in 1..Len(stream) : /\ From[i] + rcv = rpos /\ i \in discarded
                                       /\ total = Size(stream[i])
        BY <1>0, <2>4, <4>1 DEF AlignInv, Aligned
      <4>3. From[i + 1] = From[i] + total /\ From[i] \in Nat /\ i \in DOMAIN stream
        BY <1>0, <4>2, StreamFacts
      <4>4. /\ From[i] <= Front /\ Front <= Front' /\ Front' \in Nat /\ Front' <= From[i + 1]
            /\ From[i] < Front'
        <5>1. PICK m \in Nat : m = rcv
          BY <1>0
        <5>2. n <= total - m
          BY <1>0, <4>1, <5>1
        <5> QED
          BY <1>0, <2>1, <3>2, <4>2, <4>3, <5>1, <5>2
      <4>5. i \notin Done /\ discarded' = discarded \cup {i}
        BY <2>1, <4>2 DEF Done, Kept
      <4> QED
        BY <1>5, <2>1, <2>2, <4>1, <4>3, <4>4, <4>5
    <3> QED
      BY <3>4, <3>5
  <2> QED
    BY <2>3, <2>4
<1>7. CASE DiscardBegins \/ DiscardWhole
  <2>1. /\ InStep /\ pc = "dispatch" /\ discarded' = discarded \cup {Current}
        /\ UNCHANGED <<length, received, delivered, straddled, starved>> /\ Front' = rpos
        /\ rxLen <= Size(Frame) /\ rxLen > 0
    <3>1. /\ InStep /\ pc = "dispatch" /\ discarded' = discarded \cup {Current}
          /\ UNCHANGED <<length, received, delivered, straddled, starved>> /\ Front' = rpos
          /\ (rxLen < Size(Frame) \/ rxLen = Size(Frame))
      BY <1>0, <1>7, DiscardMoves
    <3>2. rxLen >= 2
      BY <1>7 DEF DiscardBegins, DiscardWhole
    <3>3. Size(Frame) \in Nat
      BY <1>0, <3>1, FrameFacts
    <3> QED
      BY <1>0, <3>1, <3>2, <3>3
  <2>2. PICK i \in DOMAIN stream : /\ i = Current /\ From[i] = Front
                                   /\ From[i + 1] = Front + Size(Frame) /\ Size(Frame) \in Nat
    BY <1>0, <2>1, FrameFacts
  <2>3. /\ From[i] <= Front /\ Front <= Front' /\ Front' \in Nat /\ Front' <= From[i + 1]
        /\ From[i] < Front'
    BY <1>0, <2>1, <2>2
  <2>4. i \notin Done
    <3>1. ~(i < i)
      BY <1>0
    <3> QED
      BY <1>0, <2>1, <2>2, <3>1, DoneBefore DEF Done
  <2>5. CASE ~straddled
    BY <1>5, <2>1, <2>2, <2>3, <2>4, <2>5
  <2>6. CASE straddled
    <3>1. ASSUME NEW k \in discarded' PROVE From[k] < Front'
      <4>1. CASE k = i
        BY <2>3, <4>1
      <4>2. CASE k \in discarded
        <5>1. From[k] < Front /\ From[k] \in Nat
          BY <1>0, <4>2 DEF ExactInv
        <5> QED
          BY <1>0, <2>3, <5>1
      <4> QED
        BY <2>1, <2>2, <4>1, <4>2
    <3> QED
      BY <1>0, <2>1, <2>6, <3>1 DEF ExactInv
  <2> QED
    BY <2>5, <2>6
<1>8. ASSUME Collect \/ Control PROVE \A k \in discarded' : From'[k] < Front'
  <2>1. /\ InStep /\ discarded' = discarded /\ Front' = Front + Size(Frame) /\ Size(Frame) \in Nat
    BY <1>0, <1>8, ConsumeMoves, FrameFacts
  <2> SUFFICES ASSUME NEW k \in discarded PROVE From[k] < Front'
    BY <1>0, <2>1
  <2>2. From[k] < Front /\ From[k] \in Nat
    BY <1>0 DEF ExactInv
  <2> QED
    BY <1>0, <2>1, <2>2
<1>9. CASE Collect
  <2>1. UNCHANGED <<straddled, starved>>
    BY <1>9 DEF Collect, memoryVars
  <2>2. ASSUME ~straddled, ~starved PROVE Exact'
    <3>1. Exact
      BY <2>2 DEF ExactInv
    <3> QED
      BY <1>9, <3>1, CollectExact
  <2> QED
    BY <1>8, <1>9, <2>1, <2>2 DEF ExactInv
<1>10. CASE Control
  <2>1. /\ UNCHANGED <<straddled, starved, received, length, delivered, pc, discarded>> /\ InStep
        /\ pc = "dispatch" /\ Front' = Front + Size(Frame) /\ ~IsData(Frame)
    <3>1. UNCHANGED <<straddled, starved, received, length, delivered, pc, discarded>>
          /\ pc = "dispatch" /\ ~IsData(Frame)
      BY <1>10 DEF Control, Whole, dataVars, memoryVars, IsData
    <3> QED
      BY <1>0, <1>10, <3>1, ConsumeMoves
  <2>2. PICK c \in DOMAIN stream :
           /\ c = Current /\ From[c] = Front /\ stream[c] = Frame
           /\ From[c + 1] = Front + Size(Frame) /\ Size(Frame) \in Nat
    BY <1>0, <2>1, FrameFacts
  <2>3. /\ From[c] <= Front' /\ Front' <= From[c + 1] /\ Front' \in Nat
    BY <1>0, <2>1, <2>2
  <2>4. PICK p \in Nat : p = Front'
    BY <2>3
  <2>5. \A k \in DOMAIN stream : k # c => (From[k + 1] <= p <=> k < c)
    BY <1>0, <2>3, <2>4, GoneBefore
  <2>6. \A k \in DOMAIN stream : From[k + 1] <= Front <=> k < c
    BY <1>0, <2>1, <2>2, DoneBefore
  <2>7. ~Kept(c) /\ \A k : Kept(k)' <=> Kept(k)
    BY <1>0, <2>1, <2>2 DEF Kept
  <2>8. Done' = Done
    <3>1. \A k : k \in Done' <=> k \in DOMAIN stream /\ Kept(k) /\ From[k + 1] <= p
      BY <1>0, <2>4, <2>7 DEF Done
    <3>2. \A k : k \in Done <=> k \in DOMAIN stream /\ Kept(k) /\ From[k + 1] <= Front
      BY DEF Done
    <3> QED
      BY <2>5, <2>6, <2>7, <3>1, <3>2
  <2>9. ASSUME ~straddled, ~starved PROVE Exact'
    <3>1. Exact
      BY <2>9 DEF ExactInv
    <3> QED
      BY <1>0, <2>1, <2>7, <2>8, <3>1, SameDone
  <2> QED
    BY <1>8, <1>10, <2>1, <2>9 DEF ExactInv
<1> QED
  BY <1>2, <1>3, <1>4, <1>6, <1>7, <1>9, <1>10 DEF Next, Dispatch

LEMMA InitExact == Init => ExactInv
<1> SUFFICES ASSUME Init PROVE ExactInv
  OBVIOUS
<1>1. Counts /\ Front = 0 /\ pc = "poll" /\ received = <<>> /\ length = 0 /\ delivered = <<>>
      /\ discarded = {}
  BY InitInv DEF Init, Inv, TypeOK, Front
<1>2. Done = {}
  <2>1. ASSUME NEW k \in DOMAIN stream PROVE ~(From[k + 1] <= Front)
    <3>1. /\ k \in 1..Len(stream) /\ Len(stream) \in Nat /\ stream \in Streams
          /\ From[k + 1] = From[k] + Size(stream[k])
      BY <1>1, StreamFacts
    <3>2. k \in 1..(Len(stream) + 1)
      BY <3>1
    <3>3. From[k] \in Nat /\ Size(stream[k]) \in Nat /\ Size(stream[k]) >= 2
      BY <1>1, <3>1, <3>2, StreamFacts, SizeFacts
    <3> QED
      BY <1>1, <3>1, <3>3
  <2> QED
    BY <2>1 DEF Done
<1>3. Held = {} /\ Ended = {}
  BY <1>2 DEF Held, Ended
<1>4. DOMAIN delivered = {}
  BY <1>1
<1>5. Lists([m \in DOMAIN delivered |-> EndOf(delivered[m])], {})
  BY <1>4 DEF Lists
<1>6. Lists(received, Held) /\ length = SumLen(received)
  BY <1>1, <1>3, ListsNone, SumLenEmpty
<1> QED
  BY <1>1, <1>3, <1>4, <1>5, <1>6 DEF ExactInv, Exact

(* ... so it always is.                                                     *)
LEMMA ExactAlways == Spec => [](Inv /\ ExactInv)
<1>1. Inv /\ ExactInv /\ Next => ExactInv'
  BY ExactStep
<1>2. Inv /\ ExactInv /\ UNCHANGED vars => ExactInv'
  <2> SUFFICES ASSUME Inv, ExactInv, UNCHANGED vars PROVE ExactInv'
    OBVIOUS
  <2>0. /\ stream' = stream /\ UNCHANGED <<rpos, rxLen, discarded, received, length, delivered, pc,
                                           straddled, starved>>
    BY DEF vars, dataVars, memoryVars
  <2>1. From' = From /\ Front' = Front
    BY <2>0 DEF From, Front
  <2>2. Done' = Done /\ \A k : Kept(k)' <=> Kept(k)
    BY <2>0, <2>1 DEF Done, Kept
  <2>3. Counts
    BY DEF Inv, TypeOK
  <2>4. Exact => Exact'
    BY <2>0, <2>2, <2>3, SameDone
  <2> QED
    BY <2>0, <2>1, <2>4 DEF ExactInv
<1> QED
  BY <1>1, <1>2, InitExact, Inductive, PTL DEF Spec

(* With no fragment thrown away, what was kept of a message is all of it: a *)
(* long message that was thrown away is one frame, and the one before it    *)
(* had ended.                                                               *)
LEMMA PartsComplete ==
  ASSUME Inv, ~Torn, NEW e \in DOMAIN stream, Kept(e)
  PROVE  PartsKept(e) = Parts(e)
<1>0. /\ InOrder(stream) /\ DOMAIN stream = 1..Len(stream) /\ Len(stream) \in Nat
      /\ discarded \subseteq DOMAIN stream
  BY StreamsAssumption, StreamFacts DEF Inv, TypeOK, Counts, DataTypes
<1>1. \A i \in discarded : stream[i].fin /\ stream[i].op # "CONTINUATION"
  BY DEF Torn
<1>2. ASSUME NEW k \in PartsKept(e) PROVE k \in Parts(e)
  <2>1. /\ k \in 1..e /\ Kept(k) /\ \A j \in k..(e - 1) : Kept(j) => ~stream[j].fin
    BY DEF PartsKept
  <2> DEFINE T == {j \in k..(e - 1) : Ends(j)}
  <2>2. ASSUME T # {} PROVE FALSE
    <3>1. T \subseteq Nat
      BY <1>0, <2>1
    <3>2. PICK j \in T : \A i \in T : j <= i
      <4> HIDE DEF T
      <4> QED
        BY <2>2, <3>1, LeastOf
    <3>3. j \in k..(e - 1) /\ IsData(stream[j]) /\ stream[j].fin
      BY DEF Ends
    <3>4. j \in discarded
      BY <2>1, <3>3 DEF Kept
    <3>5. stream[j].op \in {"TEXT", "BINARY"}
      BY <1>1, <3>3, <3>4 DEF IsData
    <3>6. k # j
      BY <2>1, <3>4 DEF Kept
    <3>7. k \in 1..(j - 1) /\ j \in DOMAIN stream
      BY <1>0, <2>1, <3>3, <3>6
    <3>8. PICK i \in k..(j - 1) : IsData(stream[i]) /\ stream[i].fin
      BY <1>0, <2>1, <3>5, <3>7 DEF InOrder, Kept
    <3>9. i \in k..(e - 1) /\ ~(j <= i)
      BY <1>0, <2>1, <3>3, <3>8
    <3>10. i \in T
      BY <3>8, <3>9 DEF Ends
    <3> HIDE DEF T
    <3> QED
      BY <3>2, <3>9, <3>10
  <2> QED
    BY <2>1, <2>2 DEF Parts, Kept
<1>3. ASSUME NEW k \in Parts(e) PROVE k \in PartsKept(e)
  <2>1. k \in 1..e /\ IsData(stream[k]) /\ \A j \in k..(e - 1) : ~Ends(j)
    BY DEF Parts
  <2>2. k \notin discarded
    <3> SUFFICES ASSUME k \in discarded PROVE FALSE
      OBVIOUS
    <3>1. Ends(k)
      BY <1>1, <2>1 DEF Ends
    <3>2. k # e
      BY DEF Kept
    <3>3. k \in k..(e - 1)
      BY <1>0, <2>1, <3>2
    <3> QED
      BY <2>1, <3>1, <3>3
  <2>3. \A j \in k..(e - 1) : Kept(j) => ~stream[j].fin
    BY <2>1 DEF Ends, Kept
  <2> QED
    BY <2>1, <2>2, <2>3 DEF PartsKept, Kept
<1> QED
  BY <1>2, <1>3

(* However the server's stream is cut into records and reads, the handler   *)
(* of the web socket is given every message that has gone through rxbuf,    *)
(* once, in the order of the stream, with all its fragments and their       *)
(* length; unless bytes were lost at the end of a discard, a fragment was   *)
(* too long, or memory ran out between fragments.                           *)
THEOREM MessagesWhole == Spec => []DeliveredExactly
<1>1. Inv /\ ExactInv => DeliveredExactly
  <2> SUFFICES ASSUME Inv, ExactInv, ~straddled, ~starved, ~Torn
               PROVE  /\ Lists([m \in DOMAIN delivered |-> EndOf(delivered[m])],
                               {k \in DOMAIN stream : Ends(k) /\ From[k + 1] <= Front
                                                      /\ k \notin discarded})
                      /\ \A m \in DOMAIN delivered :
                           /\ delivered[m].op = stream[EndOf(delivered[m])].op
                           /\ Lists(delivered[m].parts, Parts(EndOf(delivered[m])))
                           /\ delivered[m].len = SumLen(delivered[m].parts)
    BY DEF DeliveredExactly
  <2>1. Exact
    BY DEF ExactInv
  <2>2. {k \in DOMAIN stream : Ends(k) /\ From[k + 1] <= Front /\ k \notin discarded} = Ended
    BY DEF Ended, Done, Kept, Ends
  <2>3. ASSUME NEW m \in DOMAIN delivered
        PROVE  /\ delivered[m].op = stream[EndOf(delivered[m])].op
               /\ Lists(delivered[m].parts, Parts(EndOf(delivered[m])))
               /\ delivered[m].len = SumLen(delivered[m].parts)
    <3>1. Message(delivered[m])
      BY <2>1, <2>3 DEF Exact
    <3>2. EndOf(delivered[m]) \in DOMAIN stream /\ Kept(EndOf(delivered[m]))
      BY <2>1, <2>3, EndsAreDone DEF Done
    <3>3. PartsKept(EndOf(delivered[m])) = Parts(EndOf(delivered[m]))
      BY <3>2, PartsComplete
    <3> QED
      BY <3>1, <3>3 DEF Message
  <2> QED
    BY <2>1, <2>2, <2>3 DEF Exact
<1> QED
  BY <1>1, ExactAlways, PTL

-----------------------------------------------------------------------------
(* The sessions, for any size of the send queues, any number of messages in *)
(* a poll and any number of sessions.                                       *)

(* What is known of the context at each place of the main task: its         *)
(* buffers are there exactly while it is not CLOSED.                        *)
SessionPhase ==
    /\ main \in {"wait", "create", "fault", "stopped"} => readyState = "CLOSED"
    /\ main = "connect" => readyState = "CONNECTING"
    /\ main \in {"poll", "dispatch", "drain", "check", "close"} => readyState # "CONNECTING"
    /\ main \in {"poll", "drain"} => readyState # "CLOSED"
    /\ main # "close" => (buffers = "held" <=> readyState # "CLOSED")

(* The types of everything but the received messages, on which nothing      *)
(* below depends.                                                           *)
SessionTypes ==
    /\ wssReady \in 0..1
    /\ main \in {"wait", "create", "connect", "poll", "dispatch", "drain", "check", "close",
                 "fault", "stopped"}
    /\ readyState \in {"CLOSED", "CONNECTING", "OPEN", "CLOSING"}
    /\ buffers \in {"none", "held", "freed"}
    /\ readyBufs \in Nat /\ recycleBufs \in Nat
    /\ contexts \in Nat /\ sockets \in Nat /\ bufferSets \in Nat
    /\ requests \in Nat /\ refused \in Nat /\ aborted \in Nat

SessionInv == SessionTypes /\ SessionPhase /\ LeftBehind /\ BuffersFit

-----------------------------------------------------------------------------
(* Every action preserves SessionInv, under which a session's accounts are  *)
(* kept: the actions that open or close a connection change sockets and     *)
(* bufferSets by what LeftBehind expects of the place they lead to.         *)
LEMMA SessionStep ==
  ASSUME SessionInv, [SessionNext]_sessionVars
  PROVE  SessionInv'
<1> USE WsAssumption DEF SessionInv, SessionTypes, SessionPhase, LeftBehind, BuffersFit, InSession
<1>1. CASE DataInit
  BY <1>1 DEF DataInit, session, heap
<1>2. CASE TakeReady
  BY <1>2 DEF TakeReady, session, heap, history
<1>3. CASE Create
  BY <1>3 DEF Create, history
<1>4. CASE CreateFails \/ CreateFaults
  BY <1>4 DEF CreateFails, CreateFaults, session, heap, history
<1>5. CASE Connect
  BY <1>5 DEF Connect, history
<1>6. CASE ConnectFails
  BY <1>6 DEF ConnectFails, ClientClose
<1>7. CASE Poll
  <2>1. CASE PollClosing \/ PollSelectFails \/ PollReadFails
    BY <2>1 DEF PollClosing, PollSelectFails, PollReadFails, ClientClose, history
  <2>2. CASE PollTimeout
    BY <2>2 DEF PollTimeout, session, heap, history
  <2>3. CASE \E ms \in Arrivals : PollRead(ms)
    BY <2>3 DEF PollRead, heap, history
  <2>4. QED
    BY <1>7, <2>1, <2>2, <2>3 DEF Poll
<1>8. CASE DispatchMessage
  <2>1. CASE DispatchData \/ DispatchPing
    BY <2>1 DEF DispatchData, DispatchPing, heap, history
  <2>2. CASE DispatchPingFails
    <3>1. main' = main /\ main = "dispatch" /\ readyState = "OPEN" /\ ClientClose
          /\ UNCHANGED <<wssReady, contexts, history>>
      BY <2>2 DEF DispatchPingFails
    <3>2. QED
      BY <3>1 DEF ClientClose, history
  <2>3. CASE DispatchBad
    <3>1. main' = "check" /\ main = "dispatch" /\ buffers = "held" /\ ClientClose
          /\ UNCHANGED <<wssReady, contexts, history>>
      BY <2>3 DEF DispatchBad
    <3>2. QED
      BY <3>1 DEF ClientClose, history
  <2>4. CASE DispatchClose
    BY <2>4 DEF DispatchClose, WsClose, heap, history
  <2>5. CASE DispatchFreed
    BY <2>5 DEF DispatchFreed, session, heap, history
  <2>6. CASE DispatchEnds
    BY <2>6 DEF DispatchEnds, session, heap, history
  <2>7. QED
    BY <1>8, <2>1, <2>2, <2>3, <2>4, <2>5, <2>6 DEF DispatchMessage
<1>9. CASE Send
  <2>1. CASE Drain
    BY <2>1 DEF Drain, heap, history
  <2>2. CASE DrainFails
    BY <2>2 DEF DrainFails, ClientClose, history
  <2>3. CASE DrainEnds \/ CheckClosed \/ NothingToSend
    BY <2>3 DEF DrainEnds, CheckClosed, NothingToSend, session, heap, history
  <2>4. CASE SendData
    BY <2>4 DEF SendData, heap, history
  <2>5. CASE SendRefused
    BY <2>5 DEF SendRefused, session, heap
  <2>6. CASE SendOutOfMemory
    BY <2>6 DEF SendOutOfMemory, ClientClose, history
  <2>7. QED
    BY <1>9, <2>1, <2>2, <2>3, <2>4, <2>5, <2>6 DEF Send
<1>10. CASE EndSession
  BY <1>10 DEF EndSession, history
<1>11. CASE UNCHANGED sessionVars
  BY <1>11 DEF sessionVars, session, heap, history
<1>12. QED
  BY <1>1, <1>2, <1>3, <1>4, <1>5, <1>6, <1>7, <1>8, <1>9, <1>10, <1>11 DEF SessionNext,
     MainTask

(* SessionInv holds in every state.                                         *)
LEMMA SessionInductive == SessionSpec => []SessionInv
<1>1. SessionInit => SessionInv
  BY WsAssumption DEF SessionInit, SessionInv, SessionTypes, SessionPhase,
     LeftBehind, BuffersFit, InSession
<1>2. SessionInv /\ [SessionNext]_sessionVars => SessionInv'
  BY SessionStep
<1>3. QED
  BY <1>1, <1>2, PTL DEF SessionSpec

(* The leaks of qwen_sdk_init_routine and mmi_wss_connect, to the last one: *)
(* a context per failed connection; a socket, the buffers, queues, mutexes  *)
(* and TLS context per session given up while its connection was open.      *)
THEOREM NothingElseLeft == SessionSpec => []LeftBehind
<1>1. SessionInv => LeftBehind
  BY DEF SessionInv
<1>2. QED
  BY <1>1, SessionInductive, PTL

(* ws_poll never works on a connection whose buffers are gone. *)
THEOREM LivePolls == SessionSpec => []PolledIsLive
<1>1. SessionInv => PolledIsLive
  BY DEF SessionInv, SessionTypes, SessionPhase, PolledIsLive
<1>2. QED
  BY <1>1, SessionInductive, PTL

(* The send queues never overflow: no blocking send in ws_poll and          *)
(* ws_sendData waits for the task that executes it.                         *)
THEOREM QueuesFit == SessionSpec => []BuffersFit
<1>1. SessionInv => BuffersFit
  BY DEF SessionInv
<1>2. QED
  BY <1>1, SessionInductive, PTL
=============================================================================
