-------------------------- MODULE Vb6824FsmProofs ---------------------------
(***************************************************************************)
(* Proofs about the two frame parsers of the UART interrupt, for frames    *)
(* and packets of any length, any damage on the line and a switch of the   *)
(* mode between any two bytes: what a parser knows of the bytes it took,   *)
(* that it stores within the union, that a whole frame is delivered as it  *)
(* was sent, and that what is delivered was sent.                          *)
(***************************************************************************)
EXTENDS Vb6824Fsm, WellFoundedInduction, TLAPS

(* Numbers of 8 and of 16 bits.                                             *)
LEMMA WordFacts == \A x \in Nat : x \in Word <=> x < 256 * 256
  BY DEF Word, Byte

LEMMA WordsAreNat == Word \subseteq Nat /\ Byte \subseteq Word /\ 0 \in Byte /\ 0 \in Word
<1>1. Word \subseteq Nat
  BY DEF Word
<1>2. \A x \in Byte : x \in Nat /\ x < 256 * 256
  BY DEF Byte
<1> QED
  BY <1>1, <1>2, WordFacts DEF Byte

(* The bytes of a number of 16 bits, and the number of two bytes.           *)
LEMMA Halves ==
  \A x \in Word : /\ HighByte(x) \in Byte /\ LowByte(x) \in Byte
                  /\ x = 256 * HighByte(x) + LowByte(x)
  BY DEF HighByte, LowByte, Byte, Word

LEMMA Joined ==
  ASSUME NEW a \in Byte, NEW b \in Byte
  PROVE  /\ a + 256 * b \in Word /\ 256 * b \in Word /\ a \in Word
         /\ HighByte(a + 256 * b) = b /\ LowByte(a + 256 * b) = a
         /\ HighByte(256 * b) = b /\ LowByte(256 * b) = 0
         /\ HighByte(a) = 0 /\ LowByte(a) = a
<1>1. a + 256 * b \in Word /\ 256 * b \in Word /\ a \in Word
  BY WordFacts DEF Byte
<1>2. (a + 256 * b) \div 256 = b
  BY DEF Byte
<1>3. (a + 256 * b) % 256 = a
  BY DEF Byte
<1>4. (256 * b) \div 256 = b /\ (256 * b) % 256 = 0
  BY DEF Byte
<1>5. a \div 256 = 0 /\ a % 256 = a
  BY DEF Byte
<1> QED
  BY <1>1, <1>2, <1>3, <1>4, <1>5 DEF HighByte, LowByte

-----------------------------------------------------------------------------
(* ^ and | of 16-bit numbers are such numbers.                              *)
LEMMA BitType == \A x \in Nat, k \in Nat \ {0} : Bit(x, k) \in {0, 1}
  BY DEF Bit

LEMMA ByteXorType == \A x, y \in Nat : ByteXor(x, y) \in Byte
<1> SUFFICES ASSUME NEW x \in Nat, NEW y \in Nat PROVE ByteXor(x, y) \in Byte
  OBVIOUS
<1>1. \A k \in Nat \ {0} : (Bit(x, k) + Bit(y, k)) % 2 \in {0, 1}
  BY BitType
<1>2. PICK a \in {0, 1} : a = (Bit(x, 1) + Bit(y, 1)) % 2
  BY <1>1
<1>3. PICK b \in {0, 1} : b = (Bit(x, 2) + Bit(y, 2)) % 2
  BY <1>1
<1>4. PICK c \in {0, 1} : c = (Bit(x, 4) + Bit(y, 4)) % 2
  BY <1>1
<1>5. PICK d \in {0, 1} : d = (Bit(x, 8) + Bit(y, 8)) % 2
  BY <1>1
<1>6. PICK e \in {0, 1} : e = (Bit(x, 16) + Bit(y, 16)) % 2
  BY <1>1
<1>7. PICK f \in {0, 1} : f = (Bit(x, 32) + Bit(y, 32)) % 2
  BY <1>1
<1>8. PICK g \in {0, 1} : g = (Bit(x, 64) + Bit(y, 64)) % 2
  BY <1>1
<1>9. PICK h \in {0, 1} : h = (Bit(x, 128) + Bit(y, 128)) % 2
  BY <1>1
<1>10. ByteXor(x, y) = 1 * a + 2 * b + 4 * c + 8 * d + 16 * e + 32 * f + 64 * g + 128 * h
  BY <1>2, <1>3, <1>4, <1>5, <1>6, <1>7, <1>8, <1>9 DEF ByteXor
<1> QED
  BY <1>10 DEF Byte

LEMMA ByteOrType == \A x, y \in Nat : ByteOr(x, y) \in Byte
  BY DEF ByteOr, Byte

LEMMA ByteOrZero == \A x \in Byte : ByteOr(x, 0) = x /\ ByteOr(0, x) = x
  BY DEF ByteOr, Byte, Bit

LEMMA WordOf == \A h, l \in Byte : 256 * h + l \in Word
  BY DEF Byte, Word

LEMMA XorType == ASSUME NEW x \in Word, NEW y \in Word PROVE Xor(x, y) \in Word
<1>1. /\ HighByte(x) \in Nat /\ LowByte(x) \in Nat
      /\ HighByte(y) \in Nat /\ LowByte(y) \in Nat
  BY Halves, WordsAreNat
<1> QED
  BY <1>1, ByteXorType, WordOf DEF Xor

LEMMA OrType == ASSUME NEW x \in Word, NEW y \in Word PROVE Or(x, y) \in Word
<1>1. /\ HighByte(x) \in Nat /\ LowByte(x) \in Nat
      /\ HighByte(y) \in Nat /\ LowByte(y) \in Nat
  BY Halves, WordsAreNat
<1> QED
  BY <1>1, ByteOrType, WordOf DEF Or

(* | puts a high byte above a low one.                                      *)
LEMMA OrJoins == ASSUME NEW a \in Byte, NEW b \in Byte PROVE Or(a, 256 * b) = a + 256 * b
<1>1. /\ HighByte(256 * b) = b /\ LowByte(256 * b) = 0
      /\ HighByte(a) = 0 /\ LowByte(a) = a
  BY Joined
<1>2. Or(a, 256 * b) = 256 * ByteOr(0, b) + ByteOr(a, 0)
  BY <1>1 DEF Or
<1>3. ByteOr(0, b) = b /\ ByteOr(a, 0) = a
  BY ByteOrZero
<1> QED
  BY <1>2, <1>3 DEF Byte

(* A CRC stays one.                                                         *)
LEMMA CrcBitType == ASSUME NEW c \in Word PROVE CrcBit(c) \in Word
<1>1. (2 * c) % (256 * 256) \in Word
  BY DEF Byte, Word
<1>2. 256 * 16 + 33 \in Word
  BY DEF Byte, Word
<1> QED
  BY <1>1, <1>2, XorType DEF CrcBit

LEMMA CrcByteType == ASSUME NEW c \in Word, NEW b \in Byte PROVE CrcByte(c, b) \in Word
<1>1. Xor(c, 256 * b) \in Word
  BY XorType, Joined
<1>2. \A d \in Word : CrcBits(d) \in Word
  BY CrcBitType DEF CrcBits
<1> QED
  BY <1>1, <1>2 DEF CrcByte

-----------------------------------------------------------------------------
(* Induction, for a set instead of a predicate.                             *)
LEMMA SetInduction ==
  ASSUME NEW S, 0 \in S, \A n \in Nat : n \in S => n + 1 \in S
  PROVE  \A n \in Nat : n \in S
<1> SUFFICES ASSUME Nat \ S # {} PROVE FALSE
  OBVIOUS
<1>1. PICK x \in Nat \ S : \A y \in Nat \ S : ~(<<y, x>> \in OpToRel(<,Nat))
  BY NatLessThanWellFounded, WFMin
<1>2. \A y \in Nat \ S : ~(y < x)
  BY <1>1 DEF OpToRel
<1>3. x - 1 \in Nat /\ x - 1 \in S
  BY <1>2
<1> QED
  BY <1>2, <1>3

(* The recursive definition of Sum8 defines a function,                     *)
LEMMA Sum8Def ==
  ASSUME NEW s \in Seq(Byte)
  PROVE  \E f : /\ f[0] = 0 /\ Sum8(s) = f[Len(s)]
                /\ \A n \in 1..Len(s) : f[n] = (f[n - 1] + s[n]) % 256
<1> DEFINE Is(f, m) == f = [n \in 0..m |-> IF n = 0 THEN 0 ELSE (f[n - 1] + s[n]) % 256]
           T == {m \in Nat : \E f : Is(f, m)}
<1>0. Len(s) \in Nat
  OBVIOUS
<1>1. 0 \in T
  <2>1. Is([n \in 0..0 |-> 0], 0)
    OBVIOUS
  <2> HIDE DEF Is
  <2> QED
    BY <2>1
<1>2. ASSUME NEW m \in Nat, m \in T PROVE m + 1 \in T
  <2>1. PICK f : Is(f, m)
    BY <1>2
  <2> DEFINE g == [n \in 0..(m + 1) |-> IF n = m + 1 THEN (f[n - 1] + s[n]) % 256 ELSE f[n]]
  <2>2. Is(g, m + 1)
    <3>1. \A n \in 0..m : g[n] = IF n = 0 THEN 0 ELSE (f[n - 1] + s[n]) % 256
      BY <2>1
    <3>2. \A n \in 0..m : g[n] = f[n]
      OBVIOUS
    <3>3. g[m + 1] = (f[(m + 1) - 1] + s[m + 1]) % 256
      OBVIOUS
    <3>4. DOMAIN g = 0..(m + 1) /\ g = [n \in 0..(m + 1) |-> g[n]]
      OBVIOUS
    <3> HIDE DEF g
    <3>5. \A n \in 0..(m + 1) : g[n] = IF n = 0 THEN 0 ELSE (g[n - 1] + s[n]) % 256
      <4> SUFFICES ASSUME NEW n \in 0..(m + 1), n # 0 PROVE g[n] = (g[n - 1] + s[n]) % 256
        BY <3>1
      <4>1. n - 1 \in 0..m /\ (n = m + 1 => n - 1 = m) /\ (n # m + 1 => n \in 0..m)
        OBVIOUS
      <4> QED
        BY <3>1, <3>2, <3>3, <4>1
    <3> QED
      BY <3>4, <3>5
  <2> HIDE DEF g, Is
  <2> QED
    BY <2>2
<1>3. \A n \in Nat : n \in T
  <2> HIDE DEF T
  <2> QED
    BY <1>1, <1>2, SetInduction
<1>4. \E f : Is(f, Len(s))
  BY <1>0, <1>3
<1> DEFINE h == CHOOSE f : Is(f, Len(s))
<1>5. Sum8(s) = h[Len(s)]
  BY DEF Sum8
<1>6. Is(h, Len(s))
  <2> HIDE DEF Is
  <2> QED
    BY <1>4
<1> HIDE DEF h
<1>7. h[0] = 0 /\ \A n \in 1..Len(s) : h[n] = (h[n - 1] + s[n]) % 256
  BY <1>0, <1>6
<1> QED
  BY <1>5, <1>7

(* ... one byte more is added to the sum,                                   *)
LEMMA Sum8Append ==
  ASSUME NEW s \in Seq(Byte), NEW b \in Byte
  PROVE  Sum8(Append(s, b)) = (Sum8(s) + b) % 256
<1> DEFINE L == Len(s)
           t == Append(s, b)
<1>0. /\ L \in Nat /\ t \in Seq(Byte) /\ Len(t) = L + 1 /\ t[L + 1] = b
      /\ \A n \in 1..L : t[n] = s[n]
  OBVIOUS
<1> HIDE DEF t
<1>1. PICK f : /\ f[0] = 0 /\ Sum8(s) = f[Len(s)]
               /\ \A n \in 1..Len(s) : f[n] = (f[n - 1] + s[n]) % 256
  BY Sum8Def
<1>2. PICK g : /\ g[0] = 0 /\ Sum8(t) = g[Len(t)]
               /\ \A n \in 1..Len(t) : g[n] = (g[n - 1] + t[n]) % 256
  BY <1>0, Sum8Def
<1> DEFINE T == {n \in Nat : n <= L => f[n] = g[n]}
<1>3. 0 \in T
  BY <1>1, <1>2
<1>4. ASSUME NEW n \in Nat, n \in T PROVE n + 1 \in T
  <2> SUFFICES ASSUME n + 1 <= L PROVE f[n + 1] = g[n + 1]
    OBVIOUS
  <2>1. n + 1 \in 1..L /\ n + 1 \in 1..Len(t) /\ (n + 1) - 1 = n /\ f[n] = g[n]
    BY <1>0, <1>4
  <2> QED
    BY <1>0, <1>1, <1>2, <2>1
<1>5. \A n \in Nat : n \in T
  <2> HIDE DEF T
  <2> QED
    BY <1>3, <1>4, SetInduction
<1>6. f[L] = g[L]
  BY <1>0, <1>5
<1>7. L + 1 \in 1..Len(t) /\ (L + 1) - 1 = L
  BY <1>0
<1> QED
  BY <1>0, <1>1, <1>2, <1>6, <1>7 DEF t

(* ... and the sum of no bytes is 0.                                        *)
LEMMA Sum8Empty == Sum8(<<>>) = 0
<1>1. <<>> \in Seq(Byte) /\ Len(<<>>) = 0
  OBVIOUS
<1> QED
  BY <1>1, Sum8Def

(* The same for the CRC.                                                    *)
LEMMA Crc16Def ==
  ASSUME NEW s \in Seq(Byte)
  PROVE  \E f : /\ f[0] = 0 /\ crc16_ccitt(s) = f[Len(s)]
                /\ \A n \in 1..Len(s) : f[n] = CrcByte(f[n - 1], s[n])
<1> DEFINE Is(f, m) == f = [n \in 0..m |-> IF n = 0 THEN 0 ELSE CrcByte(f[n - 1], s[n])]
           T == {m \in Nat : \E f : Is(f, m)}
<1>0. Len(s) \in Nat
  OBVIOUS
<1>1. 0 \in T
  <2>1. Is([n \in 0..0 |-> 0], 0)
    OBVIOUS
  <2> HIDE DEF Is
  <2> QED
    BY <2>1
<1>2. ASSUME NEW m \in Nat, m \in T PROVE m + 1 \in T
  <2>1. PICK f : Is(f, m)
    BY <1>2
  <2> DEFINE g == [n \in 0..(m + 1) |-> IF n = m + 1 THEN CrcByte(f[n - 1], s[n]) ELSE f[n]]
  <2>2. Is(g, m + 1)
    <3>1. \A n \in 0..m : g[n] = IF n = 0 THEN 0 ELSE CrcByte(f[n - 1], s[n])
      BY <2>1
    <3>2. \A n \in 0..m : g[n] = f[n]
      OBVIOUS
    <3>3. g[m + 1] = CrcByte(f[(m + 1) - 1], s[m + 1])
      OBVIOUS
    <3>4. DOMAIN g = 0..(m + 1) /\ g = [n \in 0..(m + 1) |-> g[n]]
      OBVIOUS
    <3> HIDE DEF g
    <3>5. \A n \in 0..(m + 1) : g[n] = IF n = 0 THEN 0 ELSE CrcByte(g[n - 1], s[n])
      <4> SUFFICES ASSUME NEW n \in 0..(m + 1), n # 0 PROVE g[n] = CrcByte(g[n - 1], s[n])
        BY <3>1
      <4>1. n - 1 \in 0..m /\ (n = m + 1 => n - 1 = m) /\ (n # m + 1 => n \in 0..m)
        OBVIOUS
      <4> QED
        BY <3>1, <3>2, <3>3, <4>1
    <3> QED
      BY <3>4, <3>5
  <2> HIDE DEF g, Is
  <2> QED
    BY <2>2
<1>3. \A n \in Nat : n \in T
  <2> HIDE DEF T
  <2> QED
    BY <1>1, <1>2, SetInduction
<1>4. \E f : Is(f, Len(s))
  BY <1>0, <1>3
<1> DEFINE h == CHOOSE f : Is(f, Len(s))
<1>5. crc16_ccitt(s) = h[Len(s)]
  BY DEF crc16_ccitt
<1>6. Is(h, Len(s))
  <2> HIDE DEF Is
  <2> QED
    BY <1>4
<1> HIDE DEF h
<1>7. h[0] = 0 /\ \A n \in 1..Len(s) : h[n] = CrcByte(h[n - 1], s[n])
  BY <1>0, <1>6
<1> QED
  BY <1>5, <1>7

(* One byte more,                                                           *)
LEMMA Crc16Append ==
  ASSUME NEW s \in Seq(Byte), NEW b \in Byte
  PROVE  crc16_ccitt(Append(s, b)) = CrcByte(crc16_ccitt(s), b)
<1> DEFINE L == Len(s)
           t == Append(s, b)
<1>0. /\ L \in Nat /\ t \in Seq(Byte) /\ Len(t) = L + 1 /\ t[L + 1] = b
      /\ \A n \in 1..L : t[n] = s[n]
  OBVIOUS
<1> HIDE DEF t
<1>1. PICK f : /\ f[0] = 0 /\ crc16_ccitt(s) = f[Len(s)]
               /\ \A n \in 1..Len(s) : f[n] = CrcByte(f[n - 1], s[n])
  BY Crc16Def
<1>2. PICK g : /\ g[0] = 0 /\ crc16_ccitt(t) = g[Len(t)]
               /\ \A n \in 1..Len(t) : g[n] = CrcByte(g[n - 1], t[n])
  BY <1>0, Crc16Def
<1> DEFINE T == {n \in Nat : n <= L => f[n] = g[n]}
<1>3. 0 \in T
  BY <1>1, <1>2
<1>4. ASSUME NEW n \in Nat, n \in T PROVE n + 1 \in T
  <2> SUFFICES ASSUME n + 1 <= L PROVE f[n + 1] = g[n + 1]
    OBVIOUS
  <2>1. n + 1 \in 1..L /\ n + 1 \in 1..Len(t) /\ (n + 1) - 1 = n /\ f[n] = g[n]
    BY <1>0, <1>4
  <2> QED
    BY <1>0, <1>1, <1>2, <2>1
<1>5. \A n \in Nat : n \in T
  <2> HIDE DEF T
  <2> QED
    BY <1>3, <1>4, SetInduction
<1>6. f[L] = g[L]
  BY <1>0, <1>5
<1>7. L + 1 \in 1..Len(t) /\ (L + 1) - 1 = L
  BY <1>0
<1> QED
  BY <1>0, <1>1, <1>2, <1>6, <1>7 DEF t

(* ... and none.                                                            *)
LEMMA Crc16Empty == crc16_ccitt(<<>>) = 0
<1>1. <<>> \in Seq(Byte) /\ Len(<<>>) = 0
  OBVIOUS
<1> QED
  BY <1>1, Crc16Def

-----------------------------------------------------------------------------
(* The constants.                                                           *)
LEMMA Sizes ==
  /\ MaxVoiceData \in Nat /\ MaxVoiceData \in Word /\ MaxJlData \in Nat
  /\ MaxJlData <= MaxVoiceData /\ BufferLen = MaxVoiceData + 2 /\ BufferLen \in Nat
  BY FsmAssumption, WordsAreNat DEF BufferLen

(* A parser past the length of a frame has one that fits.                   *)
Fits(p) == p.status >= 4 => p.dataLen <= MaxVoiceData

(* What the fields of a parser are.                                         *)
LEMMA Fields ==
  ASSUME NEW p \in Parsers
  PROVE  /\ p.status \in Nat /\ p.status <= MaxVoiceData + 6
         /\ p.dataLen \in Word /\ p.dataLen \in Nat /\ p.sum8 \in Byte /\ p.crc \in Word
         /\ p.target \in Word /\ p.buffer \in [0..(BufferLen - 1) -> Byte]
<1>1. /\ p.status \in 0..(MaxVoiceData + 6) /\ p.dataLen \in Word /\ p.sum8 \in Byte
      /\ p.crc \in Word /\ p.target \in Word /\ p.buffer \in [0..(BufferLen - 1) -> Byte]
  BY DEF Parsers
<1>2. p.status \in Nat /\ p.status <= MaxVoiceData + 6
  BY <1>1, Sizes
<1> QED
  BY <1>1, <1>2, WordsAreNat

(* A byte of a sequence of them, and a sum of two.                          *)
LEMMA At == ASSUME NEW t \in Seq(Byte), NEW i \in 1..Len(t) PROVE t[i] \in Byte
  OBVIOUS

LEMMA Mod256 == ASSUME NEW x \in Byte, NEW b \in Byte PROVE (x + b) % 256 \in Byte
  BY DEF Byte

(* A field of it changes.                                                   *)
LEMMA WithBuffer ==
  ASSUME NEW p \in Parsers, NEW f \in [0..(BufferLen - 1) -> Byte],
         NEW q, q = [p EXCEPT !.buffer = f]
  PROVE  /\ q \in Parsers /\ q.buffer = f /\ q.status = p.status /\ q.dataLen = p.dataLen
         /\ q.sum8 = p.sum8 /\ q.crc = p.crc /\ q.target = p.target
  BY DEF Parsers

LEMMA WithLength ==
  ASSUME NEW p \in Parsers, NEW n \in Word, NEW q, q = [p EXCEPT !.dataLen = n]
  PROVE  /\ q \in Parsers /\ q.dataLen = n /\ q.status = p.status /\ q.buffer = p.buffer
         /\ q.sum8 = p.sum8 /\ q.crc = p.crc /\ q.target = p.target
  BY DEF Parsers

LEMMA WithTarget ==
  ASSUME NEW p \in Parsers, NEW n \in Word, NEW q, q = [p EXCEPT !.target = n]
  PROVE  /\ q \in Parsers /\ q.target = n /\ q.status = p.status /\ q.buffer = p.buffer
         /\ q.sum8 = p.sum8 /\ q.crc = p.crc /\ q.dataLen = p.dataLen
  BY DEF Parsers

(* What the voice parser stores of a byte: q is p with it.                  *)
VoiceStored(p, b, q) ==
    /\ q \in Parsers
    /\ q.status = p.status /\ q.sum8 = p.sum8 /\ q.crc = p.crc /\ q.target = p.target
    /\ p.status = 2 => q.dataLen = 256 * b
    /\ p.status = 3 => q.dataLen = p.dataLen + b
    /\ p.status \notin {2, 3} => q.dataLen = p.dataLen
    /\ p.status = 4 => q.buffer = [p.buffer EXCEPT ![0] = 0, ![1] = b]
    /\ p.status = 5 => q.buffer = [p.buffer EXCEPT ![0] = b]
    /\ p.status \in 6..(p.dataLen + 5) => q.buffer = [p.buffer EXCEPT ![p.status - 4] = b]
    /\ p.status < 4 \/ (p.status >= 6 /\ p.status > p.dataLen + 5) => q.buffer = p.buffer

LEMMA VoiceStores ==
  ASSUME NEW p \in Parsers, Fits(p), NEW b \in Byte, p.status = 3 => p.dataLen + b \in Word
  PROVE  VoiceStored(p, b, VoiceStore(p, b))
<1> DEFINE q == VoiceStore(p, b)
<1> SUFFICES VoiceStored(p, b, q)
  OBVIOUS
<1> USE DEF VoiceStored
<1>0. /\ p.status \in Nat /\ p.dataLen \in Nat /\ p.buffer \in [0..(BufferLen - 1) -> Byte]
      /\ MaxVoiceData \in Nat /\ BufferLen = MaxVoiceData + 2
  BY Fields, Sizes
<1>q. q = VoiceStore(p, b)
  OBVIOUS
<1> HIDE DEF q
<1>1. CASE p.status = 2
  <2>1. q = [p EXCEPT !.dataLen = 256 * b] /\ 256 * b \in Word
    BY <1>1, Joined, <1>q DEF VoiceStore
  <2> QED
    BY <1>1, <2>1, WithLength
<1>2. CASE p.status = 3
  <2>1. q = [p EXCEPT !.dataLen = @ + b] /\ p.dataLen + b \in Word
    BY <1>2, <1>q DEF VoiceStore
  <2> QED
    BY <1>2, <2>1, WithLength
<1>3. CASE p.status = 4
  <2> DEFINE f == [p.buffer EXCEPT ![0] = 0, ![1] = b]
  <2>1. q = [p EXCEPT !.buffer = f]
    BY <1>3, <1>q DEF VoiceStore
  <2>2. f \in [0..(BufferLen - 1) -> Byte]
    BY <1>0, WordsAreNat
  <2> HIDE DEF f
  <2>3. /\ q \in Parsers /\ q.buffer = f /\ q.status = p.status /\ q.dataLen = p.dataLen
        /\ q.sum8 = p.sum8 /\ q.crc = p.crc /\ q.target = p.target
    BY <2>1, <2>2, WithBuffer
  <2> QED
    BY <1>0, <1>3, <2>3 DEF f
<1>4. CASE p.status = 5
  <2> DEFINE f == [p.buffer EXCEPT ![0] = b]
  <2>1. q = [p EXCEPT !.buffer = f]
    BY <1>4, <1>q DEF VoiceStore
  <2>2. f \in [0..(BufferLen - 1) -> Byte]
    BY <1>0
  <2> HIDE DEF f
  <2>3. /\ q \in Parsers /\ q.buffer = f /\ q.status = p.status /\ q.dataLen = p.dataLen
        /\ q.sum8 = p.sum8 /\ q.crc = p.crc /\ q.target = p.target
    BY <2>1, <2>2, WithBuffer
  <2> QED
    BY <1>0, <1>4, <2>3 DEF f
<1>5. CASE p.status \in 6..(p.dataLen + 5)
  <2> DEFINE f == [p.buffer EXCEPT ![p.status - 4] = b]
  <2>0. p.status \notin {2, 3, 4, 5}
    BY <1>0, <1>5
  <2>1. q = [p EXCEPT !.buffer = f]
    BY <1>5, <2>0, <1>q DEF VoiceStore
  <2>2. f \in [0..(BufferLen - 1) -> Byte]
    BY <1>0
  <2> HIDE DEF f
  <2>3. /\ q \in Parsers /\ q.buffer = f /\ q.status = p.status /\ q.dataLen = p.dataLen
        /\ q.sum8 = p.sum8 /\ q.crc = p.crc /\ q.target = p.target
    BY <2>1, <2>2, WithBuffer
  <2> QED
    BY <1>0, <1>5, <2>0, <2>3 DEF f
<1>6. CASE p.status \notin {2, 3, 4, 5} /\ p.status \notin 6..(p.dataLen + 5)
  <2>1. q = p
    BY <1>6, <1>q DEF VoiceStore
  <2> QED
    BY <1>0, <1>6, <2>1
<1> QED
  BY <1>1, <1>2, <1>3, <1>4, <1>5, <1>6

(* Giving a frame up or having it leads back to the header; any other byte  *)
(* leads on.                                                                *)
VoiceStepped(p, b, r, q) ==
    /\ q \in Parsers /\ Fits(q) /\ q.crc = p.crc /\ q.target = p.target
    /\ q.dataLen = r.dataLen /\ q.buffer = r.buffer
    /\ VoiceRejects(p, b) \/ VoiceComplete(p, b) => q.status = 0 /\ q.sum8 = 0
    /\ ~(VoiceRejects(p, b) \/ VoiceComplete(p, b)) =>
         q.status = p.status + 1 /\ q.sum8 = (p.sum8 + b) % 256

LEMMA VoiceSteps ==
  ASSUME NEW p \in Parsers, Fits(p), NEW b \in Byte, p.status = 3 => p.dataLen + b \in Word
  PROVE  VoiceStepped(p, b, VoiceStore(p, b), VoiceStep(p, b))
<1> DEFINE r == VoiceStore(p, b)
           q == VoiceStep(p, b)
<1> SUFFICES VoiceStepped(p, b, r, q)
  OBVIOUS
<1>q. r = VoiceStore(p, b) /\ q = VoiceStep(p, b)
  OBVIOUS
<1> HIDE DEF q, r
<1> USE DEF VoiceStepped
<1>0. /\ p.status \in Nat /\ p.dataLen \in Nat /\ MaxVoiceData \in Nat /\ p.sum8 \in Byte
      /\ b \in Nat
  BY Fields, Sizes, WordsAreNat
<1>1. VoiceStored(p, b, r)
  BY <1>q, VoiceStores
<1> USE DEF VoiceStored
<1>2. CASE VoiceRejects(p, b) \/ VoiceComplete(p, b)
  <2>1. q = [r EXCEPT !.status = 0, !.sum8 = 0]
    BY <1>q, <1>2 DEF VoiceStep, VoiceAgain
  <2>2. 0 \in 0..(MaxVoiceData + 6) /\ 0 \in Byte
    BY <1>0, WordsAreNat
  <2>3. /\ q \in Parsers /\ q.status = 0 /\ q.sum8 = 0 /\ q.crc = r.crc
        /\ q.target = r.target /\ q.dataLen = r.dataLen /\ q.buffer = r.buffer
    BY <1>1, <2>1, <2>2 DEF Parsers
  <2> QED
    BY <1>1, <1>2, <2>3 DEF Fits
<1>3. CASE ~(VoiceRejects(p, b) \/ VoiceComplete(p, b))
  <2>1. q = [r EXCEPT !.status = r.status + 1, !.sum8 = (r.sum8 + b) % 256]
    BY <1>q, <1>3 DEF VoiceStep
  <2>2. p.status >= 6 => p.status < p.dataLen + 6
    BY <1>0, <1>3 DEF VoiceRejects
  <2>3. p.status = 3 => p.dataLen + b <= MaxVoiceData
    BY <1>3 DEF VoiceRejects, LengthAllowed
  <2>4. p.status + 1 <= MaxVoiceData + 6
    BY <1>0, <2>2 DEF Fits
  <2>5. p.status + 1 \in 0..(MaxVoiceData + 6)
    BY <1>0, <2>4
  <2>6. (p.sum8 + b) % 256 \in Byte
    BY <1>0, Mod256
  <2>7. /\ q \in Parsers /\ q.status = p.status + 1 /\ q.sum8 = (p.sum8 + b) % 256
        /\ q.crc = r.crc /\ q.target = r.target /\ q.dataLen = r.dataLen
        /\ q.buffer = r.buffer
    <3>1. PICK n \in 0..(MaxVoiceData + 6) : n = p.status + 1
      BY <2>5
    <3>2. PICK c \in Byte : c = (p.sum8 + b) % 256
      BY <2>6
    <3>3. q = [r EXCEPT !.status = n, !.sum8 = c]
      BY <1>1, <2>1, <3>1, <3>2
    <3>4. /\ q \in Parsers /\ q.status = n /\ q.sum8 = c /\ q.dataLen = r.dataLen
          /\ q.buffer = r.buffer /\ q.crc = r.crc /\ q.target = r.target
      BY <1>1, <3>3 DEF Parsers
    <3> QED
      BY <3>1, <3>2, <3>4
  <2>8. Fits(q)
    BY <1>0, <1>1, <2>3, <2>7 DEF Fits
  <2> QED
    BY <1>1, <1>3, <2>7, <2>8
<1> QED
  BY <1>2, <1>3

(* What the voice parser knows of the bytes t it has taken of a frame.      *)
VoiceReads(p, t) ==
    /\ p.status = Len(t) /\ p.sum8 = Sum8(t)
    /\ Len(t) >= 1 => t[1] = 85
    /\ Len(t) >= 2 => t[2] = 170
    /\ Len(t) = 3 => p.dataLen = 256 * t[3]
    /\ Len(t) >= 4 => p.dataLen = 256 * t[3] + t[4] /\ p.dataLen <= MaxVoiceData
    /\ Len(t) >= 5 => p.buffer[1] = t[5]
    /\ Len(t) >= 6 => p.buffer[0] = t[6] /\ Len(t) <= p.dataLen + 6
    /\ \A i \in 7..Len(t) : p.buffer[i - 5] = t[i]

(* It knows nothing when it looks for a header.                             *)
LEMMA VoiceReadsNone ==
  ASSUME NEW p, p.status = 0, p.sum8 = 0
  PROVE  VoiceReads(p, <<>>)
  BY Sum8Empty DEF VoiceReads

(* It knows enough to store within the union.                               *)
LEMMA VoiceReadsFits ==
  ASSUME NEW p \in Parsers, NEW t \in Seq(Byte), VoiceReads(p, t)
  PROVE  /\ Fits(p)
         /\ \A b \in Byte : p.status = 3 => p.dataLen + b \in Word
<1>1. Fits(p)
  BY Fields DEF VoiceReads, Fits
<1>2. ASSUME NEW b \in Byte, p.status = 3 PROVE p.dataLen + b \in Word
  <2>0. Len(t) = 3 /\ p.dataLen = 256 * t[3]
    BY <1>2 DEF VoiceReads
  <2>1. t[3] \in Byte
    BY <2>0, At
  <2> QED
    BY <2>0, <2>1, WordOf
<1> QED
  BY <1>1, <1>2

(* A byte appended.                                                         *)
LEMMA Appended ==
  ASSUME NEW t \in Seq(Byte), NEW b \in Byte
  PROVE  /\ Append(t, b) \in Seq(Byte) /\ Len(Append(t, b)) = Len(t) + 1
         /\ Append(t, b)[Len(t) + 1] = b /\ Len(t) \in Nat
         /\ \A i \in 1..Len(t) : Append(t, b)[i] = t[i]
  OBVIOUS

(* A byte that leads on becomes part of what it knows; one that does not    *)
(* leaves it with nothing.                                                  *)
LEMMA VoiceTakes ==
  ASSUME NEW p \in Parsers, NEW t \in Seq(Byte), VoiceReads(p, t), NEW b \in Byte
  PROVE  VoiceReads(VoiceStep(p, b), IF VoiceRejects(p, b) \/ VoiceComplete(p, b) THEN <<>>
                                     ELSE Append(t, b))
<1> DEFINE q == VoiceStep(p, b)
           r == VoiceStore(p, b)
           u == Append(t, b)
<1>1. VoiceStored(p, b, r) /\ VoiceStepped(p, b, r, q)
  BY VoiceReadsFits, VoiceStores, VoiceSteps
<1>2. /\ u \in Seq(Byte) /\ Len(u) = Len(t) + 1 /\ u[Len(t) + 1] = b /\ Len(t) \in Nat
      /\ \A i \in 1..Len(t) : u[i] = t[i]
  BY Appended
<1>3. Sum8(u) = (Sum8(t) + b) % 256
  BY Sum8Append
<1>4. CASE VoiceRejects(p, b) \/ VoiceComplete(p, b)
  <2>1. VoiceReads(q, <<>>)
    <3> HIDE DEF q, r
    <3>1. q.status = 0 /\ q.sum8 = 0
      BY <1>1, <1>4 DEF VoiceStepped
    <3> QED
      BY <3>1, VoiceReadsNone
  <2> QED
    BY <1>4, <2>1
<1>5. CASE ~(VoiceRejects(p, b) \/ VoiceComplete(p, b))
  <2> HIDE DEF q, r, u
  <2>0. PICK n \in Nat : /\ Len(t) = n /\ Len(u) = n + 1 /\ p.status = n
                         /\ u[n + 1] = b /\ \A i \in 1..n : u[i] = t[i]
    BY <1>2 DEF VoiceReads
  <2>1. q.status = Len(u) /\ q.sum8 = Sum8(u) /\ p.status = Len(t)
    BY <1>1, <1>2, <1>3, <1>5 DEF VoiceStepped, VoiceReads
  <2>2. /\ p.status = 0 => b = 85
        /\ p.status = 1 => b = 170
        /\ p.status = 3 => p.dataLen + b <= MaxVoiceData
        /\ p.status >= 6 => p.status < p.dataLen + 6
    BY <1>5, Fields DEF VoiceRejects, LengthAllowed
  <2>3. Len(u) >= 1 => u[1] = 85
    BY <1>2, <2>1, <2>2 DEF VoiceReads
  <2>4. Len(u) >= 2 => u[2] = 170
    <3>1. CASE n = 1
      BY <2>0, <1>2, <2>1, <2>2, <3>1
    <3>2. CASE n > 1
      <4>1. u[2] = t[2]
        BY <2>0, <1>2, <3>2
      <4> QED
        BY <2>0, <1>2, <3>2, <4>1 DEF VoiceReads
    <3> QED
      BY <2>0, <3>1, <3>2
  <2>5. q.dataLen = r.dataLen /\ q.buffer = r.buffer
    BY <1>1 DEF VoiceStepped
  <2>6. Len(u) = 3 => q.dataLen = 256 * u[3]
    <3>1. CASE n = 2
      <4>1. u[3] = b /\ p.status = 2
        BY <2>0, <3>1
      <4> QED
        BY <1>1, <2>5, <4>1 DEF VoiceStored
    <3>2. CASE n # 2
      <4>1. n + 1 # 3
        BY <3>2
      <4> QED
        BY <2>0, <4>1, Zenon
    <3> QED
      BY <3>1, <3>2
  <2>7. Len(u) >= 4 => q.dataLen = 256 * u[3] + u[4] /\ q.dataLen <= MaxVoiceData
    <3>1. CASE n = 3
      BY <2>0, <1>1, <1>2, <2>1, <2>2, <2>5, <3>1 DEF VoiceStored, VoiceReads
    <3>2. CASE n > 3
      <4>1. u[3] = t[3] /\ u[4] = t[4]
        BY <2>0, <1>2, <3>2
      <4>2. p.dataLen = 256 * t[3] + t[4] /\ p.dataLen <= MaxVoiceData
        BY <2>0, <3>2 DEF VoiceReads
      <4>3. q.dataLen = p.dataLen
        <5>1. p.status \notin {2, 3}
          BY <2>0, <2>1, <3>2
        <5> QED
          BY <1>1, <2>5, <5>1 DEF VoiceStored
      <4> QED
        BY <4>1, <4>2, <4>3
    <3> QED
      BY <2>0, <3>1, <3>2
  <2>8. /\ Len(u) >= 5 => q.buffer[1] = u[5]
        /\ Len(u) >= 6 => q.buffer[0] = u[6]
        /\ \A i \in 7..Len(u) : q.buffer[i - 5] = u[i]
    <3>0. /\ p.buffer \in [0..(BufferLen - 1) -> Byte] /\ BufferLen - 1 = MaxVoiceData + 1
          /\ MaxVoiceData \in Nat /\ p.dataLen \in Nat
      BY Fields, Sizes
    <3>1. CASE n < 4
      BY <2>0, <1>2, <3>1
    <3>2. CASE n = 4
      BY <2>0, <1>1, <1>2, <2>1, <2>5, <3>0, <3>2 DEF VoiceStored
    <3>3. CASE n = 5
      <4>1. q.buffer = [p.buffer EXCEPT ![0] = b] /\ u[6] = b /\ u[5] = t[5]
        BY <1>1, <2>0, <2>5, <3>3 DEF VoiceStored
      <4>2. q.buffer[0] = b /\ q.buffer[1] = p.buffer[1]
        BY <3>0, <4>1
      <4>3. p.buffer[1] = t[5]
        BY <2>0, <3>3 DEF VoiceReads
      <4> QED
        BY <2>0, <3>3, <4>1, <4>2, <4>3
    <3>4. CASE n > 5
      <4>1. /\ p.status \in 6..(p.dataLen + 5) /\ p.dataLen <= MaxVoiceData
            /\ p.status - 4 \in 2..(MaxVoiceData + 1)
        BY <2>0, <1>2, <2>1, <2>2, <3>0, <3>4 DEF VoiceReads
      <4>2. q.buffer = [p.buffer EXCEPT ![p.status - 4] = b]
        BY <1>1, <2>5, <4>1 DEF VoiceStored
      <4>3. q.buffer[p.status - 4] = b /\ \A j \in 0..(MaxVoiceData + 1) :
               j # p.status - 4 => q.buffer[j] = p.buffer[j]
        BY <3>0, <4>1, <4>2
      <4>4. p.buffer[1] = t[5] /\ p.buffer[0] = t[6] /\ \A i \in 7..Len(t) : p.buffer[i - 5] = t[i]
        BY <2>0, <1>2, <3>4 DEF VoiceReads
      <4>5. u[5] = t[5] /\ u[6] = t[6]
        BY <2>0, <1>2, <3>4
      <4>6. q.buffer[1] = p.buffer[1] /\ q.buffer[0] = p.buffer[0]
        BY <3>0, <4>1, <4>3
      <4>7. ASSUME NEW i \in 7..Len(u) PROVE q.buffer[i - 5] = u[i]
        <5>1. CASE i = Len(u)
          BY <1>2, <2>1, <4>3, <5>1
        <5>2. CASE i # Len(u)
          <6>1. i \in 7..Len(t) /\ i - 5 \in 0..(MaxVoiceData + 1) /\ i - 5 # p.status - 4
            BY <1>2, <2>1, <3>0, <4>1, <4>7, <5>2
          <6> QED
            BY <1>2, <4>3, <4>4, <6>1
        <5> QED
          BY <5>1, <5>2
      <4> QED
        BY <4>4, <4>5, <4>6, <4>7
    <3>5. n < 4 \/ n = 4 \/ n = 5 \/ n > 5
      BY <2>0
    <3> QED
      BY <2>0, <3>1, <3>2, <3>3, <3>4, <3>5
  <2>9. Len(u) >= 6 => Len(u) <= q.dataLen + 6
    <3> SUFFICES ASSUME n >= 5 PROVE Len(u) <= q.dataLen + 6
      BY <2>0
    <3>1. p.status \notin {2, 3}
      BY <2>0, <2>1
    <3>2. q.dataLen = p.dataLen /\ p.dataLen \in Nat
      BY <2>0, <1>1, <2>5, <3>1, Fields DEF VoiceStored
    <3> QED
      BY <2>0, <2>1, <2>2, <3>2
  <2>10. VoiceReads(q, u)
    BY <2>1, <2>3, <2>4, <2>6, <2>7, <2>8, <2>9 DEF VoiceReads
  <2> QED
    BY <1>5, <2>10 DEF q, u
<1> QED
  BY <1>4, <1>5

-----------------------------------------------------------------------------
(* Two sequences of bytes with the same bytes are the same.                 *)
LEMMA SameBytes ==
  ASSUME NEW s \in Seq(Byte), NEW t \in Seq(Byte), Len(s) = Len(t),
         \A i \in 1..Len(s) : s[i] = t[i]
  PROVE  s = t
  OBVIOUS

(* Sequences of bytes one after the other.                                  *)
LEMMA Joint ==
  ASSUME NEW s \in Seq(Byte), NEW t \in Seq(Byte)
  PROVE  /\ s \o t \in Seq(Byte) /\ Len(s \o t) = Len(s) + Len(t)
         /\ \A i \in 1..Len(s) : (s \o t)[i] = s[i]
         /\ \A i \in (Len(s) + 1)..(Len(s) + Len(t)) : (s \o t)[i] = t[i - Len(s)]
  OBVIOUS

LEMMA TailOf ==
  ASSUME NEW s \in Seq(Byte), NEW n \in Nat, Len(s) = n + 1
  PROVE  /\ Tail(s) \in Seq(Byte) /\ Len(Tail(s)) = n
         /\ \A i \in 1..n : Tail(s)[i] = s[i + 1]
         /\ Tail(s) = <<>> <=> n = 0
<1>1. s # <<>>
  OBVIOUS
<1>2. Tail(s) \in Seq(Byte) /\ Len(Tail(s)) = n
  BY <1>1
<1>3. \A i \in 1..n : Tail(s)[i] = s[i + 1]
  BY <1>1
<1>4. Tail(s) = <<>> <=> n = 0
  BY <1>2
<1> QED
  BY <1>2, <1>3, <1>4

(* The layout of a voice frame with the message m, before its checksum.     *)
VoiceBody(m, body) ==
    /\ body \in Seq(Byte) /\ Len(body) = Len(m) + 4
    /\ body[1] = 85 /\ body[2] = 170
    /\ body[3] = HighByte(Len(m) - 2) /\ body[4] = LowByte(Len(m) - 2)
    /\ body[5] = m[2] /\ body[6] = m[1]
    /\ \A i \in 7..Len(body) : body[i] = m[i - 4]

LEMMA VoiceLayout ==
  ASSUME NEW m \in Seq(Byte), NEW k \in Word, Len(m) = k + 2
  PROVE  \E body : VoiceBody(m, body) /\ Encode("voice", m) = Append(body, Sum8(body))
<1> DEFINE data == SubSeq(m, 3, Len(m))
           cmd == m[1] + 256 * m[2]
           head == <<85, 170, HighByte(Len(data)), LowByte(Len(data)), HighByte(cmd), LowByte(cmd)>>
           body == head \o data
<1>0. k \in Nat /\ HighByte(k) \in Byte /\ LowByte(k) \in Byte
  BY WordsAreNat, Halves
<1>1. m[1] \in Byte /\ m[2] \in Byte
  <2>1. 1 \in 1..Len(m) /\ 2 \in 1..Len(m)
    BY <1>0
  <2> QED
    BY <2>1, At
<1>2. HighByte(cmd) = m[2] /\ LowByte(cmd) = m[1]
  BY <1>1, Joined
<1>3. data \in Seq(Byte) /\ Len(data) = k /\ \A i \in 1..k : data[i] = m[i + 2]
  BY <1>0
<1>4. 85 \in Byte /\ 170 \in Byte
  BY DEF Byte
<1>5. Encode("voice", m) = Append(body, Sum8(body))
  BY DEF Encode, EncodeVoice
<1> HIDE DEF data, cmd
<1>6. head = <<85, 170, HighByte(k), LowByte(k), m[2], m[1]>>
  BY <1>2, <1>3
<1>7. head \in Seq(Byte) /\ Len(head) = 6
  BY <1>0, <1>1, <1>4, <1>6
<1>8. /\ head[1] = 85 /\ head[2] = 170 /\ head[3] = HighByte(k) /\ head[4] = LowByte(k)
      /\ head[5] = m[2] /\ head[6] = m[1]
  BY <1>6
<1> HIDE DEF head
<1>9. /\ body \in Seq(Byte) /\ Len(body) = k + 6
      /\ \A i \in 1..6 : body[i] = head[i]
      /\ \A i \in 7..(k + 6) : body[i] = data[i - 6]
  <2>1. /\ body \in Seq(Byte) /\ Len(body) = Len(head) + Len(data)
        /\ \A i \in 1..Len(head) : body[i] = head[i]
        /\ \A i \in (Len(head) + 1)..(Len(head) + Len(data)) : body[i] = data[i - Len(head)]
    BY <1>3, <1>7, Joint
  <2>2. Len(head) = 6 /\ Len(data) = k /\ 6 + k = k + 6 /\ 6 + 1 = 7
    BY <1>0, <1>3, <1>7
  <2> HIDE DEF body
  <2> QED
    BY <2>1, <2>2
<1>10. \A i \in 7..(k + 6) : body[i] = m[i - 4]
  <2> SUFFICES ASSUME NEW i \in 7..(k + 6) PROVE data[i - 6] = m[i - 4]
    BY <1>9
  <2>1. i - 6 \in 1..k /\ (i - 6) + 2 = i - 4
    BY <1>0
  <2> QED
    BY <1>3, <2>1
<1> HIDE DEF body
<1>11. Len(m) - 2 = k /\ Len(m) + 4 = k + 6
  BY <1>0
<1>12. VoiceBody(m, body)
  BY <1>8, <1>9, <1>10, <1>11 DEF VoiceBody
<1> QED
  BY <1>5, <1>12

(* The bytes of the union that are sent to the message buffer.              *)
Stored(p, n) == [i \in 1..n |-> p.buffer[i - 1]]

LEMMA StoredIsSeq ==
  ASSUME NEW p \in Parsers, NEW n \in Nat, n <= BufferLen
  PROVE  /\ Stored(p, n) \in Seq(Byte) /\ Len(Stored(p, n)) = n
         /\ \A i \in 1..n : Stored(p, n)[i] = p.buffer[i - 1]
<1>1. p.buffer \in [0..(BufferLen - 1) -> Byte] /\ BufferLen \in Nat
  BY Fields, Sizes
<1>2. \A i \in 1..n : p.buffer[i - 1] \in Byte
  BY <1>1
<1> QED
  BY <1>2 DEF Stored

LEMMA Turned == \A x, y \in Byte : 256 * x + y = y + 256 * x
  BY DEF Byte

(* A frame is complete: the bytes taken are the frame of the message.       *)
LEMMA VoiceGenuine ==
  ASSUME NEW p \in Parsers, NEW t \in Seq(Byte), VoiceReads(p, t), NEW b \in Byte,
         VoiceComplete(p, b)
  PROVE  Append(t, b) = Encode("voice", Stored(p, 2 + p.dataLen))
<1> DEFINE k == p.dataLen
           m == Stored(p, 2 + k)
<1>0. /\ k \in Word /\ k \in Nat /\ MaxVoiceData \in Nat /\ BufferLen = MaxVoiceData + 2
      /\ p.status \in Nat
  BY Fields, Sizes
<1>1. p.status = k + 6 /\ b = p.sum8 /\ p.status >= 6
  BY DEF VoiceComplete
<1>2. Len(t) = k + 6 /\ b = Sum8(t) /\ k <= MaxVoiceData
  BY <1>0, <1>1 DEF VoiceReads
<1>3. 2 + k \in Nat /\ 2 + k <= BufferLen
  BY <1>0, <1>2
<1>4. m \in Seq(Byte) /\ Len(m) = 2 + k /\ \A i \in 1..(2 + k) : m[i] = p.buffer[i - 1]
  BY <1>3, StoredIsSeq
<1> HIDE DEF m
<1>5. PICK body : VoiceBody(m, body) /\ Encode("voice", m) = Append(body, Sum8(body))
  <2>1. Len(m) = k + 2
    BY <1>0, <1>4
  <2> QED
    BY <1>0, <1>4, <2>1, VoiceLayout
<1>6. Len(m) - 2 = k /\ Len(m) + 4 = k + 6
  BY <1>0, <1>4
<1>7. /\ t[1] = 85 /\ t[2] = 170 /\ k = 256 * t[3] + t[4]
      /\ p.buffer[1] = t[5] /\ p.buffer[0] = t[6]
      /\ \A i \in 7..(k + 6) : p.buffer[i - 5] = t[i]
  <2>1. k + 6 >= 6 /\ k + 6 >= 5 /\ k + 6 >= 4 /\ k + 6 >= 2 /\ k + 6 >= 1
    BY <1>0
  <2> QED
    BY <1>2, <2>1 DEF VoiceReads
<1>8. HighByte(k) = t[3] /\ LowByte(k) = t[4]
  <2>1. 3 \in 1..Len(t) /\ 4 \in 1..Len(t)
    BY <1>0, <1>2
  <2>2. t[3] \in Byte /\ t[4] \in Byte
    BY <2>1, At
  <2>3. k = t[4] + 256 * t[3]
    BY <1>7, <2>2, Turned
  <2> QED
    BY <2>2, <2>3, Joined
<1>9. m[1] = t[6] /\ m[2] = t[5] /\ \A i \in 7..(k + 6) : m[i - 4] = t[i]
  <2>1. m[1] = p.buffer[1 - 1] /\ m[2] = p.buffer[2 - 1]
    BY <1>0, <1>4
  <2>2. ASSUME NEW i \in 7..(k + 6) PROVE m[i - 4] = t[i]
    <3>1. i - 4 \in 1..(2 + k) /\ (i - 4) - 1 = i - 5
      BY <1>0
    <3>2. m[i - 4] = p.buffer[(i - 4) - 1]
      BY <1>4, <3>1
    <3>3. p.buffer[i - 5] = t[i]
      BY <1>7
    <3> QED
      BY <3>1, <3>2, <3>3
  <2> QED
    BY <1>7, <2>1, <2>2
<1>10. body \in Seq(Byte) /\ Len(body) = k + 6 /\ \A i \in 1..(k + 6) : body[i] = t[i]
  <2>1. /\ body \in Seq(Byte) /\ Len(body) = k + 6
        /\ body[1] = t[1] /\ body[2] = t[2] /\ body[3] = t[3] /\ body[4] = t[4]
        /\ body[5] = t[5] /\ body[6] = t[6] /\ \A i \in 7..(k + 6) : body[i] = t[i]
    BY <1>5, <1>6, <1>7, <1>8, <1>9 DEF VoiceBody
  <2>2. \A i \in 1..(k + 6) : i \in {1, 2, 3, 4, 5, 6} \/ i \in 7..(k + 6)
    BY <1>0
  <2> QED
    BY <2>1, <2>2
<1>11. body = t
  BY <1>2, <1>10, SameBytes
<1> QED
  BY <1>2, <1>5, <1>11 DEF m

(* The bytes of a frame that come in its order are not given up, and the    *)
(* last one completes it, with its message.                                 *)
LEMMA VoiceClean ==
  ASSUME NEW p \in Parsers, NEW t \in Seq(Byte), VoiceReads(p, t), NEW b \in Byte,
         NEW m \in Seq(Byte), NEW k \in Word, Len(m) = k + 2, k <= MaxVoiceData,
         NEW body, VoiceBody(m, body),
         Len(t) <= Len(body), \A i \in 1..Len(t) : t[i] = body[i],
         b = IF Len(t) = Len(body) THEN Sum8(body) ELSE body[Len(t) + 1]
  PROVE  /\ ~VoiceRejects(p, b)
         /\ VoiceComplete(p, b) <=> Len(t) = Len(body)
         /\ VoiceComplete(p, b) => Stored(p, 2 + p.dataLen) = m
<1>0. k \in Nat /\ p.status \in Nat /\ p.dataLen \in Nat /\ BufferLen = MaxVoiceData + 2
      /\ MaxVoiceData \in Nat
  BY Fields, Sizes, WordsAreNat
<1>1. Len(m) - 2 = k /\ Len(m) + 4 = k + 6
  BY <1>0
<1>2. /\ body \in Seq(Byte) /\ Len(body) = k + 6 /\ body[1] = 85 /\ body[2] = 170
      /\ body[3] = HighByte(k) /\ body[4] = LowByte(k) /\ body[5] = m[2] /\ body[6] = m[1]
      /\ \A i \in 7..(k + 6) : body[i] = m[i - 4]
  BY <1>1 DEF VoiceBody
<1>3. PICK n \in Nat : Len(t) = n /\ p.status = n
  BY DEF VoiceReads
<1>4. /\ n <= k + 6 /\ \A i \in 1..n : t[i] = body[i]
      /\ n < k + 6 => b = body[n + 1]
      /\ n = k + 6 => b = Sum8(body)
  <2>1. n <= k + 6 /\ \A i \in 1..n : t[i] = body[i]
    BY <1>2, <1>3
  <2>2. CASE n < k + 6
    <3>1. n # k + 6
      BY <1>0, <2>2
    <3> QED
      BY <1>2, <1>3, <2>1, <3>1
  <2>3. CASE n = k + 6
    BY <1>0, <1>2, <1>3, <2>1, <2>3
  <2> QED
    BY <1>0, <2>1, <2>2, <2>3
<1>5. HighByte(k) \in Byte /\ LowByte(k) \in Byte /\ k = 256 * HighByte(k) + LowByte(k)
  BY Halves
<1>6. n = 3 => p.dataLen + b = k
  <2> SUFFICES ASSUME n = 3 PROVE p.dataLen + b = k
    OBVIOUS
  <2>1. p.dataLen = 256 * t[3] /\ t[3] = HighByte(k)
    BY <1>2, <1>3, <1>4 DEF VoiceReads
  <2>2. b = LowByte(k)
    BY <1>0, <1>2, <1>4
  <2> QED
    BY <1>5, <2>1, <2>2
<1>7. n >= 4 => p.dataLen = k
  <2> SUFFICES ASSUME n >= 4 PROVE p.dataLen = k
    OBVIOUS
  <2>1. p.dataLen = 256 * t[3] + t[4]
    BY <1>3 DEF VoiceReads
  <2>2. t[3] = body[3] /\ t[4] = body[4]
    BY <1>4
  <2> QED
    BY <1>2, <1>5, <2>1, <2>2
<1>8. n = k + 6 => t = body /\ b = p.sum8
  <2> SUFFICES ASSUME n = k + 6 PROVE t = body /\ b = p.sum8
    OBVIOUS
  <2>1. t = body
    BY <1>2, <1>3, <1>4, SameBytes
  <2> QED
    BY <1>4, <2>1 DEF VoiceReads
<1>9. VoiceComplete(p, b) <=> n = k + 6
  <2>1. n = k + 6 => VoiceComplete(p, b)
    BY <1>0, <1>3, <1>7, <1>8 DEF VoiceComplete
  <2>2. VoiceComplete(p, b) => n = k + 6
    BY <1>0, <1>3, <1>7 DEF VoiceComplete
  <2> QED
    BY <2>1, <2>2
<1>10. ~VoiceRejects(p, b)
  <2>1. n = 0 => b = 85
    <3>1. n = 0 => n < k + 6 /\ n + 1 = 1
      BY <1>0
    <3> QED
      BY <1>2, <1>4, <3>1
  <2>2. n = 1 => b = 170
    BY <1>0, <1>2, <1>4
  <2>3. n = 3 => LengthAllowed(p.dataLen + b, MaxVoiceData)
    BY <1>6 DEF LengthAllowed
  <2>4. n >= 6 /\ n >= p.dataLen + 6 => VoiceComplete(p, b)
    BY <1>0, <1>4, <1>7, <1>9
  <2> QED
    BY <1>3, <2>1, <2>2, <2>3, <2>4 DEF VoiceRejects
<1>11. n = k + 6 => Stored(p, 2 + p.dataLen) = m
  <2> SUFFICES ASSUME n = k + 6 PROVE Stored(p, 2 + k) = m
    BY <1>0, <1>7
  <2>1. 2 + k \in Nat /\ 2 + k <= BufferLen
    BY <1>0
  <2>2. /\ Stored(p, 2 + k) \in Seq(Byte) /\ Len(Stored(p, 2 + k)) = 2 + k
        /\ \A i \in 1..(2 + k) : Stored(p, 2 + k)[i] = p.buffer[i - 1]
    BY <2>1, StoredIsSeq
  <2>3. p.buffer[1] = t[5] /\ p.buffer[0] = t[6] /\ \A i \in 7..n : p.buffer[i - 5] = t[i]
    BY <1>0, <1>3 DEF VoiceReads
  <2>4. t = body
    BY <1>8
  <2>5. ASSUME NEW i \in 1..(2 + k) PROVE p.buffer[i - 1] = m[i]
    <3>1. CASE i = 1
      BY <1>2, <2>3, <2>4, <3>1
    <3>2. CASE i = 2
      BY <1>2, <2>3, <2>4, <3>2
    <3>3. CASE i > 2
      <4>1. i + 4 \in 7..(k + 6) /\ i + 4 \in 7..n /\ (i + 4) - 5 = i - 1 /\ (i + 4) - 4 = i
        BY <1>0, <3>3
      <4>2. body[i + 4] = m[(i + 4) - 4]
        BY <1>2, <4>1
      <4>3. p.buffer[(i + 4) - 5] = t[i + 4]
        BY <2>3, <4>1
      <4> QED
        BY <2>4, <4>1, <4>2, <4>3
    <3> QED
      BY <1>0, <3>1, <3>2, <3>3
  <2>6. Len(m) = 2 + k
    BY <1>0
  <2> QED
    BY <2>2, <2>5, <2>6, SameBytes
<1> QED
  BY <1>2, <1>3, <1>9, <1>10, <1>11

-----------------------------------------------------------------------------
(* The same for the upgrade parser.                                         *)
JlStored(p, b, q) ==
    /\ q \in Parsers
    /\ q.status = p.status /\ q.sum8 = p.sum8 /\ q.crc = p.crc
    /\ p.status = 2 => q.dataLen = b
    /\ p.status = 3 => q.dataLen = Or(p.dataLen, 256 * b)
    /\ p.status \notin {2, 3} => q.dataLen = p.dataLen
    /\ p.status \in 4..(p.dataLen + 3) => q.buffer = [p.buffer EXCEPT ![p.status - 4] = b]
    /\ p.status < 4 \/ p.status > p.dataLen + 3 => q.buffer = p.buffer
    /\ p.status >= 4 /\ p.status = p.dataLen + 4 => q.target = b

LEMMA JlStores ==
  ASSUME NEW p \in Parsers, Fits(p), NEW b \in Byte
  PROVE  JlStored(p, b, JlStore(p, b))
<1> DEFINE q == JlStore(p, b)
<1> SUFFICES JlStored(p, b, q)
  OBVIOUS
<1> USE DEF JlStored
<1>0. /\ p.status \in Nat /\ p.dataLen \in Nat /\ p.buffer \in [0..(BufferLen - 1) -> Byte]
      /\ MaxVoiceData \in Nat /\ BufferLen = MaxVoiceData + 2
      /\ b \in Word /\ 256 * b \in Word /\ p.dataLen \in Word /\ p.target \in Word
  BY Fields, Sizes, Joined
<1>q. q = JlStore(p, b)
  OBVIOUS
<1> HIDE DEF q
<1>1. CASE p.status = 2
  <2>1. q = [p EXCEPT !.dataLen = b]
    BY <1>1, <1>q DEF JlStore
  <2> QED
    BY <1>0, <1>1, <2>1, WithLength
<1>2. CASE p.status = 3
  <2>1. PICK n \in Word : n = Or(p.dataLen, 256 * b)
    BY <1>0, OrType
  <2>2. q = [p EXCEPT !.dataLen = n]
    BY <1>2, <1>q, <2>1 DEF JlStore
  <2> QED
    BY <1>0, <1>2, <2>1, <2>2, WithLength
<1>3. CASE p.status \in 4..(p.dataLen + 3)
  <2> DEFINE f == [p.buffer EXCEPT ![p.status - 4] = b]
  <2>0. p.status \notin {2, 3} /\ p.status # p.dataLen + 4 /\ p.status # p.dataLen + 5
    BY <1>0, <1>3
  <2>1. q = [p EXCEPT !.buffer = f]
    BY <1>3, <2>0, <1>q DEF JlStore
  <2>2. f \in [0..(BufferLen - 1) -> Byte]
    BY <1>0
  <2> HIDE DEF f
  <2>3. /\ q \in Parsers /\ q.buffer = f /\ q.status = p.status /\ q.dataLen = p.dataLen
        /\ q.sum8 = p.sum8 /\ q.crc = p.crc /\ q.target = p.target
    BY <2>1, <2>2, WithBuffer
  <2> QED
    BY <1>0, <1>3, <2>0, <2>3 DEF f
<1>4. CASE p.status >= 4 /\ p.status = p.dataLen + 4
  <2>0. /\ p.status \notin {2, 3} /\ p.status \notin 4..(p.dataLen + 3)
        /\ p.status # p.dataLen + 5
    BY <1>0, <1>4
  <2>1. q = [p EXCEPT !.target = b]
    BY <1>4, <2>0, <1>q DEF JlStore
  <2> QED
    BY <1>0, <1>4, <2>0, <2>1, WithTarget
<1>5. CASE p.status >= 4 /\ p.status = p.dataLen + 5
  <2>0. /\ p.status \notin {2, 3} /\ p.status \notin 4..(p.dataLen + 3)
        /\ p.status # p.dataLen + 4
    BY <1>0, <1>5
  <2>1. PICK n \in Word : n = Or(p.target, 256 * b)
    BY <1>0, OrType
  <2>2. q = [p EXCEPT !.target = n]
    BY <1>5, <2>0, <2>1, <1>q DEF JlStore
  <2> QED
    BY <1>0, <1>5, <2>0, <2>2, WithTarget
<1>6. CASE /\ p.status \notin {2, 3} /\ p.status \notin 4..(p.dataLen + 3)
           /\ ~(p.status >= 4 /\ p.status = p.dataLen + 4)
           /\ ~(p.status >= 4 /\ p.status = p.dataLen + 5)
  <2>1. q = p
    BY <1>6, <1>q DEF JlStore
  <2> QED
    BY <1>0, <1>6, <2>1
<1> QED
  BY <1>1, <1>2, <1>3, <1>4, <1>5, <1>6

JlStepped(p, b, r, q) ==
    /\ q \in Parsers /\ Fits(q) /\ q.target = r.target
    /\ q.dataLen = r.dataLen /\ q.buffer = r.buffer
    /\ JlRejects(p, b) \/ JlComplete(p, b) => q.status = 0 /\ q.crc = 0
    /\ ~(JlRejects(p, b) \/ JlComplete(p, b)) =>
         /\ q.status = p.status + 1
         /\ p.status <= 3 \/ p.status < r.dataLen + 4 => q.crc = CrcByte(p.crc, b)
         /\ ~(p.status <= 3 \/ p.status < r.dataLen + 4) => q.crc = p.crc

LEMMA JlSteps ==
  ASSUME NEW p \in Parsers, Fits(p), NEW b \in Byte
  PROVE  JlStepped(p, b, JlStore(p, b), JlStep(p, b))
<1> DEFINE r == JlStore(p, b)
           q == JlStep(p, b)
           summed == p.status <= 3 \/ p.status < r.dataLen + 4
<1> SUFFICES JlStepped(p, b, r, q)
  OBVIOUS
<1>q. q = IF JlRejects(p, b) \/ JlComplete(p, b) THEN JlAgain(r)
          ELSE [r EXCEPT !.status = r.status + 1,
                         !.crc = IF summed THEN CrcByte(r.crc, b) ELSE r.crc]
  BY DEF JlStep
<1>0. /\ p.status \in Nat /\ p.dataLen \in Nat /\ MaxVoiceData \in Nat /\ p.crc \in Word
      /\ MaxJlData \in Nat /\ MaxJlData <= MaxVoiceData
  BY Fields, Sizes
<1>1. JlStored(p, b, r)
  BY JlStores
<1> HIDE DEF q, r, summed
<1> USE DEF JlStored
<1>2. CASE JlRejects(p, b) \/ JlComplete(p, b)
  <2>1. q = [r EXCEPT !.status = 0, !.crc = 0]
    BY <1>q, <1>2 DEF JlAgain
  <2>2. 0 \in 0..(MaxVoiceData + 6) /\ 0 \in Word
    BY <1>0, WordsAreNat
  <2>3. /\ q \in Parsers /\ q.status = 0 /\ q.crc = 0
        /\ q.target = r.target /\ q.dataLen = r.dataLen /\ q.buffer = r.buffer
    BY <1>1, <2>1, <2>2 DEF Parsers
  <2> QED
    BY <1>1, <1>2, <2>3 DEF Fits, JlStepped
<1>3. CASE ~(JlRejects(p, b) \/ JlComplete(p, b))
  <2>2. p.status >= 4 => p.status < p.dataLen + 5
    BY <1>0, <1>3 DEF JlRejects
  <2>3. p.status = 3 => r.dataLen <= MaxJlData
    BY <1>1, <1>3 DEF JlRejects, LengthAllowed
  <2>4. p.status + 1 <= MaxVoiceData + 6
    BY <1>0, <2>2 DEF Fits
  <2>5. PICK n \in 0..(MaxVoiceData + 6) : n = p.status + 1
    BY <1>0, <2>4
  <2>6. PICK c \in Word : c = IF summed THEN CrcByte(p.crc, b) ELSE p.crc
    BY <1>0, CrcByteType
  <2>7. q = [r EXCEPT !.status = n, !.crc = c]
    BY <1>q, <1>1, <1>3, <2>5, <2>6
  <2>8. /\ q \in Parsers /\ q.status = n /\ q.crc = c
        /\ q.target = r.target /\ q.dataLen = r.dataLen /\ q.buffer = r.buffer
    BY <1>1, <2>7 DEF Parsers
  <2>9. Fits(q)
    <3>0. r.dataLen \in Nat
      BY <1>1, Fields
    <3>1. CASE p.status < 3
      BY <1>0, <2>5, <2>8, <3>1 DEF Fits
    <3>2. CASE p.status = 3
      BY <1>0, <2>3, <2>8, <3>0, <3>2 DEF Fits
    <3>3. CASE p.status > 3
      <4>1. r.dataLen = p.dataLen /\ p.dataLen <= MaxVoiceData
        BY <1>0, <1>1, <3>3 DEF Fits
      <4> QED
        BY <2>8, <4>1 DEF Fits
    <3> QED
      BY <1>0, <3>1, <3>2, <3>3
  <2> QED
    BY <1>1, <1>3, <2>5, <2>6, <2>8, <2>9 DEF JlStepped, summed
<1> QED
  BY <1>2, <1>3

(* What the upgrade parser knows of the bytes t it has taken of a packet:   *)
(* the first byte of the checksum, once taken, is in target and not in crc. *)
JlReads(p, t) ==
    /\ p.status = Len(t)
    /\ Len(t) >= 1 => t[1] = 170
    /\ Len(t) >= 2 => t[2] = 85
    /\ Len(t) = 3 => p.dataLen = t[3]
    /\ Len(t) >= 4 => /\ p.dataLen = t[3] + 256 * t[4] /\ p.dataLen <= MaxJlData
                      /\ Len(t) <= p.dataLen + 5
    /\ \A i \in 5..Len(t) : i <= p.dataLen + 4 => p.buffer[i - 5] = t[i]
    /\ Len(t) <= 3 \/ Len(t) <= p.dataLen + 4 => p.crc = crc16_ccitt(t)
    /\ Len(t) >= 4 /\ Len(t) = p.dataLen + 5 =>
         \E s \in Seq(Byte) : t = Append(s, p.target) /\ p.crc = crc16_ccitt(s)

LEMMA JlReadsNone ==
  ASSUME NEW p \in Parsers, p.status = 0, p.crc = 0
  PROVE  JlReads(p, <<>>)
<1>1. p.dataLen \in Nat /\ Len(<<>>) = 0
  BY Fields
<1> QED
  BY <1>1, Crc16Empty DEF JlReads

LEMMA JlReadsFits ==
  ASSUME NEW p \in Parsers, NEW t \in Seq(Byte), JlReads(p, t)
  PROVE  Fits(p)
<1>1. PICK n \in Nat : n = Len(t) /\ p.status = n
  BY DEF JlReads
<1>2. n >= 4 => p.dataLen <= MaxJlData
  BY <1>1 DEF JlReads
<1> QED
  BY <1>1, <1>2, Fields, Sizes DEF Fits

LEMMA JlTakes ==
  ASSUME NEW p \in Parsers, NEW t \in Seq(Byte), JlReads(p, t), NEW b \in Byte
  PROVE  JlReads(JlStep(p, b), IF JlRejects(p, b) \/ JlComplete(p, b) THEN <<>>
                               ELSE Append(t, b))
<1> DEFINE q == JlStep(p, b)
           r == JlStore(p, b)
           u == Append(t, b)
<1>1. JlStored(p, b, r) /\ JlStepped(p, b, r, q)
  BY JlReadsFits, JlStores, JlSteps
<1>2. /\ u \in Seq(Byte) /\ Len(u) = Len(t) + 1 /\ u[Len(t) + 1] = b /\ Len(t) \in Nat
      /\ \A i \in 1..Len(t) : u[i] = t[i]
  BY Appended
<1>3. crc16_ccitt(u) = CrcByte(crc16_ccitt(t), b)
  BY Crc16Append
<1>4. CASE JlRejects(p, b) \/ JlComplete(p, b)
  <2>1. JlReads(q, <<>>)
    <3> HIDE DEF q, r
    <3>1. q \in Parsers /\ q.status = 0 /\ q.crc = 0
      BY <1>1, <1>4 DEF JlStepped
    <3> QED
      BY <3>1, JlReadsNone
  <2> QED
    BY <1>4, <2>1
<1>5. CASE ~(JlRejects(p, b) \/ JlComplete(p, b))
  <2>u. u = Append(t, b)
    OBVIOUS
  <2> HIDE DEF q, r, u
  <2>0. PICK n \in Nat : /\ Len(t) = n /\ Len(u) = n + 1 /\ p.status = n
                         /\ u[n + 1] = b /\ \A i \in 1..n : u[i] = t[i]
    BY <1>2 DEF JlReads
  <2>1. PICK d \in Nat : d = p.dataLen
    BY Fields
  <2>2. /\ n = 0 => b = 170
        /\ n = 1 => b = 85
        /\ n = 3 => Or(d, 256 * b) <= MaxJlData
        /\ n >= 4 => n < d + 5
    <3>1. ~JlRejects(p, b) /\ ~JlComplete(p, b)
      BY <1>5
    <3>2. ~(n >= 4 /\ n >= d + 5)
      BY <2>0, <2>1, <3>1 DEF JlRejects
    <3> QED
      BY <2>0, <2>1, <3>1, <3>2 DEF JlRejects, LengthAllowed
  <2>3. /\ q.status = n + 1 /\ q.dataLen = r.dataLen /\ q.buffer = r.buffer
        /\ q.target = r.target
    BY <1>1, <1>5, <2>0 DEF JlStepped
  <2>4. n + 1 >= 1 => u[1] = 170
    <3>1. CASE n = 0
      BY <2>0, <2>2, <3>1
    <3>2. CASE n > 0
      <4>1. u[1] = t[1]
        BY <2>0, <3>2
      <4> QED
        BY <2>0, <3>2, <4>1 DEF JlReads
    <3> QED
      BY <3>1, <3>2
  <2>5. n + 1 >= 2 => u[2] = 85
    <3>1. CASE n = 1
      BY <2>0, <2>2, <3>1
    <3>2. CASE n > 1
      <4>1. u[2] = t[2]
        BY <2>0, <3>2
      <4> QED
        BY <2>0, <3>2, <4>1 DEF JlReads
    <3> QED
      BY <3>1, <3>2
  <2>6. n + 1 = 3 => q.dataLen = u[3]
    <3> SUFFICES ASSUME n = 2 PROVE q.dataLen = u[3]
      OBVIOUS
    <3>1. u[3] = b /\ p.status = 2
      BY <2>0
    <3> QED
      BY <1>1, <2>3, <3>1 DEF JlStored
  <2>7. n >= 4 => q.dataLen = d
    <3> SUFFICES ASSUME n >= 4 PROVE q.dataLen = d
      OBVIOUS
    <3>1. p.status \notin {2, 3}
      BY <2>0
    <3> QED
      BY <1>1, <2>1, <2>3, <3>1 DEF JlStored
  <2>8. n + 1 >= 4 => /\ q.dataLen = u[3] + 256 * u[4] /\ q.dataLen <= MaxJlData
                      /\ n + 1 <= q.dataLen + 5
    <3>1. CASE n = 3
      <4>1. u[4] = b /\ u[3] = t[3] /\ d = t[3] /\ t[3] \in Byte
        <5>1. 3 \in 1..Len(t) /\ 3 \in 1..n /\ n + 1 = 4
          BY <2>0, <3>1
        <5>2. d = t[3]
          BY <2>0, <2>1, <3>1 DEF JlReads
        <5>3. t[3] \in Byte
          BY <5>1, At
        <5> QED
          BY <2>0, <5>1, <5>2, <5>3
      <4>2. q.dataLen = Or(d, 256 * b)
        BY <1>1, <2>0, <2>1, <2>3, <3>1 DEF JlStored
      <4>3. q.dataLen = u[3] + 256 * u[4] /\ q.dataLen <= MaxJlData
        BY <2>2, <3>1, <4>1, <4>2, OrJoins
      <4>4. q.dataLen \in Nat
        BY <4>1, <4>3, Joined, WordsAreNat
      <4> QED
        BY <3>1, <4>3, <4>4
    <3>2. CASE n > 3
      <4>1. u[3] = t[3] /\ u[4] = t[4]
        BY <2>0, <3>2
      <4>2. d = t[3] + 256 * t[4] /\ d <= MaxJlData
        BY <2>0, <2>1, <3>2 DEF JlReads
      <4> QED
        BY <2>2, <2>7, <3>2, <4>1, <4>2
    <3> QED
      BY <3>1, <3>2
  <2>9. \A i \in 5..(n + 1) : i <= q.dataLen + 4 => q.buffer[i - 5] = u[i]
    <3>0. /\ p.buffer \in [0..(BufferLen - 1) -> Byte] /\ BufferLen - 1 = MaxVoiceData + 1
          /\ MaxVoiceData \in Nat /\ MaxJlData \in Nat /\ MaxJlData <= MaxVoiceData
      BY Fields, Sizes
    <3> SUFFICES ASSUME NEW i \in 5..(n + 1), i <= q.dataLen + 4
                 PROVE  q.buffer[i - 5] = u[i]
      OBVIOUS
    <3>1. n >= 4 /\ q.dataLen = d /\ d <= MaxJlData /\ n < d + 5
      BY <2>0, <2>1, <2>2, <2>7 DEF JlReads
    <3>2. \A j \in 5..n : j <= d + 4 => p.buffer[j - 5] = t[j]
      BY <2>0, <2>1 DEF JlReads
    <3>3. CASE i = n + 1
      <4>1. n \in 4..(d + 3)
        BY <3>1, <3>3
      <4>2. q.buffer = [p.buffer EXCEPT ![n - 4] = b]
        BY <1>1, <2>0, <2>1, <2>3, <4>1 DEF JlStored
      <4>3. n - 4 \in 0..(BufferLen - 1) /\ i - 5 = n - 4
        BY <3>0, <3>1, <3>3, <4>1
      <4> QED
        BY <2>0, <3>0, <3>3, <4>2, <4>3
    <3>4. CASE i # n + 1
      <4>1. i \in 5..n /\ i \in 1..n /\ i - 5 \in 0..(BufferLen - 1) /\ i - 5 # n - 4
        BY <3>0, <3>1, <3>4
      <4>2. p.buffer[i - 5] = t[i] /\ u[i] = t[i]
        BY <2>0, <3>1, <3>2, <4>1
      <4>3. q.buffer[i - 5] = p.buffer[i - 5]
        <5>1. CASE n \in 4..(d + 3)
          <6>1. q.buffer = [p.buffer EXCEPT ![n - 4] = b]
            BY <1>1, <2>0, <2>1, <2>3, <5>1 DEF JlStored
          <6> QED
            BY <3>0, <4>1, <6>1
        <5>2. CASE n \notin 4..(d + 3)
          <6>1. n > d + 3
            BY <3>1, <5>2
          <6> QED
            BY <1>1, <2>0, <2>1, <2>3, <6>1 DEF JlStored
        <5> QED
          BY <5>1, <5>2
      <4> QED
        BY <4>2, <4>3
    <3> QED
      BY <3>3, <3>4
  <2>10. n + 1 <= 3 \/ n + 1 <= q.dataLen + 4 => q.crc = crc16_ccitt(u)
    <3> SUFFICES ASSUME n + 1 <= 3 \/ n + 1 <= q.dataLen + 4 PROVE q.crc = crc16_ccitt(u)
      OBVIOUS
    <3>0. r.dataLen \in Nat
      BY <1>1, Fields DEF JlStored
    <3>1. n <= 3 \/ n < r.dataLen + 4
      BY <2>3, <3>0
    <3>2. n <= 3 \/ n <= d + 4
      BY <2>2
    <3>3. p.crc = crc16_ccitt(t)
      BY <2>0, <2>1, <3>2 DEF JlReads
    <3>4. q.crc = CrcByte(p.crc, b)
      BY <1>1, <1>5, <2>0, <3>1 DEF JlStepped
    <3> QED
      BY <1>3, <3>3, <3>4
  <2>11. n + 1 >= 4 /\ n + 1 = q.dataLen + 5 =>
            \E s \in Seq(Byte) : u = Append(s, q.target) /\ q.crc = crc16_ccitt(s)
    <3> SUFFICES ASSUME n + 1 >= 4, n + 1 = q.dataLen + 5
                 PROVE  u = Append(t, q.target) /\ q.crc = crc16_ccitt(t)
      OBVIOUS
    <3>0. q.dataLen \in Nat
      BY <1>1, Fields DEF JlStepped
    <3>1. n >= 4 /\ n = d + 4
      BY <2>7, <3>0
    <3>2. q.target = b
      BY <1>1, <2>0, <2>1, <2>3, <3>1 DEF JlStored
    <3>3. p.crc = crc16_ccitt(t)
      <4>1. n <= d + 4
        BY <3>1
      <4> QED
        BY <2>0, <2>1, <4>1 DEF JlReads
    <3>4. q.crc = p.crc
      <4>1. r.dataLen = d
        BY <2>3, <2>7, <3>1
      <4>2. ~(n <= 3 \/ n < r.dataLen + 4)
        BY <3>1, <4>1
      <4> QED
        BY <1>1, <1>5, <2>0, <4>2 DEF JlStepped
    <3> QED
      BY <2>u, <3>2, <3>3, <3>4
  <2>12. JlReads(q, u)
    BY <2>0, <2>3, <2>4, <2>5, <2>6, <2>8, <2>9, <2>10, <2>11 DEF JlReads
  <2> QED
    BY <1>5, <2>12 DEF q, u
<1> QED
  BY <1>4, <1>5

(* The checksums are a byte and a word.                                     *)
LEMMA Sum8Type == ASSUME NEW s \in Seq(Byte) PROVE Sum8(s) \in Byte
<1>1. PICK f : /\ f[0] = 0 /\ Sum8(s) = f[Len(s)]
               /\ \A n \in 1..Len(s) : f[n] = (f[n - 1] + s[n]) % 256
  BY Sum8Def
<1>2. PICK l \in Nat : l = Len(s)
  OBVIOUS
<1> DEFINE T == {n \in Nat : n <= l => f[n] \in Byte}
<1>3. 0 \in T
  BY <1>1, WordsAreNat
<1>4. ASSUME NEW n \in Nat, n \in T PROVE n + 1 \in T
  <2> SUFFICES ASSUME n + 1 <= l PROVE f[n + 1] \in Byte
    OBVIOUS
  <2>1. n + 1 \in 1..Len(s) /\ (n + 1) - 1 = n /\ f[n] \in Byte
    BY <1>2, <1>4
  <2>2. s[n + 1] \in Byte
    BY <2>1, At
  <2> QED
    BY <1>1, <2>1, <2>2, Mod256
<1>5. \A n \in Nat : n \in T
  <2> HIDE DEF T
  <2> QED
    BY <1>3, <1>4, SetInduction
<1> QED
  BY <1>1, <1>2, <1>5

LEMMA Crc16Type == ASSUME NEW s \in Seq(Byte) PROVE crc16_ccitt(s) \in Word
<1>1. PICK f : /\ f[0] = 0 /\ crc16_ccitt(s) = f[Len(s)]
               /\ \A n \in 1..Len(s) : f[n] = CrcByte(f[n - 1], s[n])
  BY Crc16Def
<1>2. PICK l \in Nat : l = Len(s)
  OBVIOUS
<1> DEFINE T == {n \in Nat : n <= l => f[n] \in Word}
<1>3. 0 \in T
  BY <1>1, WordsAreNat
<1>4. ASSUME NEW n \in Nat, n \in T PROVE n + 1 \in T
  <2> SUFFICES ASSUME n + 1 <= l PROVE f[n + 1] \in Word
    OBVIOUS
  <2>1. n + 1 \in 1..Len(s) /\ (n + 1) - 1 = n /\ f[n] \in Word
    BY <1>2, <1>4
  <2>2. s[n + 1] \in Byte
    BY <2>1, At
  <2> QED
    BY <1>1, <2>1, <2>2, CrcByteType
<1>5. \A n \in Nat : n \in T
  <2> HIDE DEF T
  <2> QED
    BY <1>3, <1>4, SetInduction
<1> QED
  BY <1>1, <1>2, <1>5

(* The layout of an upgrade packet with the message m, before its checksum. *)
JlBody(m, body) ==
    /\ body \in Seq(Byte) /\ Len(body) = Len(m) + 4
    /\ body[1] = 170 /\ body[2] = 85
    /\ body[3] = LowByte(Len(m)) /\ body[4] = HighByte(Len(m))
    /\ \A i \in 5..Len(body) : body[i] = m[i - 4]

JlChecked(body) ==
    Append(Append(body, LowByte(crc16_ccitt(body))), HighByte(crc16_ccitt(body)))

LEMMA TwoMore ==
  ASSUME NEW s \in Seq(Byte), NEW x \in Byte, NEW y \in Byte
  PROVE  s \o <<x, y>> = Append(Append(s, x), y)
  OBVIOUS

LEMMA JlLayout ==
  ASSUME NEW m \in Seq(Byte), NEW k \in Word, Len(m) = k
  PROVE  \E body : JlBody(m, body) /\ Encode("jl", m) = JlChecked(body)
<1> DEFINE head == <<170, 85, LowByte(Len(m)), HighByte(Len(m))>>
           body == head \o m
           crc == crc16_ccitt(body)
<1>0. k \in Nat /\ HighByte(k) \in Byte /\ LowByte(k) \in Byte
  BY WordsAreNat, Halves
<1>1. 85 \in Byte /\ 170 \in Byte
  BY DEF Byte
<1>2. Encode("jl", m) = body \o <<LowByte(crc), HighByte(crc)>>
  BY DEF Encode, EncodeJl
<1>3. head \in Seq(Byte) /\ Len(head) = 4
  BY <1>0, <1>1
<1>4. /\ head[1] = 170 /\ head[2] = 85 /\ head[3] = LowByte(Len(m))
      /\ head[4] = HighByte(Len(m))
  OBVIOUS
<1> HIDE DEF head
<1>5. /\ body \in Seq(Byte) /\ Len(body) = k + 4
      /\ \A i \in 1..4 : body[i] = head[i]
      /\ \A i \in 5..(k + 4) : body[i] = m[i - 4]
  <2>1. /\ body \in Seq(Byte) /\ Len(body) = Len(head) + Len(m)
        /\ \A i \in 1..Len(head) : body[i] = head[i]
        /\ \A i \in (Len(head) + 1)..(Len(head) + Len(m)) : body[i] = m[i - Len(head)]
    BY <1>3, Joint
  <2>2. Len(head) = 4 /\ 4 + k = k + 4 /\ 4 + 1 = 5
    BY <1>0, <1>3
  <2> HIDE DEF body
  <2> QED
    BY <2>1, <2>2
<1> HIDE DEF body, crc
<1>6. JlBody(m, body)
  BY <1>0, <1>4, <1>5 DEF JlBody
<1>7. LowByte(crc) \in Byte /\ HighByte(crc) \in Byte
  BY <1>5, Crc16Type, Halves DEF crc
<1>8. Encode("jl", m) = JlChecked(body)
  BY <1>2, <1>5, <1>7, TwoMore DEF JlChecked, crc
<1> QED
  BY <1>6, <1>8

(* A packet is complete: the bytes taken are the packet of the message.     *)
LEMMA JlGenuine ==
  ASSUME NEW p \in Parsers, NEW t \in Seq(Byte), JlReads(p, t), NEW b \in Byte,
         JlComplete(p, b)
  PROVE  Append(t, b) = Encode("jl", Stored(p, p.dataLen))
<1> DEFINE k == p.dataLen
           m == Stored(p, k)
<1>0. /\ k \in Word /\ k \in Nat /\ MaxVoiceData \in Nat /\ BufferLen = MaxVoiceData + 2
      /\ MaxJlData \in Nat /\ MaxJlData <= MaxVoiceData /\ p.status \in Nat
  BY Fields, Sizes
<1>1. p.status = k + 5 /\ Or(p.target, 256 * b) = p.crc
  BY DEF JlComplete
<1>2. Len(t) = k + 5
  BY <1>1 DEF JlReads
<1>3. /\ t[1] = 170 /\ t[2] = 85 /\ k = t[3] + 256 * t[4] /\ k <= MaxJlData
      /\ \A i \in 5..(k + 5) : i <= k + 4 => p.buffer[i - 5] = t[i]
      /\ \E s \in Seq(Byte) : t = Append(s, p.target) /\ p.crc = crc16_ccitt(s)
  <2>1. k + 5 >= 4 /\ k + 5 >= 2 /\ k + 5 >= 1
    BY <1>0
  <2> QED
    BY <1>2, <2>1 DEF JlReads
<1>4. PICK s \in Seq(Byte) : t = Append(s, p.target) /\ p.crc = crc16_ccitt(s)
  BY <1>3
<1>5. Len(s) = k + 4 /\ (\A i \in 1..(k + 4) : t[i] = s[i]) /\ t[k + 5] = p.target
  <2>1. PICK l \in Nat : Len(s) = l
    OBVIOUS
  <2>2. Len(t) = l + 1 /\ t[l + 1] = p.target /\ \A i \in 1..l : t[i] = s[i]
    BY <1>4, <2>1
  <2>3. l = k + 4 /\ l + 1 = k + 5
    BY <1>0, <1>2, <2>2
  <2> QED
    BY <2>1, <2>2, <2>3
<1>6. p.target \in Byte
  <2>1. k + 5 \in 1..Len(t)
    BY <1>0, <1>2
  <2> QED
    BY <1>5, <2>1, At
<1>7. LowByte(crc16_ccitt(s)) = p.target /\ HighByte(crc16_ccitt(s)) = b
  BY <1>1, <1>4, <1>6, OrJoins, Joined
<1>a. k <= MaxJlData
  BY <1>3, Zenon
<1>b. k = t[3] + 256 * t[4]
  BY <1>3, Zenon
<1>c. t[1] = 170 /\ t[2] = 85
  BY <1>3, Zenon
<1>8. k <= BufferLen
  BY <1>0, <1>a
<1>9. m \in Seq(Byte) /\ Len(m) = k /\ \A i \in 1..k : m[i] = p.buffer[i - 1]
  BY <1>0, <1>8, StoredIsSeq
<1> HIDE DEF m
<1>10. PICK body : JlBody(m, body) /\ Encode("jl", m) = JlChecked(body)
  BY <1>0, <1>9, JlLayout
<1>11. LowByte(k) = t[3] /\ HighByte(k) = t[4]
  <2>1. 3 \in 1..Len(t) /\ 4 \in 1..Len(t)
    BY <1>0, <1>2
  <2>2. t[3] \in Byte /\ t[4] \in Byte
    BY <2>1, At
  <2> QED
    BY <1>b, <2>2, Joined
<1>12. ASSUME NEW i \in 5..(k + 4) PROVE m[i - 4] = t[i]
  <2>1. i - 4 \in 1..k /\ (i - 4) - 1 = i - 5 /\ i \in 5..(k + 5) /\ i <= k + 4
    BY <1>0
  <2>2. m[i - 4] = p.buffer[(i - 4) - 1]
    BY <1>9, <2>1
  <2>3. p.buffer[i - 5] = t[i]
    BY <1>3, <2>1, Zenon
  <2> QED
    BY <2>1, <2>2, <2>3
<1>13. body \in Seq(Byte) /\ Len(body) = k + 4 /\ \A i \in 1..(k + 4) : body[i] = t[i]
  <2>1. /\ body \in Seq(Byte) /\ Len(body) = k + 4
        /\ body[1] = t[1] /\ body[2] = t[2] /\ body[3] = t[3] /\ body[4] = t[4]
        /\ \A i \in 5..(k + 4) : body[i] = t[i]
    BY <1>c, <1>9, <1>10, <1>11, <1>12 DEF JlBody
  <2>2. \A i \in 1..(k + 4) : i \in {1, 2, 3, 4} \/ i \in 5..(k + 4)
    BY <1>0
  <2> QED
    BY <2>1, <2>2
<1>14. body = s
  BY <1>5, <1>13, SameBytes
<1> QED
  BY <1>4, <1>7, <1>10, <1>14 DEF m, JlChecked

(* The bytes of a packet that come in its order are not given up, and the   *)
(* last one completes it, with its message.                                 *)
LEMMA JlClean ==
  ASSUME NEW p \in Parsers, NEW t \in Seq(Byte), JlReads(p, t), NEW b \in Byte,
         NEW m \in Seq(Byte), NEW k \in Word, Len(m) = k, k <= MaxJlData,
         NEW body, JlBody(m, body),
         NEW lo \in Byte, NEW hi \in Byte, crc16_ccitt(body) = lo + 256 * hi,
         Len(t) <= Len(body) + 1,
         \A i \in 1..Len(t) : t[i] = IF i <= Len(body) THEN body[i] ELSE lo,
         Len(t) < Len(body) => b = body[Len(t) + 1],
         Len(t) = Len(body) + 1 => b = hi
  PROVE  /\ ~JlRejects(p, b)
         /\ JlComplete(p, b) <=> Len(t) = Len(body) + 1
         /\ JlComplete(p, b) => Stored(p, p.dataLen) = m
<1>0. /\ k \in Nat /\ p.status \in Nat /\ p.dataLen \in Nat /\ BufferLen = MaxVoiceData + 2
      /\ MaxVoiceData \in Nat /\ MaxJlData \in Nat /\ MaxJlData <= MaxVoiceData
  BY Fields, Sizes, WordsAreNat
<1>2. /\ body \in Seq(Byte) /\ Len(body) = k + 4 /\ body[1] = 170 /\ body[2] = 85
      /\ body[3] = LowByte(k) /\ body[4] = HighByte(k)
      /\ \A i \in 5..(k + 4) : body[i] = m[i - 4]
  BY DEF JlBody
<1>3. PICK n \in Nat : Len(t) = n /\ p.status = n
  BY DEF JlReads
<1>4. /\ n <= k + 5 /\ \A i \in 1..n : t[i] = IF i <= k + 4 THEN body[i] ELSE lo
      /\ n < k + 4 => b = body[n + 1]
      /\ n = k + 5 => b = hi
  <2>1. (k + 4) + 1 = k + 5
    BY <1>0
  <2> QED
    BY <1>2, <1>3, <2>1
<1>5. /\ HighByte(k) \in Byte /\ LowByte(k) \in Byte
      /\ k = LowByte(k) + 256 * HighByte(k)
  BY Halves, Turned
<1>6. n = 3 => Or(p.dataLen, 256 * b) = k
  <2> SUFFICES ASSUME n = 3 PROVE Or(p.dataLen, 256 * b) = k
    OBVIOUS
  <2>1. p.dataLen = t[3] /\ t[3] = body[3]
    BY <1>0, <1>3, <1>4 DEF JlReads
  <2>2. b = body[4]
    BY <1>0, <1>4
  <2> QED
    BY <1>2, <1>5, <2>1, <2>2, OrJoins
<1>7. n >= 4 => p.dataLen = k
  <2> SUFFICES ASSUME n >= 4 PROVE p.dataLen = k
    OBVIOUS
  <2>1. p.dataLen = t[3] + 256 * t[4]
    BY <1>3 DEF JlReads
  <2>2. t[3] = body[3] /\ t[4] = body[4]
    BY <1>0, <1>4
  <2> QED
    BY <1>2, <1>5, <2>1, <2>2
<1>8. n = k + 5 => Or(p.target, 256 * b) = p.crc
  <2> SUFFICES ASSUME n = k + 5 PROVE Or(p.target, 256 * b) = p.crc
    OBVIOUS
  <2>1. n >= 4 /\ n = p.dataLen + 5
    BY <1>0, <1>7
  <2>2. PICK s \in Seq(Byte) : t = Append(s, p.target) /\ p.crc = crc16_ccitt(s)
    BY <1>3, <2>1 DEF JlReads
  <2>3. Len(s) = k + 4 /\ (\A i \in 1..(k + 4) : t[i] = s[i]) /\ t[k + 5] = p.target
    <3>1. PICK l \in Nat : Len(s) = l
      OBVIOUS
    <3>2. Len(t) = l + 1 /\ t[l + 1] = p.target /\ \A i \in 1..l : t[i] = s[i]
      BY <2>2, <3>1
    <3>3. l = k + 4 /\ l + 1 = k + 5
      BY <1>0, <1>3, <3>2
    <3> QED
      BY <3>1, <3>2, <3>3
  <2>4. \A i \in 1..(k + 4) : s[i] = body[i]
    BY <1>0, <1>4, <2>3
  <2>5. s = body
    BY <1>2, <2>3, <2>4, SameBytes
  <2>6. p.target = lo
    BY <1>0, <1>4, <2>3
  <2> QED
    BY <1>4, <2>2, <2>5, <2>6, OrJoins
<1>9. JlComplete(p, b) <=> n = k + 5
  <2>1. n = k + 5 => JlComplete(p, b)
    BY <1>0, <1>3, <1>7, <1>8 DEF JlComplete
  <2>2. JlComplete(p, b) => n = k + 5
    BY <1>0, <1>3, <1>7 DEF JlComplete
  <2> QED
    BY <2>1, <2>2
<1>10. ~JlRejects(p, b)
  <2>1. n = 0 => b = 170
    <3>1. n = 0 => n < k + 4 /\ n + 1 = 1
      BY <1>0
    <3> QED
      BY <1>2, <1>4, <3>1
  <2>2. n = 1 => b = 85
    BY <1>0, <1>2, <1>4
  <2>3. n = 3 => LengthAllowed(Or(p.dataLen, 256 * b), MaxJlData)
    BY <1>6 DEF LengthAllowed
  <2>4. n >= 4 /\ n >= p.dataLen + 5 => JlComplete(p, b)
    BY <1>0, <1>4, <1>7, <1>9
  <2> QED
    BY <1>3, <2>1, <2>2, <2>3, <2>4 DEF JlRejects
<1>11. n = k + 5 => Stored(p, p.dataLen) = m
  <2> SUFFICES ASSUME n = k + 5 PROVE Stored(p, k) = m
    BY <1>0, <1>7
  <2>1. k <= BufferLen
    BY <1>0
  <2>2. /\ Stored(p, k) \in Seq(Byte) /\ Len(Stored(p, k)) = k
        /\ \A i \in 1..k : Stored(p, k)[i] = p.buffer[i - 1]
    BY <1>0, <2>1, StoredIsSeq
  <2>3. \A i \in 5..n : i <= k + 4 => p.buffer[i - 5] = t[i]
    BY <1>0, <1>3, <1>7 DEF JlReads
  <2>4. ASSUME NEW i \in 1..k PROVE p.buffer[i - 1] = m[i]
    <3>1. /\ i + 4 \in 5..(k + 4) /\ i + 4 \in 5..n /\ i + 4 \in 1..n /\ i + 4 <= k + 4
          /\ (i + 4) - 5 = i - 1 /\ (i + 4) - 4 = i
      BY <1>0
    <3>2. body[i + 4] = m[(i + 4) - 4] /\ t[i + 4] = body[i + 4]
      BY <1>2, <1>4, <3>1
    <3>3. p.buffer[(i + 4) - 5] = t[i + 4]
      BY <2>3, <3>1
    <3> QED
      BY <3>1, <3>2, <3>3
  <2> QED
    BY <2>2, <2>4, SameBytes
<1> QED
  <2>1. (k + 4) + 1 = k + 5
    BY <1>0
  <2> QED
    BY <1>2, <1>3, <1>9, <1>10, <1>11, <2>1

(* The byte that completes a frame changes nothing of its message.          *)
LEMMA VoiceKeeps ==
  ASSUME NEW p \in Parsers, Fits(p), NEW b \in Byte, VoiceComplete(p, b), NEW q,
         q = VoiceStep(p, b)
  PROVE  q.dataLen = p.dataLen /\ q.buffer = p.buffer
<1>0. p.status \in Nat /\ p.dataLen \in Nat
  BY Fields
<1>1. p.status >= 6 /\ p.status = p.dataLen + 6
  BY DEF VoiceComplete
<1>2. p.status # 3 /\ p.status \notin {2, 3} /\ p.status > p.dataLen + 5
  BY <1>0, <1>1
<1>3. VoiceStored(p, b, VoiceStore(p, b)) /\ VoiceStepped(p, b, VoiceStore(p, b), q)
  BY <1>2, VoiceStores, VoiceSteps
<1> QED
  BY <1>1, <1>2, <1>3 DEF VoiceStored, VoiceStepped

LEMMA JlKeeps ==
  ASSUME NEW p \in Parsers, Fits(p), NEW b \in Byte, JlComplete(p, b), NEW q,
         q = JlStep(p, b)
  PROVE  q.dataLen = p.dataLen /\ q.buffer = p.buffer
<1>0. p.status \in Nat /\ p.dataLen \in Nat
  BY Fields
<1>1. p.status >= 4 /\ p.status = p.dataLen + 5
  BY DEF JlComplete
<1>2. p.status \notin {2, 3} /\ p.status > p.dataLen + 3
  BY <1>0, <1>1
<1>3. JlStored(p, b, JlStore(p, b)) /\ JlStepped(p, b, JlStore(p, b), q)
  BY JlStores, JlSteps
<1> QED
  BY <1>2, <1>3 DEF JlStored, JlStepped

-----------------------------------------------------------------------------
(* The bytes t are the last ones of s.                                      *)
Ends(s, t) == Len(t) <= Len(s) /\ \A i \in 1..Len(t) : t[i] = s[Len(s) - Len(t) + i]

LEMMA EndsNone == ASSUME NEW s \in Seq(Byte) PROVE Ends(s, <<>>)
  BY DEF Ends

LEMMA EndsSuffix ==
  ASSUME NEW s \in Seq(Byte), NEW t \in Seq(Byte), Ends(s, t)
  PROVE  IsSuffix(t, s)
<1>1. PICK n \in Nat, l \in Nat : n = Len(t) /\ l = Len(s)
  OBVIOUS
<1>2. n <= l /\ \A i \in 1..n : t[i] = s[l - n + i]
  BY <1>1 DEF Ends
<1> DEFINE rt == [i \in 1..n |-> t[(n - i) + 1]]
           rs == [i \in 1..l |-> s[(l - i) + 1]]
<1>3. Reverse(t) = rt /\ Reverse(s) = rs
  BY <1>1 DEF Reverse
<1>4. \A i \in 1..n : (n - i) + 1 \in 1..Len(t)
  BY <1>1
<1>5. rt \in Seq(Byte) /\ Len(rt) = n /\ \A i \in 1..n : rt[i] = t[(n - i) + 1]
  <2>1. \A i \in 1..n : t[(n - i) + 1] \in Byte
    BY <1>4, At
  <2> QED
    BY <2>1
<1>6. \A i \in 1..l : (l - i) + 1 \in 1..Len(s)
  BY <1>1
<1>7. rs \in Seq(Byte) /\ Len(rs) = l /\ \A i \in 1..l : rs[i] = s[(l - i) + 1]
  <2>1. \A i \in 1..l : s[(l - i) + 1] \in Byte
    BY <1>6, At
  <2> QED
    BY <2>1
<1> HIDE DEF rs, rt
<1>8. ASSUME NEW i \in 1..n PROVE rt[i] = rs[i]
  <2>1. i \in 1..l /\ (n - i) + 1 \in 1..n /\ l - n + ((n - i) + 1) = (l - i) + 1
    BY <1>2
  <2>2. t[(n - i) + 1] = s[l - n + ((n - i) + 1)]
    BY <1>2, <2>1
  <2> QED
    BY <1>5, <1>7, <2>1, <2>2
<1>9. /\ SubSeq(rt, 1, n) \in Seq(Byte) /\ Len(SubSeq(rt, 1, n)) = n
      /\ \A i \in 1..n : SubSeq(rt, 1, n)[i] = rt[i]
  BY <1>5
<1>10. /\ SubSeq(rs, 1, n) \in Seq(Byte) /\ Len(SubSeq(rs, 1, n)) = n
       /\ \A i \in 1..n : SubSeq(rs, 1, n)[i] = rs[i]
  BY <1>2, <1>7
<1>11. SubSeq(rt, 1, n) = SubSeq(rs, 1, n)
  BY <1>8, <1>9, <1>10, SameBytes
<1> QED
  BY <1>2, <1>3, <1>5, <1>7, <1>11 DEF IsSuffix, IsPrefix

(* The window holds the last bytes, as many as the longest frame has.       *)
LEMMA WindowEnds ==
  ASSUME NEW s \in Seq(Byte), NEW t \in Seq(Byte), Ends(s, t), NEW b \in Byte,
         Len(t) <= MaxVoiceData + 6
  PROVE  /\ Window(Append(s, b)) \in Seq(Byte)
         /\ Ends(Window(Append(s, b)), Append(t, b))
<1> DEFINE v == Append(s, b)
           u == Append(t, b)
           w == Window(v)
<1>0. PICK m \in Nat : m = MaxVoiceData
  BY Sizes
<1>1. PICK n \in Nat, l \in Nat : n = Len(t) /\ l = Len(s)
  OBVIOUS
<1>2. n <= l /\ n <= m + 6 /\ \A i \in 1..n : t[i] = s[l - n + i]
  BY <1>0, <1>1 DEF Ends
<1>3. /\ v \in Seq(Byte) /\ Len(v) = l + 1 /\ v[l + 1] = b /\ \A i \in 1..l : v[i] = s[i]
      /\ u \in Seq(Byte) /\ Len(u) = n + 1 /\ u[n + 1] = b /\ \A i \in 1..n : u[i] = t[i]
  BY <1>1, Appended
<1> HIDE DEF u, v
<1>4. ASSUME NEW i \in 1..(n + 1) PROVE u[i] = v[l - n + i]
  <2>1. CASE i = n + 1
    <3>1. l - n + i = l + 1
      BY <2>1
    <3> QED
      BY <1>3, <2>1, <3>1
  <2>2. CASE i # n + 1
    <3>1. i \in 1..n /\ l - n + i \in 1..l
      BY <1>2, <2>2
    <3> QED
      BY <1>2, <1>3, <3>1
  <2> QED
    BY <2>1, <2>2
<1>5. CASE l + 1 <= m + 7
  <2>1. w = v
    BY <1>0, <1>3, <1>5 DEF Window
  <2>2. n + 1 <= l + 1 /\ (l + 1) - (n + 1) = l - n
    BY <1>2
  <2> HIDE DEF w
  <2>3. Ends(w, u)
    BY <1>3, <1>4, <2>1, <2>2 DEF Ends
  <2> QED
    BY <1>3, <2>1, <2>3 DEF u, v, w
<1>6. CASE ~(l + 1 <= m + 7)
  <2>1. w = Tail(v)
    BY <1>0, <1>3, <1>6 DEF Window
  <2>2. Tail(v) \in Seq(Byte) /\ Len(Tail(v)) = l /\ \A i \in 1..l : Tail(v)[i] = v[i + 1]
    BY <1>3, TailOf
  <2> HIDE DEF w
  <2>3. n + 1 <= l
    BY <1>2, <1>6
  <2>4. ASSUME NEW i \in 1..(n + 1) PROVE u[i] = w[l - (n + 1) + i]
    <3>1. l - (n + 1) + i \in 1..l /\ (l - (n + 1) + i) + 1 = l - n + i
      BY <2>3
    <3> QED
      BY <1>4, <2>1, <2>2, <3>1
  <2>5. Ends(w, u)
    BY <1>3, <2>1, <2>2, <2>3, <2>4 DEF Ends
  <2> QED
    BY <2>1, <2>2, <2>5 DEF u, v, w
<1> QED
  BY <1>5, <1>6

(* The next byte of a frame of which t was taken and l is to come.          *)
LEMMA NextByte ==
  ASSUME NEW t \in Seq(Byte), NEW l \in Seq(Byte), l # <<>>
  PROVE  /\ Head(l) \in Byte /\ Tail(l) \in Seq(Byte)
         /\ t \o l \in Seq(Byte) /\ Len(t) + 1 <= Len(t \o l)
         /\ \A i \in 1..Len(t) : (t \o l)[i] = t[i]
         /\ (t \o l)[Len(t) + 1] = Head(l)
         /\ t \o l = Append(t, Head(l)) \o Tail(l)
         /\ Tail(l) = <<>> <=> Len(t \o l) = Len(t) + 1
<1> DEFINE e == t \o l
           u == Append(t, Head(l))
           r == Tail(l)
           d == u \o r
<1>1. Head(l) \in Byte /\ Head(l) = l[1]
  OBVIOUS
<1>2. PICK n \in Nat, k \in Nat : n = Len(t) /\ k + 1 = Len(l)
  <2>1. PICK n \in Nat, j \in Nat : n = Len(t) /\ j = Len(l) /\ j # 0
    OBVIOUS
  <2>2. j - 1 \in Nat /\ (j - 1) + 1 = j
    BY <2>1
  <2> QED
    BY <2>1, <2>2
<1>3. /\ r \in Seq(Byte) /\ Len(r) = k /\ \A i \in 1..k : r[i] = l[i + 1]
      /\ r = <<>> <=> k = 0
  BY <1>2, TailOf
<1>4. /\ u \in Seq(Byte) /\ Len(u) = n + 1 /\ u[n + 1] = Head(l)
      /\ \A i \in 1..n : u[i] = t[i]
  BY <1>1, <1>2, Appended
<1>5. k + 1 \in Nat /\ n + 1 \in Nat /\ n + (k + 1) = (n + 1) + k
  OBVIOUS
<1>6. /\ e \in Seq(Byte) /\ Len(e) = n + (k + 1)
      /\ \A i \in 1..n : e[i] = t[i]
      /\ \A i \in (n + 1)..(n + (k + 1)) : e[i] = l[i - n]
  <2>1. /\ e \in Seq(Byte) /\ Len(e) = Len(t) + Len(l)
        /\ \A i \in 1..Len(t) : e[i] = t[i]
        /\ \A i \in (Len(t) + 1)..(Len(t) + Len(l)) : e[i] = l[i - Len(t)]
    BY Joint
  <2> HIDE DEF e
  <2> QED
    BY <1>2, <2>1
<1> HIDE DEF u, r
<1>7. /\ d \in Seq(Byte) /\ Len(d) = (n + 1) + k
      /\ \A i \in 1..(n + 1) : d[i] = u[i]
      /\ \A i \in ((n + 1) + 1)..((n + 1) + k) : d[i] = r[i - (n + 1)]
  <2>1. /\ d \in Seq(Byte) /\ Len(d) = Len(u) + Len(r)
        /\ \A i \in 1..Len(u) : d[i] = u[i]
        /\ \A i \in (Len(u) + 1)..(Len(u) + Len(r)) : d[i] = r[i - Len(u)]
    BY <1>3, <1>4, Joint
  <2> HIDE DEF d
  <2> QED
    BY <1>3, <1>4, <2>1
<1> HIDE DEF e, d
<1>8. e[n + 1] = Head(l)
  <2>1. n + 1 \in (n + 1)..(n + (k + 1)) /\ (n + 1) - n = 1
    OBVIOUS
  <2> QED
    BY <1>1, <1>6, <2>1
<1>9. ASSUME NEW i \in 1..((n + 1) + k) PROVE e[i] = d[i]
  <2>1. CASE i \in 1..n
    <3>1. i \in 1..(n + 1)
      BY <2>1
    <3> QED
      BY <1>4, <1>6, <1>7, <2>1, <3>1
  <2>2. CASE i = n + 1
    <3>1. n + 1 \in 1..(n + 1)
      OBVIOUS
    <3> QED
      BY <1>4, <1>7, <1>8, <2>2, <3>1
  <2>3. CASE i \in ((n + 1) + 1)..((n + 1) + k)
    <3>1. i \in (n + 1)..(n + (k + 1)) /\ i - (n + 1) \in 1..k /\ (i - (n + 1)) + 1 = i - n
      BY <2>3
    <3>2. d[i] = r[i - (n + 1)]
      BY <1>7, <2>3
    <3>3. r[i - (n + 1)] = l[i - n]
      BY <1>3, <3>1
    <3>4. e[i] = l[i - n]
      BY <1>6, <3>1
    <3> QED
      BY <3>2, <3>3, <3>4
  <2>4. i \in 1..n \/ i = n + 1 \/ i \in ((n + 1) + 1)..((n + 1) + k)
    OBVIOUS
  <2> QED
    BY <2>1, <2>2, <2>3, <2>4
<1>10. e = d
  BY <1>5, <1>6, <1>7, <1>9, SameBytes
<1>11. r = <<>> <=> n + (k + 1) = n + 1
  BY <1>3
<1>12. n + 1 <= n + (k + 1)
  OBVIOUS
<1>13. /\ e \in Seq(Byte) /\ Len(t) + 1 <= Len(e)
       /\ \A i \in 1..Len(t) : e[i] = t[i]
       /\ e[Len(t) + 1] = Head(l)
       /\ r = <<>> <=> Len(e) = Len(t) + 1
  BY <1>2, <1>6, <1>8, <1>11, <1>12
<1> QED
  BY <1>1, <1>3, <1>10, <1>13 DEF e, d, u, r

-----------------------------------------------------------------------------
(* The voice parser knows the last bytes that arrived, and leaves the CRC   *)
(* of the upgrade parser alone.                                             *)
VoiceHeard ==
    ~isOtaMode => /\ parser.crc = 0 /\ ~cut /\ phantoms = 0
                  /\ \E t \in Seq(Byte) : Ends(seen, t) /\ VoiceReads(parser, t)

(* So does the upgrade parser, unless it still goes on with a voice frame.  *)
JlHeard ==
    isOtaMode => \/ \E t \in Seq(Byte) : Ends(seen, t) /\ JlReads(parser, t)
                 \/ cut /\ phantoms = 0 /\ parser.status # 0

HeardInv == TypeOK /\ Fits(parser) /\ VoiceHeard /\ JlHeard /\ PhantomOnlyFromCut

(* The messages of a protocol.                                              *)
IsMessage(protocol, m) ==
    \/ protocol = "voice" /\ m \in Seq(Byte) /\ \E k \in Word : Len(m) = k + 2 /\ k <= MaxVoiceData
    \/ protocol = "jl" /\ m \in Seq(Byte) /\ \E k \in Word : Len(m) = k /\ k <= MaxJlData

Reads(t) == IF isOtaMode THEN JlReads(parser, t) ELSE VoiceReads(parser, t)

(* A frame that arrives undamaged is what the parser knows followed by what *)
(* is to come.                                                              *)
CleanInv ==
    clean => \/ line = <<>> /\ delivered = <<frame.msg>>
             \/ /\ line # <<>> /\ delivered = <<>>
                /\ frame.protocol = Parser /\ IsMessage(Parser, frame.msg)
                /\ \E t \in Seq(Byte) : Reads(t) /\ Encode(Parser, frame.msg) = t \o line

(* The frames the chip sends are bytes.                                     *)
LEMMA VoiceFrameBytes ==
  ASSUME NEW m \in VoiceMessages
  PROVE  IsMessage("voice", m)
<1>1. PICK f \in VoiceFrames : m = <<LowByte(f.cmd), HighByte(f.cmd)>> \o f.data
  BY DEF VoiceMessages
<1>2. f.cmd \in Word /\ f.data \in Seq(Byte) /\ Len(f.data) <= MaxVoiceData
  BY FsmAssumption
<1> DEFINE head == <<LowByte(f.cmd), HighByte(f.cmd)>>
<1>3. head \in Seq(Byte) /\ Len(head) = 2
  BY <1>2, Halves
<1>4. m = head \o f.data
  BY <1>1
<1> HIDE DEF head
<1>5. PICK k \in Nat : k = Len(f.data)
  BY <1>2
<1>6. m \in Seq(Byte) /\ Len(m) = Len(head) + Len(f.data)
  BY <1>2, <1>3, <1>4, Joint
<1>7. Len(m) = k + 2
  BY <1>3, <1>5, <1>6
<1>8. k <= MaxVoiceData
  BY <1>2, <1>5
<1>9. k \in Word
  <2>1. MaxVoiceData \in Nat /\ MaxVoiceData < 256 * 256
    BY Sizes, WordFacts
  <2>2. k < 256 * 256
    BY <1>8, <2>1
  <2> QED
    BY <2>2, WordFacts
<1> QED
  BY <1>6, <1>7, <1>8, <1>9 DEF IsMessage

LEMMA JlPacketBytes ==
  ASSUME NEW m \in JlPackets
  PROVE  IsMessage("jl", m)
<1>1. m \in Seq(Byte) /\ Len(m) \in 1..MaxJlData
  BY FsmAssumption
<1>2. PICK k \in Nat : k = Len(m)
  BY <1>1
<1>3. k <= MaxJlData
  BY <1>1, <1>2, Sizes
<1>4. k \in Word
  <2>1. MaxVoiceData \in Nat /\ MaxVoiceData < 256 * 256 /\ MaxJlData \in Nat
        /\ MaxJlData <= MaxVoiceData
    BY Sizes, WordFacts
  <2>2. k < 256 * 256
    BY <1>3, <2>1
  <2> QED
    BY <2>2, WordFacts
<1> QED
  BY <1>1, <1>2, <1>3, <1>4 DEF IsMessage

LEMMA EncodedBytes ==
  ASSUME NEW protocol, NEW m, IsMessage(protocol, m)
  PROVE  Encode(protocol, m) \in Seq(Byte) /\ Encode(protocol, m) # <<>>
<1>1. CASE protocol = "voice"
  <2>1. PICK k \in Word : m \in Seq(Byte) /\ Len(m) = k + 2
    BY <1>1 DEF IsMessage
  <2>2. PICK body : VoiceBody(m, body) /\ Encode("voice", m) = Append(body, Sum8(body))
    BY <2>1, VoiceLayout
  <2>3. body \in Seq(Byte) /\ Sum8(body) \in Byte
    BY <2>2, Sum8Type DEF VoiceBody
  <2> QED
    BY <1>1, <2>2, <2>3
<1>2. CASE protocol = "jl"
  <2>1. PICK k \in Word : m \in Seq(Byte) /\ Len(m) = k
    BY <1>2 DEF IsMessage
  <2>2. PICK body : JlBody(m, body) /\ Encode("jl", m) = JlChecked(body)
    BY <2>1, JlLayout
  <2>3. body \in Seq(Byte) /\ crc16_ccitt(body) \in Word
    BY <2>2, Crc16Type DEF JlBody
  <2>4. LowByte(crc16_ccitt(body)) \in Byte /\ HighByte(crc16_ccitt(body)) \in Byte
    BY <2>3, Halves
  <2> QED
    BY <1>2, <2>2, <2>3, <2>4 DEF JlChecked
<1> QED
  BY <1>1, <1>2 DEF IsMessage

LEMMA InitHeard == Init => HeardInv /\ CleanInv
<1> SUFFICES ASSUME Init PROVE HeardInv /\ CleanInv
  OBVIOUS
<1>1. parser \in Parsers
  <2>1. 0 \in 0..(MaxVoiceData + 6) /\ 0 \in Word /\ 0 \in Byte
    BY Sizes, WordsAreNat
  <2>2. [i \in 0..(BufferLen - 1) |-> 0] \in [0..(BufferLen - 1) -> Byte]
    BY <2>1
  <2> QED
    BY <2>1, <2>2 DEF Init, Parsers
<1>2. parser.status = 0 /\ parser.crc = 0 /\ parser.sum8 = 0
  BY DEF Init
<1>a. /\ isOtaMode = FALSE /\ line = <<>> /\ clean = FALSE /\ cut = FALSE
      /\ seen = <<>> /\ phantoms = 0 /\ frames = 0 /\ errors = 0
  BY DEF Init
<1>3. TypeOK
  <2>1. 0 \in 0..MaxFrames /\ 0 \in 0..MaxErrors
    BY FsmAssumption
  <2>2. <<>> \in Seq(Byte) /\ 0 \in Nat
    OBVIOUS
  <2> QED
    BY <1>1, <1>a, <2>1, <2>2 DEF TypeOK
<1>4. Fits(parser)
  BY <1>2 DEF Fits
<1>5. VoiceReads(parser, <<>>) /\ Ends(seen, <<>>) /\ <<>> \in Seq(Byte)
  BY <1>2, <1>3, VoiceReadsNone, EndsNone DEF TypeOK
<1>6. VoiceHeard /\ JlHeard
  BY <1>2, <1>3, <1>5, <1>a DEF TypeOK, VoiceHeard, JlHeard
<1>7. PhantomOnlyFromCut /\ CleanInv
  BY <1>a DEF PhantomOnlyFromCut, CleanInv
<1> QED
  BY <1>3, <1>4, <1>6, <1>7 DEF HeardInv

(* A byte keeps what the parser knows to be the last bytes, and completes   *)
(* no frame that was not on the line, but for one after a cut.              *)
LEMMA InterruptHears ==
  ASSUME HeardInv, NEW b \in Byte, Interrupt(b)
  PROVE  /\ parser' \in Parsers /\ seen' \in Seq(Byte) /\ phantoms' \in Nat
         /\ Fits(parser)' /\ VoiceHeard' /\ JlHeard' /\ PhantomOnlyFromCut'
<1>0. /\ parser \in Parsers /\ Fits(parser) /\ seen \in Seq(Byte) /\ phantoms \in Nat
      /\ isOtaMode \in BOOLEAN /\ cut \in BOOLEAN /\ PhantomOnlyFromCut
      /\ isOtaMode' = isOtaMode /\ cut' = cut
  BY DEF HeardInv, TypeOK, Interrupt
<1>1. seen' = Window(Append(seen, b))
  BY DEF Interrupt
<1>2. PICK w \in Seq(Byte) : w = seen'
  <2>1. Ends(seen, <<>>) /\ Len(<<>>) <= MaxVoiceData + 6 /\ <<>> \in Seq(Byte)
    BY <1>0, EndsNone, Sizes
  <2> QED
    BY <1>0, <1>1, <2>1, WindowEnds
<1>3. \A t \in Seq(Byte) : Ends(seen, t) /\ Len(t) <= MaxVoiceData + 6 =>
         Ends(w, Append(t, b)) /\ Append(t, b) \in Seq(Byte)
  BY <1>0, <1>1, <1>2, WindowEnds, Appended
<1>4. Ends(w, <<>>) /\ <<>> \in Seq(Byte)
  BY EndsNone
<1>5. parser.status <= MaxVoiceData + 6
  BY <1>0, Fields
<1>6. CASE ~isOtaMode
  <2>1. parser' = VoiceStep(parser, b)
    BY <1>6 DEF Interrupt
  <2>2. PICK t \in Seq(Byte) : Ends(seen, t) /\ VoiceReads(parser, t)
    BY <1>6 DEF HeardInv, VoiceHeard
  <2>3. parser.crc = 0 /\ ~cut /\ phantoms = 0
    BY <1>6 DEF HeardInv, VoiceHeard
  <2>4. Ends(w, Append(t, b)) /\ Append(t, b) \in Seq(Byte)
    BY <1>3, <1>5, <2>2 DEF VoiceReads
  <2>5. PICK v \in Seq(Byte) : Ends(w, v) /\ VoiceReads(parser', v)
    BY <1>0, <1>4, <2>1, <2>2, <2>4, VoiceTakes
  <2>6. parser' \in Parsers /\ Fits(parser') /\ parser'.crc = 0
    BY <1>0, <2>1, <2>2, <2>3, VoiceReadsFits, VoiceSteps DEF VoiceStepped
  <2>7. phantoms' = 0
    <3>1. CASE ~VoiceComplete(parser, b)
      BY <1>6, <2>3, <3>1 DEF Interrupt
    <3>2. CASE VoiceComplete(parser, b)
      <4>1. Append(t, b) = Encode("voice", Stored(parser, 2 + parser.dataLen))
        BY <1>0, <2>2, <3>2, VoiceGenuine
      <4>2. /\ VoiceStep(parser, b).dataLen = parser.dataLen
            /\ VoiceStep(parser, b).buffer = parser.buffer
        BY <1>0, <3>2, VoiceKeeps
      <4>3. Message(VoiceStep(parser, b)) = Stored(parser, 2 + parser.dataLen)
        BY <1>6, <4>2 DEF Message, Stored
      <4>4. IsSuffix(Encode(Parser, Message(VoiceStep(parser, b))), w)
        BY <1>6, <2>4, <4>1, <4>3, EndsSuffix DEF Parser
      <4> QED
        BY <1>1, <1>2, <1>6, <2>3, <4>4 DEF Interrupt
    <3> QED
      BY <3>1, <3>2
  <2>8. VoiceHeard'
    BY <1>0, <1>2, <2>3, <2>5, <2>6, <2>7 DEF VoiceHeard
  <2>9. JlHeard' /\ PhantomOnlyFromCut'
    BY <1>0, <1>6, <2>3, <2>7 DEF JlHeard, PhantomOnlyFromCut
  <2> QED
    BY <1>2, <2>6, <2>7, <2>8, <2>9
<1>7. CASE isOtaMode
  <2>1. parser' = JlStep(parser, b)
    BY <1>7 DEF Interrupt
  <2>2. JlStepped(parser, b, JlStore(parser, b), parser')
    BY <1>0, <2>1, JlSteps
  <2>3. parser' \in Parsers /\ Fits(parser')
    BY <2>2 DEF JlStepped
  <2>4. phantoms' \in {phantoms, phantoms + 1} /\ phantoms' \in Nat
    BY <1>0 DEF Interrupt
  <2>5. ~JlComplete(parser, b) => phantoms' = phantoms
    BY <1>7 DEF Interrupt
  <2>6. VoiceHeard'
    BY <1>0, <1>7 DEF VoiceHeard
  <2>7. ASSUME NEW t \in Seq(Byte), Ends(seen, t), JlReads(parser, t)
        PROVE  JlHeard' /\ PhantomOnlyFromCut'
    <3>1. Ends(w, Append(t, b)) /\ Append(t, b) \in Seq(Byte)
      BY <1>3, <1>5, <2>7 DEF JlReads
    <3>2. PICK v \in Seq(Byte) : Ends(w, v) /\ JlReads(parser', v)
      BY <1>0, <1>4, <2>1, <2>7, <3>1, JlTakes
    <3>3. phantoms' = phantoms
      <4> SUFFICES ASSUME JlComplete(parser, b) PROVE phantoms' = phantoms
        BY <2>5
      <4>1. Append(t, b) = Encode("jl", Stored(parser, parser.dataLen))
        BY <1>0, <2>7, JlGenuine
      <4>2. JlStep(parser, b).dataLen = parser.dataLen /\ JlStep(parser, b).buffer = parser.buffer
        BY <1>0, JlKeeps
      <4>3. Message(JlStep(parser, b)) = Stored(parser, parser.dataLen)
        BY <1>7, <4>2 DEF Message, Stored
      <4>4. IsSuffix(Encode(Parser, Message(JlStep(parser, b))), w)
        BY <1>7, <3>1, <4>1, <4>3, EndsSuffix DEF Parser
      <4> QED
        BY <1>1, <1>2, <1>7, <4>4 DEF Interrupt
    <3> QED
      BY <1>0, <1>2, <3>2, <3>3 DEF JlHeard, PhantomOnlyFromCut
  <2>8. ASSUME cut, phantoms = 0, parser.status # 0
        PROVE  JlHeard' /\ PhantomOnlyFromCut'
    <3>1. PhantomOnlyFromCut'
      BY <1>0, <2>4, <2>8 DEF PhantomOnlyFromCut
    <3>2. CASE JlRejects(parser, b) \/ JlComplete(parser, b)
      <4>1. parser'.status = 0 /\ parser'.crc = 0
        BY <2>2, <3>2 DEF JlStepped
      <4>2. JlReads(parser', <<>>)
        BY <2>3, <4>1, JlReadsNone
      <4> QED
        BY <1>2, <1>4, <3>1, <4>2 DEF JlHeard
    <3>3. CASE ~(JlRejects(parser, b) \/ JlComplete(parser, b))
      <4>1. parser'.status = parser.status + 1 /\ phantoms' = 0
        BY <2>2, <2>5, <2>8, <3>3 DEF JlStepped
      <4>2. parser'.status # 0
        BY <1>0, <4>1, Fields
      <4> QED
        BY <1>0, <2>8, <3>1, <4>1, <4>2 DEF JlHeard
    <3> QED
      BY <3>2, <3>3
  <2>9. JlHeard' /\ PhantomOnlyFromCut'
    BY <1>7, <2>7, <2>8 DEF HeardInv, JlHeard
  <2> QED
    BY <1>2, <2>3, <2>4, <2>6, <2>9
<1> QED
  BY <1>6, <1>7

(* A byte of an undamaged frame is the next one of it; the last delivers    *)
(* the frame.                                                               *)
LEMMA ArrivesClean ==
  ASSUME HeardInv, CleanInv, ByteArrives
  PROVE  CleanInv'
<1> SUFFICES ASSUME clean' PROVE CleanInv'
  BY DEF CleanInv
<1>0. /\ parser \in Parsers /\ line \in Seq(Byte) /\ line # <<>> /\ clean
      /\ line' = Tail(line) /\ frame' = frame /\ isOtaMode' = isOtaMode
      /\ Fits(parser) /\ isOtaMode \in BOOLEAN
  BY DEF HeardInv, TypeOK, ByteArrives, Interrupt
<1>1. /\ delivered = <<>> /\ frame.protocol = Parser /\ IsMessage(Parser, frame.msg)
      /\ \E t \in Seq(Byte) : Reads(t) /\ Encode(Parser, frame.msg) = t \o line
  BY <1>0 DEF CleanInv
<1>2. PICK t \in Seq(Byte) : Reads(t) /\ Encode(Parser, frame.msg) = t \o line
  BY <1>1
<1>b. PICK b, e, m : b = Head(line) /\ e = t \o line /\ m = frame.msg
  OBVIOUS
<1>3. /\ b \in Byte /\ e \in Seq(Byte) /\ Len(t) + 1 <= Len(e)
      /\ \A i \in 1..Len(t) : e[i] = t[i]
      /\ e[Len(t) + 1] = b /\ e = Append(t, b) \o Tail(line)
      /\ Tail(line) = <<>> <=> Len(e) = Len(t) + 1
  BY <1>0, <1>b, NextByte
<1>4. Interrupt(b) /\ Parser' = Parser
  BY <1>0, <1>b DEF ByteArrives, Parser
<1>5. Encode(Parser, m) = e
  BY <1>2, <1>b
<1>6. Append(t, b) \in Seq(Byte)
  BY <1>3, Appended
<1>7. PICK n \in Nat : n = Len(t)
  OBVIOUS
<1> DEFINE done == IF isOtaMode THEN JlComplete(parser, b) ELSE VoiceComplete(parser, b)
           fails == IF isOtaMode THEN JlRejects(parser, b) ELSE VoiceRejects(parser, b)
<1>8. /\ ~fails
      /\ done <=> Len(e) = n + 1
      /\ done => Message(parser') = m
  <2>1. CASE ~isOtaMode
    <3>0. Parser = "voice" /\ VoiceReads(parser, t)
      BY <1>2, <2>1 DEF Parser, Reads
    <3>1. PICK k \in Word : m \in Seq(Byte) /\ Len(m) = k + 2 /\ k <= MaxVoiceData
      BY <1>1, <1>b, <3>0 DEF IsMessage
    <3>2. PICK body : VoiceBody(m, body) /\ e = Append(body, Sum8(body))
      BY <1>5, <3>0, <3>1, VoiceLayout
    <3>3. body \in Seq(Byte) /\ Sum8(body) \in Byte
      BY <3>2, Sum8Type DEF VoiceBody
    <3>4. PICK l \in Nat : l = Len(body)
      BY <3>3
    <3>5. Len(e) = l + 1 /\ e[l + 1] = Sum8(body) /\ \A i \in 1..l : e[i] = body[i]
      BY <3>2, <3>3, <3>4, Appended
    <3>6. n <= l
      BY <1>3, <1>7, <3>5
    <3>7. \A i \in 1..n : t[i] = body[i]
      BY <1>3, <1>7, <3>5, <3>6
    <3>8. b = IF n = l THEN Sum8(body) ELSE body[n + 1]
      <4>1. n # l => n + 1 \in 1..l
        BY <3>6
      <4> QED
        BY <1>3, <1>7, <3>5, <4>1
    <3>9. /\ ~VoiceRejects(parser, b)
          /\ VoiceComplete(parser, b) <=> n = l
          /\ VoiceComplete(parser, b) => Stored(parser, 2 + parser.dataLen) = m
      <4>1. /\ Len(t) <= Len(body) /\ \A i \in 1..Len(t) : t[i] = body[i]
            /\ b = IF Len(t) = Len(body) THEN Sum8(body) ELSE body[Len(t) + 1]
        BY <1>7, <3>4, <3>6, <3>7, <3>8
      <4>2. /\ ~VoiceRejects(parser, b)
            /\ VoiceComplete(parser, b) <=> Len(t) = Len(body)
            /\ VoiceComplete(parser, b) => Stored(parser, 2 + parser.dataLen) = m
        BY <1>0, <1>3, <3>0, <3>1, <3>2, <4>1, VoiceClean
      <4> QED
        BY <1>7, <3>4, <4>2
    <3>10. VoiceComplete(parser, b) => Message(parser') = m
      <4> SUFFICES ASSUME VoiceComplete(parser, b) PROVE Message(parser') = m
        OBVIOUS
      <4>1. parser' = VoiceStep(parser, b)
        BY <1>4, <2>1 DEF Interrupt
      <4>2. parser'.dataLen = parser.dataLen /\ parser'.buffer = parser.buffer
        BY <1>0, <1>3, <4>1, VoiceKeeps
      <4>3. Message(parser') = Stored(parser, 2 + parser.dataLen)
        BY <2>1, <4>2 DEF Message, Stored
      <4> QED
        BY <3>9, <4>3
    <3>11. n = l <=> l + 1 = n + 1
      OBVIOUS
    <3> QED
      BY <2>1, <3>5, <3>9, <3>10, <3>11
  <2>2. CASE isOtaMode
    <3>0. Parser = "jl" /\ JlReads(parser, t)
      BY <1>2, <2>2 DEF Parser, Reads
    <3>1. PICK k \in Word : m \in Seq(Byte) /\ Len(m) = k /\ k <= MaxJlData
      BY <1>1, <1>b, <3>0 DEF IsMessage
    <3>2. PICK body : JlBody(m, body) /\ e = JlChecked(body)
      BY <1>5, <3>0, <3>1, JlLayout
    <3>3. body \in Seq(Byte) /\ crc16_ccitt(body) \in Word
      BY <3>2, Crc16Type DEF JlBody
    <3>a. PICK lo \in Byte, hi \in Byte :
             /\ lo = LowByte(crc16_ccitt(body)) /\ hi = HighByte(crc16_ccitt(body))
             /\ crc16_ccitt(body) = lo + 256 * hi
      BY <3>3, Halves, Turned
    <3>4. PICK l \in Nat : l = Len(body)
      BY <3>3
    <3>5. /\ Len(e) = l + 2 /\ e[l + 1] = lo /\ e[l + 2] = hi
          /\ \A i \in 1..l : e[i] = body[i]
      <4> DEFINE g == Append(body, lo)
      <4>1. g \in Seq(Byte) /\ Len(g) = l + 1 /\ g[l + 1] = lo /\ \A i \in 1..l : g[i] = body[i]
        BY <3>3, <3>4, Appended
      <4>2. e = Append(g, hi)
        BY <3>2, <3>a DEF JlChecked
      <4> HIDE DEF g
      <4>3. /\ Len(e) = Len(g) + 1 /\ e[Len(g) + 1] = hi
            /\ \A i \in 1..Len(g) : e[i] = g[i]
        BY <4>1, <4>2, Appended
      <4>4. (l + 1) + 1 = l + 2 /\ l + 1 \in 1..(l + 1) /\ \A i \in 1..l : i \in 1..(l + 1)
        OBVIOUS
      <4> QED
        BY <4>1, <4>3, <4>4
    <3>6. n <= l + 1
      BY <1>3, <1>7, <3>5
    <3>7. \A i \in 1..n : t[i] = IF i <= l THEN body[i] ELSE lo
      <4> SUFFICES ASSUME NEW i \in 1..n PROVE t[i] = IF i <= l THEN body[i] ELSE lo
        OBVIOUS
      <4>1. i \in 1..l \/ i = l + 1
        BY <3>6
      <4>2. i = l + 1 => ~(i <= l)
        OBVIOUS
      <4>3. i \in 1..l => i <= l
        OBVIOUS
      <4> QED
        BY <1>3, <1>7, <3>5, <4>1, <4>2, <4>3
    <3>8. (n < l => b = body[n + 1]) /\ (n = l + 1 => b = hi)
      <4>1. n < l => n + 1 \in 1..l
        OBVIOUS
      <4>2. n = l + 1 => n + 1 = l + 2
        OBVIOUS
      <4> QED
        BY <1>3, <1>7, <3>5, <4>1, <4>2
    <3>9. /\ ~JlRejects(parser, b)
          /\ JlComplete(parser, b) <=> n = l + 1
          /\ JlComplete(parser, b) => Stored(parser, parser.dataLen) = m
      <4>1. /\ Len(t) <= Len(body) + 1
            /\ \A i \in 1..Len(t) : t[i] = IF i <= Len(body) THEN body[i] ELSE lo
            /\ Len(t) < Len(body) => b = body[Len(t) + 1]
            /\ Len(t) = Len(body) + 1 => b = hi
        BY <1>7, <3>4, <3>6, <3>7, <3>8
      <4>2. /\ ~JlRejects(parser, b)
            /\ JlComplete(parser, b) <=> Len(t) = Len(body) + 1
            /\ JlComplete(parser, b) => Stored(parser, parser.dataLen) = m
        <5>1. /\ parser \in Parsers /\ b \in Byte /\ JlReads(parser, t) /\ m \in Seq(Byte)
              /\ Len(m) = k /\ k <= MaxJlData /\ JlBody(m, body)
              /\ crc16_ccitt(body) = lo + 256 * hi
          BY <1>0, <1>3, <3>0, <3>1, <3>2, <3>a
        <5> QED
          BY <4>1, <5>1, JlClean, SMTT(30)
      <4> QED
        BY <1>7, <3>4, <4>2
    <3>10. JlComplete(parser, b) => Message(parser') = m
      <4> SUFFICES ASSUME JlComplete(parser, b) PROVE Message(parser') = m
        OBVIOUS
      <4>1. parser' = JlStep(parser, b)
        BY <1>4, <2>2 DEF Interrupt
      <4>2. parser'.dataLen = parser.dataLen /\ parser'.buffer = parser.buffer
        BY <1>0, <1>3, <4>1, JlKeeps
      <4>3. Message(parser') = Stored(parser, parser.dataLen)
        BY <2>2, <4>2 DEF Message, Stored
      <4> QED
        BY <3>9, <4>3
    <3>11. n = l + 1 <=> l + 2 = n + 1
      OBVIOUS
    <3> QED
      BY <2>2, <3>5, <3>9, <3>10, <3>11
  <2> QED
    BY <2>1, <2>2
<1>9. delivered' = IF done THEN <<Message(parser')>> ELSE <<>>
  <2>1. delivered' = IF done THEN Append(delivered, Message(parser')) ELSE delivered
    BY <1>4 DEF Interrupt
  <2>2. Append(<<>>, Message(parser')) = <<Message(parser')>>
    OBVIOUS
  <2> HIDE DEF done
  <2> QED
    BY <1>1, <2>1, <2>2
<1>10. CASE Tail(line) = <<>>
  <2>1. done
    BY <1>3, <1>7, <1>8, <1>10
  <2>2. delivered' = <<frame.msg>>
    BY <1>8, <1>9, <1>b, <2>1
  <2> QED
    BY <1>0, <1>10, <2>2 DEF CleanInv
<1>11. CASE Tail(line) # <<>>
  <2>1. ~done
    BY <1>3, <1>7, <1>8, <1>11
  <2>2. Reads(Append(t, b))'
    <3>1. CASE isOtaMode
      <4>1. JlReads(JlStep(parser, b), Append(t, b))
        BY <1>0, <1>2, <1>3, <1>8, <2>1, <3>1, JlTakes DEF Reads
      <4> QED
        BY <1>0, <1>4, <3>1, <4>1 DEF Interrupt, Reads
    <3>2. CASE ~isOtaMode
      <4>1. VoiceReads(VoiceStep(parser, b), Append(t, b))
        BY <1>0, <1>2, <1>3, <1>8, <2>1, <3>2, VoiceTakes DEF Reads
      <4> QED
        BY <1>0, <1>4, <3>2, <4>1 DEF Interrupt, Reads
    <3> QED
      BY <3>1, <3>2
  <2>3. Encode(Parser, frame.msg) = Append(t, b) \o line'
    BY <1>0, <1>3, <1>5, <1>b
  <2>4. line' # <<>> /\ delivered' = <<>>
    BY <1>0, <1>9, <1>11, <2>1
  <2> QED
    BY <1>0, <1>1, <1>4, <1>6, <2>2, <2>3, <2>4 DEF CleanInv
<1> QED
  BY <1>10, <1>11

(* The start of a frame, by the protocol of the parser and the other.       *)
LEMMA SentHeard ==
  ASSUME HeardInv, CleanInv, NEW protocol, NEW m, IsMessage(protocol, m),
         FrameSent(protocol, m)
  PROVE  HeardInv' /\ CleanInv'
<1>0. /\ line' = Encode(protocol, m) /\ frame' = [protocol |-> protocol, msg |-> m]
      /\ clean' = (parser.status = 0 /\ protocol = Parser) /\ delivered' = <<>>
      /\ frames' = frames + 1 /\ frames < MaxFrames
      /\ UNCHANGED <<isOtaMode, parser, cut, seen, phantoms, errors>>
  BY DEF FrameSent
<1>1. TypeOK /\ parser \in Parsers
  BY DEF HeardInv, TypeOK
<1>2. line' \in Seq(Byte) /\ line' # <<>>
  BY <1>0, EncodedBytes
<1>3. frames' \in 0..MaxFrames
  BY <1>0, <1>1, FsmAssumption DEF TypeOK
<1>4. clean' \in BOOLEAN
  BY <1>0
<1>5. TypeOK'
  BY <1>0, <1>1, <1>2, <1>3, <1>4 DEF TypeOK
<1>6. HeardInv'
  BY <1>0, <1>5 DEF HeardInv, VoiceHeard, JlHeard, PhantomOnlyFromCut
<1>7. CleanInv'
  <2> SUFFICES ASSUME clean' PROVE CleanInv'
    BY DEF CleanInv
  <2>1. parser.status = 0 /\ protocol = Parser /\ Parser' = Parser
    BY <1>0 DEF Parser
  <2>2. PICK t \in Seq(Byte) : Reads(t)
    BY <2>1 DEF HeardInv, VoiceHeard, JlHeard, Reads
  <2>3. t = <<>>
    BY <2>1, <2>2 DEF Reads, JlReads, VoiceReads
  <2>4. Reads(<<>>)'
    BY <1>0, <2>2, <2>3 DEF Reads
  <2>5. line' = <<>> \o line' /\ <<>> \in Seq(Byte)
    BY <1>2
  <2>6. frame'.protocol = protocol /\ frame'.msg = m
    BY <1>0
  <2> QED
    BY <1>0, <1>2, <2>1, <2>4, <2>5, <2>6 DEF CleanInv
<1> QED
  BY <1>6, <1>7

(* What the parsers know is kept by every step.                             *)
LEMMA HeardInductive == HeardInv /\ CleanInv /\ [Next]_vars => HeardInv' /\ CleanInv'
<1> SUFFICES ASSUME HeardInv, CleanInv, [Next]_vars PROVE HeardInv' /\ CleanInv'
  OBVIOUS
<1>0. TypeOK /\ line \in Seq(Byte) /\ MaxErrors \in Nat
  BY FsmAssumption DEF HeardInv, TypeOK
<1>1. ASSUME NEW msg \in VoiceMessages, FrameSent("voice", msg) PROVE HeardInv' /\ CleanInv'
  BY <1>1, VoiceFrameBytes, SentHeard
<1>2. ASSUME NEW msg \in JlPackets, FrameSent("jl", msg) PROVE HeardInv' /\ CleanInv'
  BY <1>2, JlPacketBytes, SentHeard
<1>3. CASE ByteArrives
  <2>1. Head(line) \in Byte /\ Tail(line) \in Seq(Byte) /\ Interrupt(Head(line))
    BY <1>0, <1>3 DEF ByteArrives
  <2>2. /\ parser' \in Parsers /\ seen' \in Seq(Byte) /\ phantoms' \in Nat
        /\ Fits(parser)' /\ VoiceHeard' /\ JlHeard' /\ PhantomOnlyFromCut'
    BY <2>1, InterruptHears
  <2>3. TypeOK'
    BY <1>0, <1>3, <2>1, <2>2 DEF TypeOK, ByteArrives, Interrupt
  <2> QED
    BY <1>3, <2>2, <2>3, ArrivesClean DEF HeardInv
<1>4. ASSUME NEW b \in Noise, ByteGarbled(b) PROVE HeardInv' /\ CleanInv'
  <2>1. b \in Byte /\ Tail(line) \in Seq(Byte) /\ Interrupt(b) /\ errors < MaxErrors
    BY <1>0, <1>4, FsmAssumption DEF ByteGarbled
  <2>2. /\ parser' \in Parsers /\ seen' \in Seq(Byte) /\ phantoms' \in Nat
        /\ Fits(parser)' /\ VoiceHeard' /\ JlHeard' /\ PhantomOnlyFromCut'
    BY <2>1, InterruptHears
  <2>3. errors' \in 0..MaxErrors
    BY <1>0, <1>4, <2>1 DEF TypeOK, ByteGarbled
  <2>4. TypeOK'
    BY <1>0, <1>4, <2>1, <2>2, <2>3 DEF TypeOK, ByteGarbled, Interrupt
  <2> QED
    BY <1>4, <2>2, <2>4 DEF HeardInv, CleanInv, ByteGarbled
<1>5. CASE ByteLost
  <2>1. Tail(line) \in Seq(Byte)
    BY <1>0, <1>5 DEF ByteLost
  <2>2. errors' \in 0..MaxErrors
    BY <1>0, <1>5 DEF TypeOK, ByteLost
  <2>3. TypeOK'
    BY <1>0, <1>5, <2>1, <2>2 DEF TypeOK, ByteLost
  <2> QED
    BY <1>5, <2>3 DEF HeardInv, CleanInv, ByteLost, VoiceHeard, JlHeard, PhantomOnlyFromCut
<1>6. CASE EnterOtaMode
  <2>1. /\ ~isOtaMode /\ isOtaMode' = TRUE /\ cut' = (parser.status # 0) /\ clean' = FALSE
        /\ UNCHANGED <<parser, line, frame, delivered, seen, phantoms, frames, errors>>
    BY <1>6 DEF EnterOtaMode
  <2>2. cut' \in BOOLEAN /\ TypeOK'
    BY <1>0, <2>1 DEF TypeOK
  <2>3. parser.crc = 0 /\ ~cut /\ phantoms = 0 /\ parser \in Parsers /\ seen \in Seq(Byte)
    BY <2>1 DEF HeardInv, VoiceHeard, TypeOK
  <2>4. parser.status = 0 => JlReads(parser, <<>>) /\ Ends(seen, <<>>) /\ <<>> \in Seq(Byte)
    BY <2>3, JlReadsNone, EndsNone
  <2>5. JlHeard'
    BY <2>1, <2>3, <2>4 DEF JlHeard
  <2>6. VoiceHeard' /\ CleanInv'
    BY <2>1 DEF VoiceHeard, CleanInv
  <2>7. PhantomOnlyFromCut'
    BY <2>1, <2>3 DEF PhantomOnlyFromCut
  <2>8. Fits(parser)'
    BY <2>1 DEF HeardInv
  <2> QED
    BY <2>2, <2>5, <2>6, <2>7, <2>8 DEF HeardInv
<1>7. CASE UNCHANGED vars
  BY <1>7 DEF vars, HeardInv, CleanInv, TypeOK, VoiceHeard, JlHeard, PhantomOnlyFromCut,
              Reads, Parser
<1> QED
  BY <1>1, <1>2, <1>3, <1>4, <1>5, <1>6, <1>7 DEF Next

(* The inductive invariant: the interrupt's static variables describe the   *)
(* bytes that arrived last, and those of an undamaged frame its first bytes. *)
THEOREM HeardAlways == Spec => [](HeardInv /\ CleanInv)
<1>1. Init => HeardInv /\ CleanInv
  BY InitHeard
<1>2. HeardInv /\ CleanInv /\ [Next]_vars => (HeardInv /\ CleanInv)'
  BY HeardInductive
<1> QED
  BY <1>1, <1>2, PTL DEF Spec

(* Whatever arrives, and whenever the mode is switched, both parsers keep   *)
(* to their types and store and read within the union: the bound the voice  *)
(* parser enforced also covers the upgrade parser that goes on with its     *)
(* data_len.                                                                *)
THEOREM StoresWithinUnion == Spec => []FsmInv
<1>1. HeardInv => FsmInv
  <2> SUFFICES ASSUME HeardInv PROVE FsmInv
    OBVIOUS
  <2>1. TypeOK /\ parser \in Parsers /\ Fits(parser)
    BY DEF HeardInv, TypeOK
  <2>2. /\ parser.status \in Nat /\ parser.dataLen \in Nat
        /\ MaxVoiceData \in Nat /\ BufferLen = MaxVoiceData + 2
    BY <2>1, Fields, Sizes
  <2>3. WritesInBounds
    BY <2>1, <2>2 DEF WritesInBounds, Fits
  <2> QED
    BY <2>1, <2>3 DEF FsmInv
<1> QED
  BY <1>1, HeardAlways, PTL

(* A frame that finds the parser of its protocol at rest, and arrives       *)
(* whole, is delivered once, with its bytes: of any length, after any       *)
(* damage.                                                                  *)
THEOREM WholeFramesDelivered == Spec => []FramesDelivered
<1>1. CleanInv => FramesDelivered
  BY DEF CleanInv, FramesDelivered
<1> QED
  BY <1>1, HeardAlways, PTL

(* What is delivered was on the line as a frame, except at most one message *)
(* of a voice frame that the switch to the upgrade mode cut.                *)
THEOREM DeliveredWasSent == Spec => []PhantomOnlyFromCut
<1>1. HeardInv => PhantomOnlyFromCut
  BY DEF HeardInv
<1> QED
  BY <1>1, HeardAlways, PTL
=============================================================================
